--------------------------- MODULE InodeTableProof ---------------------------
(***************************************************************************)
(* Proofs about the inode table, for any number of processes, entries,     *)
(* inodes and names: first that no file has two entries in the table, then *)
(* that the names, the table and the disk agree about files. For the       *)
(* latter, the lemma XFiled says of every action X that it keeps Filed.    *)
(***************************************************************************)
EXTENDS InodeCallsProof

(* An entry has the seven fields of struct inode, whatever they hold.      *)
Shaped(e) == e = [number |-> e.number, count |-> e.count, lock |-> e.lock, want |-> e.want,
                  dirty |-> e.dirty, mode |-> e.mode, nlink |-> e.nlink]

(* The table t has an entry for every slot, and no inode twice.            *)
Table(t) ==
  /\ DOMAIN t = Slot
  /\ t = [s \in Slot |-> t[s]]
  /\ \A s \in Slot : Shaped(t[s])
Distinct(t) == \A r, s \in Slot : t[r].number = t[s].number /\ t[r].number # 0 => r = s

(* An entry that keeps its fields keeps its inode, or has none.            *)
Keeps(e, f) == Shaped(f) /\ (f.number = e.number \/ f.number = 0)

LEMMA KeepsTable ==
  ASSUME NEW t, Table(t), Distinct(t), NEW s, NEW f, s \in Slot => Keeps(t[s], f)
  PROVE  Table([t EXCEPT ![s] = f]) /\ Distinct([t EXCEPT ![s] = f])
BY DEF Table, Distinct, Keeps

Inv == Table(inode) /\ Distinct(inode)

LEMMA Field ==
  ASSUME NEW e, Shaped(e), NEW x
  PROVE  /\ Keeps(e, [e EXCEPT !.count = x])
         /\ Keeps(e, [e EXCEPT !.lock = x])
         /\ Keeps(e, [e EXCEPT !.want = x])
         /\ Keeps(e, [e EXCEPT !.dirty = x])
         /\ Keeps(e, [e EXCEPT !.mode = x])
         /\ Keeps(e, [e EXCEPT !.nlink = x])
         /\ Keeps(e, [e EXCEPT !.number = 0])
<1>1. Keeps(e, [e EXCEPT !.count = x])
  BY DEF Keeps, Shaped
<1>2. Keeps(e, [e EXCEPT !.lock = x])
  BY DEF Keeps, Shaped
<1>3. Keeps(e, [e EXCEPT !.want = x])
  BY DEF Keeps, Shaped
<1>4. Keeps(e, [e EXCEPT !.dirty = x])
  BY DEF Keeps, Shaped
<1>5. Keeps(e, [e EXCEPT !.mode = x])
  BY DEF Keeps, Shaped
<1>6. Keeps(e, [e EXCEPT !.nlink = x])
  BY DEF Keeps, Shaped
<1>7. Keeps(e, [e EXCEPT !.number = 0])
  BY DEF Keeps, Shaped
<1> QED BY <1>1, <1>2, <1>3, <1>4, <1>5, <1>6, <1>7

LEMMA KeepsAgain == ASSUME NEW e, NEW f, NEW g, Keeps(e, f), Keeps(f, g) PROVE Keeps(e, g)
BY DEF Keeps

(* Every way the code has to change several fields of an entry.            *)
LEMMA Fields ==
  ASSUME NEW e, Shaped(e), NEW c, NEW l, NEW w, NEW d, NEW m, NEW n
  PROVE  /\ Keeps(e, [e EXCEPT !.count = c, !.lock = l])
         /\ Keeps(e, [e EXCEPT !.lock = l, !.count = c])
         /\ Keeps(e, [e EXCEPT !.mode = m, !.nlink = n])
         /\ Keeps(e, [e EXCEPT !.mode = m, !.dirty = d])
         /\ Keeps(e, [e EXCEPT !.nlink = n, !.dirty = d])
         /\ Keeps(e, [e EXCEPT !.mode = m, !.nlink = n, !.dirty = d])
         /\ Keeps(e, [e EXCEPT !.lock = l, !.want = w])
         /\ Keeps(e, [[e EXCEPT !.lock = l, !.want = w] EXCEPT !.count = c])
         /\ Keeps(e, [[e EXCEPT !.lock = l, !.want = w] EXCEPT !.dirty = d])
         /\ Keeps(e, [[e EXCEPT !.lock = l, !.want = w] EXCEPT !.dirty = d, !.number = 0, !.count = c])
         /\ Keeps(e, [e EXCEPT !.count = c, !.mode = m, !.lock = l, !.want = w, !.dirty = d])
         /\ Keeps(e, [e EXCEPT !.count = c, !.lock = l, !.want = w, !.dirty = d])
<1>1. Keeps(e, [e EXCEPT !.count = c])
  BY Field
<1>2. Keeps(e, [e EXCEPT !.lock = l])
  BY Field
<1>3. Keeps(e, [e EXCEPT !.mode = m])
  BY Field
<1>4. Keeps(e, [e EXCEPT !.nlink = n])
  BY Field
<1>5. Keeps(e, [[e EXCEPT !.count = c] EXCEPT !.lock = l])
  BY <1>1, Field, KeepsAgain DEF Keeps
<1>6. Keeps(e, [[e EXCEPT !.lock = l] EXCEPT !.count = c])
  BY <1>2, Field, KeepsAgain DEF Keeps
<1>7. Keeps(e, [[e EXCEPT !.mode = m] EXCEPT !.nlink = n])
  BY <1>3, Field, KeepsAgain DEF Keeps
<1>8. Keeps(e, [[e EXCEPT !.mode = m] EXCEPT !.dirty = d])
  BY <1>3, Field, KeepsAgain DEF Keeps
<1>9. Keeps(e, [[e EXCEPT !.nlink = n] EXCEPT !.dirty = d])
  BY <1>4, Field, KeepsAgain DEF Keeps
<1>10. Keeps(e, [[e EXCEPT !.lock = l] EXCEPT !.want = w])
  BY <1>2, Field, KeepsAgain DEF Keeps
<1>11. Keeps(e, [[e EXCEPT !.count = c] EXCEPT !.mode = m])
  BY <1>1, Field, KeepsAgain DEF Keeps
<1>12. Keeps(e, [[[e EXCEPT !.mode = m] EXCEPT !.nlink = n] EXCEPT !.dirty = d])
  BY <1>7, Field, KeepsAgain DEF Keeps
<1>13. Keeps(e, [[[e EXCEPT !.lock = l] EXCEPT !.want = w] EXCEPT !.count = c])
  BY <1>10, Field, KeepsAgain DEF Keeps
<1>14. Keeps(e, [[[e EXCEPT !.lock = l] EXCEPT !.want = w] EXCEPT !.dirty = d])
  BY <1>10, Field, KeepsAgain DEF Keeps
<1>15. Keeps(e, [[[e EXCEPT !.count = c] EXCEPT !.mode = m] EXCEPT !.lock = l])
  BY <1>11, Field, KeepsAgain DEF Keeps
<1>16. Keeps(e, [[[e EXCEPT !.count = c] EXCEPT !.lock = l] EXCEPT !.want = w])
  BY <1>5, Field, KeepsAgain DEF Keeps
<1>17. Keeps(e, [[[[e EXCEPT !.lock = l] EXCEPT !.want = w] EXCEPT !.dirty = d] EXCEPT !.number = 0])
  BY <1>14, Field, KeepsAgain DEF Keeps
<1>18. Keeps(e, [[[[e EXCEPT !.count = c] EXCEPT !.mode = m] EXCEPT !.lock = l] EXCEPT !.want = w])
  BY <1>15, Field, KeepsAgain DEF Keeps
<1>19. Keeps(e, [[[[e EXCEPT !.count = c] EXCEPT !.lock = l] EXCEPT !.want = w] EXCEPT !.dirty = d])
  BY <1>16, Field, KeepsAgain DEF Keeps
<1>20. Keeps(e, [[[[[e EXCEPT !.lock = l] EXCEPT !.want = w] EXCEPT !.dirty = d] EXCEPT !.number = 0] EXCEPT !.count = c])
  BY <1>17, Field, KeepsAgain DEF Keeps
<1>21. Keeps(e, [[[[[e EXCEPT !.count = c] EXCEPT !.mode = m] EXCEPT !.lock = l] EXCEPT !.want = w] EXCEPT !.dirty = d])
  BY <1>18, Field, KeepsAgain DEF Keeps
<1>22. [e EXCEPT !.count = c, !.lock = l] = [[e EXCEPT !.count = c] EXCEPT !.lock = l]
  OBVIOUS
<1>23. [e EXCEPT !.lock = l, !.count = c] = [[e EXCEPT !.lock = l] EXCEPT !.count = c]
  OBVIOUS
<1>24. [e EXCEPT !.mode = m, !.nlink = n] = [[e EXCEPT !.mode = m] EXCEPT !.nlink = n]
  OBVIOUS
<1>25. [e EXCEPT !.mode = m, !.dirty = d] = [[e EXCEPT !.mode = m] EXCEPT !.dirty = d]
  OBVIOUS
<1>26. [e EXCEPT !.nlink = n, !.dirty = d] = [[e EXCEPT !.nlink = n] EXCEPT !.dirty = d]
  OBVIOUS
<1>27. [e EXCEPT !.mode = m, !.nlink = n, !.dirty = d] = [[[e EXCEPT !.mode = m] EXCEPT !.nlink = n] EXCEPT !.dirty = d]
  OBVIOUS
<1>28. [e EXCEPT !.lock = l, !.want = w] = [[e EXCEPT !.lock = l] EXCEPT !.want = w]
  OBVIOUS
<1>29. [[e EXCEPT !.lock = l, !.want = w] EXCEPT !.count = c] = [[[e EXCEPT !.lock = l] EXCEPT !.want = w] EXCEPT !.count = c]
  OBVIOUS
<1>30. [[e EXCEPT !.lock = l, !.want = w] EXCEPT !.dirty = d] = [[[e EXCEPT !.lock = l] EXCEPT !.want = w] EXCEPT !.dirty = d]
  OBVIOUS
<1>31. [[e EXCEPT !.lock = l, !.want = w] EXCEPT !.dirty = d, !.number = 0, !.count = c] = [[[[[e EXCEPT !.lock = l] EXCEPT !.want = w] EXCEPT !.dirty = d] EXCEPT !.number = 0] EXCEPT !.count = c]
  OBVIOUS
<1>32. [e EXCEPT !.count = c, !.mode = m, !.lock = l, !.want = w, !.dirty = d] = [[[[[e EXCEPT !.count = c] EXCEPT !.mode = m] EXCEPT !.lock = l] EXCEPT !.want = w] EXCEPT !.dirty = d]
  OBVIOUS
<1>33. [e EXCEPT !.count = c, !.lock = l, !.want = w, !.dirty = d] = [[[[e EXCEPT !.count = c] EXCEPT !.lock = l] EXCEPT !.want = w] EXCEPT !.dirty = d]
  OBVIOUS
<1> QED BY <1>5, <1>6, <1>7, <1>8, <1>9, <1>12, <1>10, <1>13, <1>14, <1>20, <1>21, <1>19,
          <1>22, <1>23, <1>24, <1>25, <1>26, <1>27, <1>28, <1>29, <1>30, <1>31, <1>32, <1>33

(* Inv is preserved when one slot changes and keeps its inode.             *)
LEMMA OneSlot ==
  ASSUME Inv, NEW s, NEW f, s \in Slot => Keeps(inode[s], f), inode' = [inode EXCEPT ![s] = f]
  PROVE  Inv'
BY KeepsTable DEF Inv

LEMMA NewNumber ==
  ASSUME NEW e, Shaped(e), NEW i
  PROVE  Shaped([e EXCEPT !.number = i]) /\ [e EXCEPT !.number = i].number = i
BY DEF Shaped

LEMMA SlotShaped == ASSUME Inv, NEW s \in Slot PROVE Shaped(inode[s])
BY DEF Inv, Table

LEMMA IgetWaitKeeps == ASSUME Inv, NEW p \in Proc, IgetWait(p) PROVE Inv'
<1>1. PICK s : inode' = [inode EXCEPT ![s].want = TRUE]
  BY DEF IgetWait, AwaitLock
<1> QED BY <1>1, OneSlot, SlotShaped, Field, Fields

LEMMA IgetFoundKeeps == ASSUME Inv, NEW p \in Proc, IgetFound(p) PROVE Inv'
<1>1. PICK s, c : inode' = [inode EXCEPT ![s] = [@ EXCEPT !.count = c, !.lock = TRUE]]
  BY DEF IgetFound
<1> QED BY <1>1, OneSlot, SlotShaped, Field, Fields

(* The only step that gives an entry an inode: no entry had it.             *)
LEMMA IgetReadKeeps == ASSUME Inv, NEW p \in Proc, IgetRead(p) PROVE Inv'
<1> DEFINE i == u[p].ino
<1>1. PICK s : inode' = [inode EXCEPT ![s] = [@ EXCEPT !.number = i, !.count = 1, !.lock = TRUE,
                                                       !.want = FALSE, !.dirty = FALSE]]
  BY DEF IgetRead
<1>2. \A r \in Slot : inode[r].number # i
  BY DEF IgetRead, Holding
<1> HIDE DEF i
<1>3. CASE s \in Slot
  <2> DEFINE e == [inode[s] EXCEPT !.number = i]
             f == [e EXCEPT !.count = 1, !.lock = TRUE, !.want = FALSE, !.dirty = FALSE]
  <2>1. Shaped(e) /\ e.number = i
    BY <1>3, SlotShaped, NewNumber
  <2>2. Keeps(e, f)
    <3> HIDE DEF e
    <3> QED BY <2>1, Fields
  <2>3. inode' = [inode EXCEPT ![s] = f]
    BY <1>1
  <2>4. Shaped(f) /\ f.number \in {i, 0}
    BY <2>1, <2>2 DEF Keeps
  <2> HIDE DEF f
  <2>5. Table(inode') /\ Distinct(inode')
    BY <1>2, <1>3, <2>3, <2>4 DEF Inv, Table, Distinct
  <2> QED BY <2>5 DEF Inv
<1>4. CASE s \notin Slot
  BY <1>1, <1>4 DEF Inv, Table, Distinct
<1> QED BY <1>3, <1>4

LEMMA IreadKeeps == ASSUME Inv, NEW p \in Proc, Iread(p) PROVE Inv'
<1>1. CASE inode' = inode
  BY <1>1 DEF Inv
<1>2. ASSUME NEW s, NEW m, NEW n, inode' = [inode EXCEPT ![s] = [@ EXCEPT !.mode = m, !.nlink = n]] PROVE Inv'
  BY <1>2, OneSlot, SlotShaped, Fields
<1> QED BY <1>1, <1>2 DEF Iread

LEMMA PlockKeeps == ASSUME Inv, NEW p \in Proc, Plock(p) PROVE Inv'
<1>1. ASSUME NEW s, inode' = [inode EXCEPT ![s].want = TRUE] PROVE Inv'
  BY <1>1, OneSlot, SlotShaped, Field
<1>2. ASSUME NEW s, inode' = [inode EXCEPT ![s].lock = TRUE] PROVE Inv'
  BY <1>2, OneSlot, SlotShaped, Field
<1> QED BY <1>1, <1>2 DEF Plock, AwaitLock

LEMMA IputSharedKeeps == ASSUME Inv, NEW p \in Proc, IputShared(p) PROVE Inv'
<1>1. PICK s, c : inode' = [inode EXCEPT ![s] = [[@ EXCEPT !.lock = FALSE, !.want = FALSE] EXCEPT !.count = c]]
  BY DEF IputShared, Released
<1> QED BY <1>1, OneSlot, SlotShaped, Field, Fields

LEMMA IputLastKeeps == ASSUME Inv, NEW p \in Proc, IputLast(p) PROVE Inv'
<1>1. PICK s : inode' = [inode EXCEPT ![s].lock = TRUE]
  BY DEF IputLast
<1> QED BY <1>1, OneSlot, SlotShaped, Field, Fields

LEMMA IfreeKeeps == ASSUME Inv, NEW p \in Proc, Ifree(p) PROVE Inv'
<1>1. PICK s : inode' = [inode EXCEPT ![s] = [@ EXCEPT !.mode = "none", !.dirty = TRUE]]
  BY DEF Ifree
<1> QED BY <1>1, OneSlot, SlotShaped, Field, Fields

LEMMA IdropKeeps == ASSUME Inv, NEW p \in Proc, Idrop(p) PROVE Inv'
<1>1. PICK s : inode' = [inode EXCEPT ![s] = [[@ EXCEPT !.lock = FALSE, !.want = FALSE] EXCEPT !.dirty = FALSE, !.number = 0, !.count = 0]]
  BY DEF Idrop, Released
<1> QED BY <1>1, OneSlot, SlotShaped, Field, Fields

LEMMA IupdatKeeps == ASSUME Inv, NEW p \in Proc, Iupdat(p) PROVE Inv'
<1>1. CASE inode' = inode
  BY <1>1 DEF Inv
<1>2. ASSUME NEW s, inode' = [inode EXCEPT ![s].dirty = FALSE] PROVE Inv'
  BY <1>2, OneSlot, SlotShaped, Field, Fields
<1> QED BY <1>1, <1>2 DEF Iupdat

LEMMA IallocGotKeeps == ASSUME Inv, NEW p \in Proc, IallocGot(p) PROVE Inv'
<1>1. CASE inode' = inode
  BY <1>1 DEF Inv
<1>2. ASSUME NEW s, inode' = [inode EXCEPT ![s].nlink = 0] PROVE Inv'
  BY <1>2, OneSlot, SlotShaped, Field, Fields
<1> QED BY <1>1, <1>2 DEF IallocGot

LEMMA GrantKeeps == ASSUME Inv, NEW p \in Proc, Grant(p) PROVE Inv'
<1>1. PICK s : inode' = [inode EXCEPT ![s] = [@ EXCEPT !.lock = FALSE, !.want = FALSE]]
  BY DEF Grant, prele, Released
<1> QED BY <1>1, OneSlot, SlotShaped, Field, Fields

LEMMA TruncatedKeeps == ASSUME Inv, NEW p \in Proc, Truncated(p) PROVE Inv'
<1>1. PICK s : inode' = [inode EXCEPT ![s].dirty = TRUE]
  BY DEF Truncated
<1> QED BY <1>1, OneSlot, SlotShaped, Field, Fields

LEMMA MaknodeKeeps == ASSUME Inv, NEW p \in Proc, Maknode(p) PROVE Inv'
<1>1. CASE inode' = inode
  BY <1>1 DEF Inv
<1>2. ASSUME NEW s, inode' = [inode EXCEPT ![s] = [@ EXCEPT !.mode = "file", !.nlink = 1, !.dirty = TRUE]] PROVE Inv'
  BY <1>2, OneSlot, SlotShaped, Field, Fields
<1> QED BY <1>1, <1>2 DEF Maknode

LEMMA WdirEndKeeps == ASSUME Inv, NEW p \in Proc, WdirEnd(p) PROVE Inv'
<1>1. PICK s : inode' = [inode EXCEPT ![s].dirty = TRUE]
  BY DEF WdirEnd, Changed
<1> QED BY <1>1, OneSlot, SlotShaped, Field, Fields

LEMMA Link1Keeps == ASSUME Inv, NEW p \in Proc, Link1(p) PROVE Inv'
<1>1. CASE inode' = inode
  BY <1>1 DEF Inv
<1>2. ASSUME NEW s, inode' = [inode EXCEPT ![s] = [@ EXCEPT !.lock = FALSE, !.want = FALSE]] PROVE Inv'
  BY <1>2, OneSlot, SlotShaped, Field, Fields
<1> QED BY <1>1, <1>2 DEF Link1, prele, Released

LEMMA LinkEntryKeeps == ASSUME Inv, NEW p \in Proc, LinkEntry(p) PROVE Inv'
<1>1. PICK s : inode' = [inode EXCEPT ![s].dirty = TRUE]
  BY DEF LinkEntry, Changed
<1> QED BY <1>1, OneSlot, SlotShaped, Field, Fields

LEMMA LinkedKeeps == ASSUME Inv, NEW p \in Proc, Linked(p) PROVE Inv'
<1>1. CASE inode' = inode
  BY <1>1 DEF Inv
<1>2. ASSUME NEW s, NEW n, inode' = [inode EXCEPT ![s] = [@ EXCEPT !.nlink = n, !.dirty = TRUE]] PROVE Inv'
  BY <1>2, OneSlot, SlotShaped, Field, Fields
<1> QED BY <1>1, <1>2 DEF Linked

LEMMA UnlinkEntryKeeps == ASSUME Inv, NEW p \in Proc, UnlinkEntry(p) PROVE Inv'
<1>1. PICK t : /\ t = [inode EXCEPT ![u[p].dp].dirty = TRUE]
               /\ \E s, n : inode' = [t EXCEPT ![s] = [@ EXCEPT !.nlink = n, !.dirty = TRUE]]
  BY DEF UnlinkEntry, Changed
<1>2. Table(t) /\ Distinct(t)
  BY <1>1, SlotShaped, Field, KeepsTable DEF Inv
<1>3. PICK s, n : inode' = [t EXCEPT ![s] = [@ EXCEPT !.nlink = n, !.dirty = TRUE]]
  BY <1>1
<1>4. \A r \in Slot : Shaped(t[r])
  BY <1>2 DEF Table
<1>5. Table(inode') /\ Distinct(inode')
  BY <1>2, <1>3, <1>4, KeepsTable, Fields
<1> QED BY <1>5 DEF Inv

LEMMA PipeMadeKeeps == ASSUME Inv, NEW p \in Proc, PipeMade(p) PROVE Inv'
<1>1. PICK s : inode' = [inode EXCEPT ![s] = [@ EXCEPT !.count = 2, !.mode = "fifo", !.lock = FALSE,
                                                    !.want = FALSE, !.dirty = TRUE]]
  BY DEF PipeMade
<1> QED BY <1>1, OneSlot, SlotShaped, Field, Fields

LEMMA RdwrEndKeeps == ASSUME Inv, NEW p \in Proc, RdwrEnd(p) PROVE Inv'
<1>1. PICK s, d : inode' = [inode EXCEPT ![s] = [[@ EXCEPT !.lock = FALSE, !.want = FALSE] EXCEPT !.dirty = d]]
  BY DEF RdwrEnd, Released
<1> QED BY <1>1, OneSlot, SlotShaped, Fields

LEMMA UpdateKeeps == ASSUME Inv, NEW p \in Proc, Update(p) PROVE Inv'
<1>1. CASE inode' = inode
  BY <1>1 DEF Inv
<1>2. ASSUME NEW s, NEW c, inode' = [inode EXCEPT ![s] = [@ EXCEPT !.count = c, !.lock = TRUE]] PROVE Inv'
  BY <1>2, OneSlot, SlotShaped, Field, Fields
<1> QED BY <1>1, <1>2 DEF Update

LEMMA InitInv == Init => Inv
<1> SUFFICES ASSUME Init PROVE Inv
  OBVIOUS
<1>1. Table(inode)
  <2>1. DOMAIN inode = Slot /\ inode = [s \in Slot |-> inode[s]]
    BY DEF Init
  <2>2. ASSUME NEW s \in Slot PROVE Shaped(inode[s])
    <3>1. PICK n, c, l, w, d, m, k : inode[s] = [number |-> n, count |-> c, lock |-> l, want |-> w,
                                                 dirty |-> d, mode |-> m, nlink |-> k]
      BY DEF Init
    <3> QED BY <3>1 DEF Shaped
  <2> QED BY <2>1, <2>2 DEF Table
<1>2. Distinct(inode)
  BY DEF Init, Distinct
<1> QED BY <1>1, <1>2 DEF Inv

LEMMA StepInv == Inv /\ [Next]_vars => Inv'
<1> SUFFICES ASSUME Inv, [Next]_vars PROVE Inv'
  OBVIOUS
<1> USE DEF Inv
<1>1. CASE UNCHANGED vars
  BY <1>1 DEF vars
<1>2. ASSUME NEW p \in Proc, Inodes(p) PROVE Inv'
  <2>1. CASE IgetFull(p)
    BY <2>1 DEF IgetFull
  <2> QED
    BY <1>2, <2>1, IgetWaitKeeps, IgetFoundKeeps, IgetReadKeeps, IreadKeeps, PlockKeeps, IputSharedKeeps,
       IputLastKeeps, IfreeKeeps, IdropKeeps, IupdatKeeps DEF Inodes
<1>3. ASSUME NEW p \in Proc, Allocation(p) PROVE Inv'
  <2>1. IallocGot(p) \/ UNCHANGED inode
    BY <1>3 DEF Allocation, Ialloc, IallocTake, IallocStale, IallocSearch, Iscan, IscanEnd
  <2> QED BY <2>1, IallocGotKeeps
<1>4. ASSUME NEW p \in Proc, Names(p) PROVE Inv'
  BY <1>4 DEF Names, Namei, Lookup, Search, Child
<1>5. ASSUME NEW p \in Proc, Opening(p) PROVE Inv'
  <2>1. Grant(p) \/ Truncated(p) \/ Maknode(p) \/ WdirEnd(p) \/ UNCHANGED inode
    BY <1>5 DEF Opening, Opened, Trunc, Deny, Wdir
  <2> QED BY <2>1, GrantKeeps, TruncatedKeeps, MaknodeKeeps, WdirEndKeeps
<1>6. ASSUME NEW p \in Proc, Linking(p) PROVE Inv'
  <2>1. Link1(p) \/ LinkEntry(p) \/ Linked(p) \/ UnlinkEntry(p) \/ UNCHANGED inode
    BY <1>6 DEF Linking, Link2, LinkOut, Unlink1, Unlink2, UnlinkEnd
  <2> QED BY <2>1, Link1Keeps, LinkEntryKeeps, LinkedKeeps, UnlinkEntryKeeps
<1>7. ASSUME NEW p \in Proc, Using(p) PROVE Inv'
  <2>1. PipeMade(p) \/ RdwrEnd(p) \/ Update(p) \/ UNCHANGED inode
    BY <1>7 DEF Using, PipeFails, Close1, Rdwr1, Update1
  <2> QED BY <2>1, PipeMadeKeeps, RdwrEndKeeps, UpdateKeeps
<1>8. ASSUME NEW p \in Proc, Enters(p) \/ End(p) PROVE Inv'
  BY <1>8 DEF Enters, Open, Creat, Link, Unlink, Pipe, Close, Rdwr, Sync, Begin, End
<1> QED BY <1>1, <1>2, <1>3, <1>4, <1>5, <1>6, <1>7, <1>8 DEF Next, Kernel

(* No file has two in-core inodes, however iget, iput, ialloc and update   *)
(* interleave and whatever reads fail: iget gives an entry an inode in the *)
(* step in which it has seen that no entry has it (iget.c, loop).          *)
THEOREM InodesUnique == Spec => []UniqueInode
<1>1. Inv => UniqueInode
  BY DEF Inv, Distinct, UniqueInode
<1> QED BY <1>1, InitInv, StepInv, PTL DEF Spec

-----------------------------------------------------------------------------
(***************************************************************************)
(* Entries and inodes on the disk. Which routine may rely on what it read  *)
(* before it waited for the disk or for a lock: the directory is locked    *)
(* from namei to the entry, an inode from iget to iput.                    *)
(***************************************************************************)
Named(i) == \E n \in Name : dir[n] = i
Makes(l, r) == l \in {"wdir", "wentry"} \/ (l = "iupdat" /\ Head(r) = "wdir")
Reading(s) == \E p \in Proc : pc[p] = "iread" /\ u[p].cur = s
Making(s) == \E p \in Proc : Makes(pc[p], ret[p]) /\ u[p].ip = s

(* Where a call may be when u.u_error is set and no read has failed.       *)
Ends == {<<"opened">>, <<"unlink1">>, <<"unlink3">>, <<"end">>}
Failed(l, r, f) ==
  \/ l \in {"end", "unlink3"}
  \/ l = "opened" /\ f.cur = 0 /\ f.dp = 0
  \/ l = "unlink1" /\ f.dp = 0
  \/ l \in {"ialgot", "maknode", "unlink2"} /\ f.cur = 0
  \/ l \in {"iput", "itrunc", "ifree", "idrop"} /\ r \in Ends
  \/ l = "iupdat" /\ Head(r) = "idrop" /\ Tail(r) \in Ends

(* What a process at l, with the stack r and the registers f, may rely on: *)
(* its directory is the root; creat() has no entry of the name, unlink()   *)
(* has the one it will remove; the inodes it holds are as it left them.    *)
Rooted(l, r, f) ==
  f.dp \in {0, 1} /\ (l = "lookup" => f.cur = 1) /\ (l = "iread" => f.cur # 1) /\ (f.err => Failed(l, r, f))
Deletes(l, r, f) ==
  (l = "unlink1" /\ f.dp # 0) \/ (l \in {"iget", "iread"} /\ r = <<"unlink2">>) \/ (l = "unlink2" /\ f.cur # 0)
Locates(l, f) == l = "iread" \/ (l = "unlink2" /\ f.cur # 0)
Searched(l, r, f) ==
  /\ f.dp # 0 /\ f.flag # 2 /\ l \notin {"search", "unlink3"} => dir[f.name] = 0
  /\ Deletes(l, r, f) => f.ino # 0 /\ dir[f.name] = f.ino
  /\ Locates(l, f) => inode[f.cur].number = f.ino
  /\ l = "uentry" => inode[f.ip].number = dir[f.name]
Made(l, r, f) ==
  /\ Makes(l, r) => /\ f.flag = 0 /\ ~Named(inode[f.ip].number)
                    /\ inode[f.ip].number # ROOTINO /\ inode[f.ip].mode # "none"
  /\ l \in {"wdir", "wentry"} => dinode[inode[f.ip].number].mode # "none"
  /\ l = "maknode" /\ f.cur # 0 => inode[f.cur].mode = "none"
Ended(l, r, f) ==
  /\ l \in {"itrunc", "ifree"} => inode[f.cur].nlink <= 0
  /\ l = "idrop" \/ (l = "iupdat" /\ Head(r) = "idrop") =>
       (inode[f.cur].nlink <= 0 => inode[f.cur].mode = "none")
  /\ l = "idrop" => ~inode[f.cur].dirty
Relies(l, r, f) == Rooted(l, r, f) /\ Searched(l, r, f) /\ Made(l, r, f) /\ Ended(l, r, f)

(* A file in the table, once it is read; and one that is only on the disk. *)
Kept(s) ==
  /\ inode[s].nlink = One(Named(inode[s].number) \/ Making(s))
  /\ inode[s].mode = "none" => inode[s].nlink = 0
  /\ ~inode[s].dirty => dinode[inode[s].number] = [mode |-> inode[s].mode, nlink |-> inode[s].nlink]
Stored(i) == dinode[i].nlink = One(Named(i)) /\ (dinode[i].mode = "none" <=> ~Named(i))

InTable == \A s \in Slot : inode[s].number \notin {0, ROOTINO} /\ ~Reading(s) => Kept(s)
OnDisk == \A i \in Ino \ {ROOTINO} : (\A s \in Slot : inode[s].number = i => Reading(s)) => Stored(i)
OneName == \A m, n \in Name : dir[m] = dir[n] /\ dir[m] # 0 => m = n
Plainly == inode[1].mode # "none" /\ ~Named(ROOTINO) /\ \A s \in Slot : inode[s].count = 0 => inode[s].number = 0
Reliable == \A p \in Proc : Relies(pc[p], ret[p], u[p])
Filed == Reliable /\ InTable /\ OnDisk /\ OneName /\ Plainly /\ EntryAllocated
Base == Facts /\ Locked /\ UniqueInode /\ "link" \notin Calls /\ "pipe" \notin Calls

(* p is the only process that moves, and it changes only what it holds,    *)
(* before or after.                                                        *)
Alone(p) == \A q \in Proc \ {p} : pc'[q] = pc[q] /\ ret'[q] = ret[q] /\ u'[q] = u[q]
Mind(p, s) == Has(p, s) \/ Has(p, s)'
SameFile(s) ==
  /\ inode'[s].number = inode[s].number /\ inode'[s].mode = inode[s].mode
  /\ inode'[s].nlink = inode[s].nlink /\ inode'[s].dirty = inode[s].dirty
Within(p) ==
  /\ Alone(p)
  /\ \A s \in Slot : SameFile(s) \/ Mind(p, s)
  /\ \A i \in Ino : dinode'[i] = dinode[i] \/ \E s \in Slot : Has(p, s) /\ inode[s].number = i
  /\ \A n \in Name : \/ dir'[n] = dir[n]
                     \/ /\ Has(p, 1)
                        /\ \E s \in Slot : /\ Has(p, s) /\ inode[s].number # 0 /\ inode'[s].number = inode[s].number
                                           /\ {dir[n], dir'[n]} = {0, inode[s].number}
(* What is left to show of the step.                                       *)
Shows(p) ==
  /\ Relies(pc[p], ret[p], u[p])'
  /\ \A s \in Slot : Mind(p, s) /\ inode'[s].number \notin {0, ROOTINO} /\ ~Reading(s)' => Kept(s)'
  /\ \A i \in Ino \ {ROOTINO} :
       (\A s \in Slot : inode'[s].number = i => Reading(s)')
       /\ (\E s \in Slot : Mind(p, s) /\ i \in {inode[s].number, inode'[s].number}) => Stored(i)'
  /\ OneName' /\ Plainly' /\ EntryAllocated'

-----------------------------------------------------------------------------
LEMMA BaseByName == Base => ByName
BY DEF Base, ByName

LEMMA OneSlots == 1 \in Slot /\ 0 \notin Slot
BY SizeAssumption DEF Slot

(* Another process keeps what it holds.                                    *)
LEMMA HeldElse ==
  ASSUME Base, Base', NEW p \in Proc, Alone(p), NEW q \in Proc, q # p, NEW s \in Slot, Has(q, s)
  PROVE  /\ ~Mind(p, s) /\ Has(q, s)' /\ inode[s].number # 0
         /\ \A t \in Slot : inode[t].number = inode[s].number => t = s
<1>1. Has(q, s)' <=> Has(q, s)
  BY DEF Alone, Has
<1>2. ~Has(p, s)
  BY DEF Base, Locked
<1>3. (\A x, y \in Proc, z \in Slot : Has(x, z) /\ Has(y, z) => x = y)'
  BY DEF Base, Locked
<1>4. ~Has(p, s)'
  BY <1>1, <1>3
<1>5. inode[s].lock
  BY DEF Base, Locked
<1>6. inode[s].number # 0
  BY <1>5 DEF Base, Facts, LockUsed, Numbered
<1> QED BY <1>1, <1>2, <1>4, <1>6 DEF Base, UniqueInode, Mind

LEMMA HeldSame ==
  ASSUME Base, Base', NEW p \in Proc, Within(p), NEW q \in Proc, q # p, NEW s \in Slot, Has(q, s),
         inode[s].number \in Ino
  PROVE  SameFile(s) /\ dinode'[inode[s].number] = dinode[inode[s].number]
<1>1. ~Mind(p, s) /\ \A t \in Slot : inode[t].number = inode[s].number => t = s
  BY HeldElse DEF Within
<1>2. SameFile(s)
  BY <1>1 DEF Within
<1>3. \A t \in Slot : ~(Has(p, t) /\ inode[t].number = inode[s].number)
  BY <1>1 DEF Mind
<1> QED BY <1>2, <1>3 DEF Within

LEMMA NumberIs ==
  ASSUME Base, NEW s \in Slot, inode[s].number # 0
  PROVE  inode[s].number \in Ino
BY DEF Base, Facts, TypeOK, Inode

(* The registers of a process at the labels where it relies on them.       *)
LEMMA At_Made ==
  ASSUME NEW l, NEW r, NEW f, Config(l, r, f), Makes(l, r) \/ l = "uentry"
  PROVE  f.dp \in Slot /\ f.ip \in Slot /\ f.to = "none" /\ f.name \in Name
<1>1. CASE l = "uentry"
  BY <1>1 DEF Config
<1>2. CASE l \in {"wdir", "wentry"}
  BY <1>2 DEF Config
<1>3. CASE l = "iupdat" /\ Head(r) = "wdir"
  <2>1. IupdatOf(r, f)
    BY <1>3 DEF Config
  <2> QED BY <1>3, <2>1 DEF IupdatOf
<1> QED BY <1>1, <1>2, <1>3 DEF Makes

LEMMA At_Cur ==
  ASSUME NEW l, NEW r, NEW f, f \in Frame, Config(l, r, f),
         \/ Locates(l, f) \/ Last(l, r)
         \/ l \in {"maknode", "ialgot"} /\ f.cur # 0
         \/ l \in {"iput", "ialstale", "update1", "rdwr"}
  PROVE  f.cur \in Slot /\ Holds(l, r, f, f.cur)
<1>1. f.cur \in Slot \cup {0}
  BY DEF Frame
<1>2. CASE l = "iupdat" /\ Head(r) = "idrop"
  <2>1. r # <<"end">>
    BY <1>2, Short
  <2>2. f.cur \in Slot
    BY <1>2 DEF Config
  <2> QED BY <1>2, <2>1, <2>2 DEF Holds
<1>3. CASE l \in {"iread", "itrunc", "ifree", "idrop", "iput", "ialstale", "update1", "rdwr"}
  BY <1>3 DEF Config, Holds
<1>4. CASE l \in {"unlink2", "maknode", "ialgot"} /\ f.cur # 0
  BY <1>1, <1>4 DEF Holds
<1> QED BY <1>2, <1>3, <1>4 DEF Locates, Last

LEMMA At_Deletes ==
  ASSUME NEW l, NEW r, NEW f, Config(l, r, f), Deletes(l, r, f)
  PROVE  f.dp # 0 /\ f.name \in Name
<1>1. CASE l = "unlink1" /\ f.dp # 0
  BY <1>1 DEF Config
<1>2. CASE l = "unlink2"
  BY <1>2, OneSlots DEF Config, Unlinking
<1>3. CASE l \in {"iget", "iread"} /\ r = <<"unlink2">>
  <2>1. IgetOf(r, f)
    BY <1>3 DEF Config
  <2>2. Head(r) = "unlink2" /\ ~NameiOf(r, f)
    BY <1>3, Short DEF NameiOf
  <2> QED BY <2>1, <2>2, OneSlots DEF IgetOf, Unlinking
<1> QED BY <1>1, <1>2, <1>3 DEF Deletes

LEMMA At_Dir ==
  ASSUME NEW l, NEW r, NEW f, Config(l, r, f), f.dp # 0, l \notin {"search", "unlink3"}
  PROVE  f.name \in Name
<1>1. \A x : NameiOf(x, f) \/ IallocOf(x, f) \/ Unlinking(f) => f.name \in Name
  BY DEF NameiOf, IallocOf, Unlinking
<1>2. \A x : IgetOf(x, f) => f.name \in Name
  BY <1>1 DEF IgetOf
<1>3. \A x : IputOf(x, f) => f.name \in Name
  BY <1>1 DEF IputOf
<1>4. \A x : IupdatOf(x, f) => f.name \in Name
  BY <1>1, <1>3 DEF IupdatOf
<1>5. f # NoCall
  BY DEF NoCall
<1> QED BY <1>1, <1>2, <1>3, <1>4, <1>5 DEF Config

LEMMA SameDir ==
  ASSUME Base, Base', NEW p \in Proc, Within(p), NEW q \in Proc, q # p, Has(q, 1), NEW n \in Name
  PROVE  dir'[n] = dir[n]
<1>1. ~Mind(p, 1)
  BY HeldElse, OneSlots DEF Within
<1> QED BY <1>1 DEF Within, Mind

(* What the others rely on stays.                                          *)
LEMMA OthersRely ==
  ASSUME Base, Base', Filed, NEW p \in Proc, Within(p), NEW q \in Proc, q # p
  PROVE  Relies(pc[q], ret[q], u[q])'
<1>1. PICK l, r, f : l = pc[q] /\ r = ret[q] /\ f = u[q]
  OBVIOUS
<1>2. pc'[q] = l /\ ret'[q] = r /\ u'[q] = f
  BY <1>1 DEF Within, Alone
<1>3. Config(l, r, f) /\ f \in Frame
  BY <1>1 DEF Base, Facts, Controlled, TypeOK
<1>4. Rooted(l, r, f) /\ Searched(l, r, f) /\ Made(l, r, f) /\ Ended(l, r, f)
  BY <1>1 DEF Filed, Reliable, Relies
<1>5. \A s : Holds(l, r, f, s) => Has(q, s)
  BY <1>1 DEF Has
<1>6. \A s \in Slot : Holds(l, r, f, s) => SameFile(s) /\ dinode'[inode[s].number] = dinode[inode[s].number]
  <2> SUFFICES ASSUME NEW s \in Slot, Holds(l, r, f, s)
               PROVE  SameFile(s) /\ dinode'[inode[s].number] = dinode[inode[s].number]
    OBVIOUS
  <2>1. inode[s].number # 0
    BY <1>5, HeldElse DEF Within
  <2> QED BY <1>5, <2>1, NumberIs, HeldSame
<1>7. f.dp # 0 => \A n \in Name : dir'[n] = dir[n]
  <2>1. f.dp # 0 => Holds(l, r, f, 1)
    BY <1>4 DEF Rooted, Holds
  <2> QED BY <1>5, <2>1, SameDir
<1>8. Searched(l, r, f)'
  <2>1. f.dp # 0 /\ f.flag # 2 /\ l \notin {"search", "unlink3"} => dir'[f.name] = 0
    BY <1>3, <1>4, <1>7, At_Dir DEF Searched
  <2>2. Deletes(l, r, f) => f.ino # 0 /\ dir'[f.name] = f.ino
    BY <1>3, <1>4, <1>7, At_Deletes DEF Searched
  <2>3. Locates(l, f) => inode'[f.cur].number = f.ino
    BY <1>3, <1>4, <1>6, At_Cur DEF Searched, SameFile
  <2>4. l = "uentry" => inode'[f.ip].number = dir'[f.name]
    <3> SUFFICES ASSUME l = "uentry" PROVE inode'[f.ip].number = dir'[f.name]
      OBVIOUS
    <3>1. f.dp \in Slot /\ f.ip \in Slot /\ f.to = "none" /\ f.name \in Name
      BY <1>3, At_Made
    <3>2. SameFile(f.ip)
      BY <1>6, <3>1 DEF Holds
    <3> QED BY <1>4, <1>7, <3>1, <3>2, OneSlots DEF Searched, SameFile
  <2> QED BY <2>1, <2>2, <2>3, <2>4 DEF Searched, Deletes, Locates
<1>9. Made(l, r, f)'
  <2>1. ASSUME Makes(l, r)
        PROVE  /\ \A n \in Name : dir'[n] = dir[n]
               /\ SameFile(f.ip) /\ dinode'[inode[f.ip].number] = dinode[inode[f.ip].number]
    <3>1. f.dp \in Slot /\ f.ip \in Slot /\ f.to = "none"
      BY <1>3, <2>1, At_Made
    <3> QED BY <1>6, <1>7, <3>1, OneSlots DEF Holds
  <2>2. l = "maknode" /\ f.cur # 0 => inode'[f.cur].mode = "none"
    <3> SUFFICES ASSUME l = "maknode", f.cur # 0 PROVE inode'[f.cur].mode = "none"
      OBVIOUS
    <3>1. SameFile(f.cur)
      BY <1>3, <1>6, At_Cur
    <3> QED BY <1>4, <3>1 DEF Made, SameFile
  <2>3. l \in {"wdir", "wentry"} => Makes(l, r)
    BY DEF Makes
  <2> QED BY <1>4, <2>1, <2>2, <2>3 DEF Made, Named, SameFile, Makes
<1>10. Ended(l, r, f)'
  <2> SUFFICES ASSUME Last(l, r) PROVE Ended(l, r, f)'
    BY DEF Ended, Last
  <2>1. SameFile(f.cur)
    BY <1>3, <1>6, At_Cur
  <2> QED BY <1>4, <2>1 DEF Ended, SameFile
<1>11. Rooted(l, r, f)'
  BY <1>4 DEF Rooted, Failed
<1> QED BY <1>2, <1>8, <1>9, <1>10, <1>11 DEF Relies

(* Who reads an inode or makes a file of it has it locked.                 *)
LEMMA ReadHeld ==
  Base => \A q \in Proc, s \in Slot : /\ pc[q] = "iread" /\ u[q].cur = s => Has(q, s)
                                      /\ Makes(pc[q], ret[q]) /\ u[q].ip = s => Has(q, s)
<1> SUFFICES ASSUME Base, NEW q \in Proc, NEW s \in Slot
             PROVE  /\ pc[q] = "iread" /\ u[q].cur = s => Has(q, s)
                    /\ Makes(pc[q], ret[q]) /\ u[q].ip = s => Has(q, s)
  OBVIOUS
<1>1. Config(pc[q], ret[q], u[q]) /\ u[q] \in Frame
  BY DEF Base, Facts, Controlled, TypeOK
<1>2. pc[q] = "iread" => Has(q, u[q].cur)
  BY <1>1, At_Cur DEF Locates, Has
<1>3. Makes(pc[q], ret[q]) => Has(q, u[q].ip)
  BY <1>1, At_Made DEF Has, Holds
<1> QED BY <1>2, <1>3

LEMMA ReadHeldNext ==
  Base' => \A q \in Proc, s \in Slot : /\ pc'[q] = "iread" /\ u'[q].cur = s => Has(q, s)'
                                       /\ Makes(pc'[q], ret'[q]) /\ u'[q].ip = s => Has(q, s)'
<1>1. (Base => \A q \in Proc, s \in Slot : /\ pc[q] = "iread" /\ u[q].cur = s => Has(q, s)
                                           /\ Makes(pc[q], ret[q]) /\ u[q].ip = s => Has(q, s))'
  BY ReadHeld, PTL
<1> QED BY <1>1

LEMMA OthersRead ==
  ASSUME Base, Base', NEW p \in Proc, Within(p), NEW s \in Slot, ~Mind(p, s)
  PROVE  (Reading(s)' <=> Reading(s)) /\ (Making(s)' <=> Making(s))
<1>1. ~(pc[p] = "iread" /\ u[p].cur = s) /\ ~(Makes(pc[p], ret[p]) /\ u[p].ip = s)
  BY ReadHeld DEF Mind
<1>2. ~(pc'[p] = "iread" /\ u'[p].cur = s) /\ ~(Makes(pc'[p], ret'[p]) /\ u'[p].ip = s)
  BY ReadHeldNext DEF Mind
<1>3. \A q \in Proc \ {p} : pc'[q] = pc[q] /\ ret'[q] = ret[q] /\ u'[q] = u[q]
  BY DEF Within, Alone
<1>4. Reading(s)' <=> \E q \in Proc : pc'[q] = "iread" /\ u'[q].cur = s
  BY DEF Reading
<1>5. Making(s)' <=> \E q \in Proc : Makes(pc'[q], ret'[q]) /\ u'[q].ip = s
  BY DEF Making, Makes
<1>6. Reading(s)' <=> Reading(s)
  BY <1>1, <1>2, <1>3, <1>4 DEF Reading
<1>7. Making(s)' <=> Making(s)
  <2>1. ASSUME Making(s) PROVE Making(s)'
    <3>1. PICK q \in Proc : Makes(pc[q], ret[q]) /\ u[q].ip = s
      BY <2>1 DEF Making
    <3> QED BY <1>1, <1>3, <1>5, <3>1
  <2>2. ASSUME Making(s)' PROVE Making(s)
    <3>1. PICK q \in Proc : Makes(pc'[q], ret'[q]) /\ u'[q].ip = s
      BY <1>5, <2>2
    <3>2. q # p
      BY <1>2, <3>1
    <3> QED BY <1>3, <3>1, <3>2 DEF Making
  <2> QED BY <2>1, <2>2
<1> QED BY <1>6, <1>7

(* The entries of a file p has nothing to do with stay.                    *)
LEMMA OthersNamed ==
  ASSUME Base, Base', NEW p \in Proc, Within(p), NEW i, i # 0,
         \A t \in Slot : Has(p, t) => inode[t].number # i
  PROVE  Named(i)' <=> Named(i)
<1>1. ASSUME NEW n \in Name PROVE dir'[n] = i <=> dir[n] = i
  <2>1. CASE dir'[n] = dir[n]
    BY <2>1
  <2>2. CASE \E s \in Slot : Has(p, s) /\ {dir[n], dir'[n]} = {0, inode[s].number}
    <3>1. PICK s \in Slot : Has(p, s) /\ {dir[n], dir'[n]} = {0, inode[s].number}
      BY <2>2
    <3>2. dir[n] \in {0, inode[s].number} /\ dir'[n] \in {0, inode[s].number}
      BY <3>1
    <3> QED BY <3>1, <3>2
  <2> QED BY <2>1, <2>2 DEF Within
<1> QED BY <1>1 DEF Named

LEMMA OthersKept ==
  ASSUME Base, Base', Filed, NEW p \in Proc, Within(p), NEW s \in Slot, ~Mind(p, s),
         inode'[s].number \notin {0, ROOTINO}, ~Reading(s)'
  PROVE  Kept(s)'
<1>1. SameFile(s)
  BY DEF Within
<1>2. inode[s].number \notin {0, ROOTINO} /\ inode[s].number \in Ino
  BY <1>1, NumberIs DEF SameFile
<1>3. Kept(s)
  BY <1>2, OthersRead DEF Filed, InTable
<1>4. \A t \in Slot : inode[t].number = inode[s].number => t = s
  BY <1>2 DEF Base, UniqueInode
<1>6. PICK i : i = inode[s].number
  OBVIOUS
<1>7. inode'[s].number = i
  BY <1>1, <1>6 DEF SameFile
<1>8. Named(i)' <=> Named(i)
  BY <1>2, <1>4, <1>6, OthersNamed DEF Mind
<1>9. dinode'[i] = dinode[i]
  BY <1>2, <1>4, <1>6 DEF Within, Mind
<1>10. Making(s)' <=> Making(s)
  BY OthersRead
<1>11. One(Named(inode[s].number) \/ Making(s))' = One(Named(i) \/ Making(s))
  BY <1>7, <1>8, <1>10 DEF One, Named
<1> QED BY <1>1, <1>3, <1>6, <1>7, <1>9, <1>11 DEF Kept, SameFile

LEMMA OthersStored ==
  ASSUME Base, Base', Filed, NEW p \in Proc, Within(p), NEW i \in Ino \ {ROOTINO},
         \A s \in Slot : inode'[s].number = i => Reading(s)',
         ~\E s \in Slot : Mind(p, s) /\ i \in {inode[s].number, inode'[s].number}
  PROVE  Stored(i)'
<1>1. ASSUME NEW s \in Slot, inode[s].number = i PROVE Reading(s)
  <2>1. ~Mind(p, s)
    BY <1>1
  <2>2. inode'[s].number = i
    BY <1>1, <2>1 DEF Within, SameFile
  <2> QED BY <2>1, <2>2, OthersRead
<1>2. Stored(i)
  BY <1>1 DEF Filed, OnDisk
<1>3. i # 0
  BY DEF Ino
<1>4. \A t \in Slot : Has(p, t) => inode[t].number # i
  BY DEF Mind
<1>5. Named(i)' <=> Named(i)
  BY <1>3, <1>4, OthersNamed
<1>6. dinode'[i] = dinode[i]
  BY <1>4 DEF Within
<1>7. One(Named(i))' = One(Named(i))
  BY <1>5 DEF One, Named
<1> QED BY <1>2, <1>5, <1>6, <1>7 DEF Stored

LEMMA FiledStep ==
  ASSUME Base, Base', Filed, NEW p \in Proc, Within(p), Shows(p)
  PROVE  Filed'
<1>1. Reliable'
  <2>1. ASSUME NEW q \in Proc PROVE Relies(pc[q], ret[q], u[q])'
    <3>1. CASE q = p
      BY <3>1 DEF Shows
    <3>2. CASE q # p
      BY <3>2, OthersRely
    <3> QED BY <3>1, <3>2
  <2> QED BY <2>1 DEF Reliable
<1>2. InTable'
  <2>1. ASSUME NEW s \in Slot, inode'[s].number \notin {0, ROOTINO}, ~Reading(s)' PROVE Kept(s)'
    <3>1. CASE Mind(p, s)
      BY <2>1, <3>1 DEF Shows
    <3>2. CASE ~Mind(p, s)
      BY <2>1, <3>2, OthersKept
    <3> QED BY <3>1, <3>2
  <2> QED BY <2>1 DEF InTable
<1>3. OnDisk'
  <2>1. ASSUME NEW i \in Ino \ {ROOTINO}, \A s \in Slot : inode'[s].number = i => Reading(s)' PROVE Stored(i)'
    <3>1. CASE \E s \in Slot : Mind(p, s) /\ i \in {inode[s].number, inode'[s].number}
      BY <2>1, <3>1 DEF Shows
    <3> QED BY <2>1, <3>1, OthersStored
  <2> QED BY <2>1 DEF OnDisk
<1> QED BY <1>1, <1>2, <1>3 DEF Filed, Shows

(* A step that writes neither the disk nor a file: it moves locks, counts  *)
(* and registers, and may mark what it holds as changed.                   *)
Calm(p) ==
  /\ dinode' = dinode /\ dir' = dir
  /\ \A s \in Slot : /\ inode'[s].number = inode[s].number /\ inode'[s].mode = inode[s].mode
                     /\ inode'[s].nlink = inode[s].nlink /\ (inode[s].dirty => inode'[s].dirty)
                     /\ inode'[s].dirty = inode[s].dirty \/ (Has(p, s) /\ pc'[p] # "idrop")
                     /\ inode'[s].count = 0 => inode[s].count = 0
Turns(p) ==
  /\ pc[p] # "iread" /\ pc'[p] # "iread"
  /\ Makes(pc'[p], ret'[p]) <=> Makes(pc[p], ret[p])
  /\ Makes(pc[p], ret[p]) => u'[p].ip = u[p].ip

LEMMA CalmRead ==
  ASSUME NEW p \in Proc, Alone(p), Turns(p), NEW s \in Slot
  PROVE  (Reading(s)' <=> Reading(s)) /\ (Making(s)' <=> Making(s))
<1>1. \A q \in Proc : pc'[q] = "iread" /\ u'[q].cur = s <=> pc[q] = "iread" /\ u[q].cur = s
  BY DEF Alone, Turns
<1>2. \A q \in Proc : Makes(pc'[q], ret'[q]) /\ u'[q].ip = s <=> Makes(pc[q], ret[q]) /\ u[q].ip = s
  <2> SUFFICES ASSUME NEW q \in Proc
               PROVE  Makes(pc'[q], ret'[q]) /\ u'[q].ip = s <=> Makes(pc[q], ret[q]) /\ u[q].ip = s
    OBVIOUS
  <2>1. CASE q = p
    BY <2>1 DEF Turns
  <2>2. CASE q # p
    BY <2>2 DEF Alone
  <2> QED BY <2>1, <2>2
<1>3. Making(s)' <=> \E q \in Proc : Makes(pc'[q], ret'[q]) /\ u'[q].ip = s
  BY DEF Making, Makes
<1>4. Making(s) <=> \E q \in Proc : Makes(pc[q], ret[q]) /\ u[q].ip = s
  BY DEF Making
<1>5. Making(s)' <=> Making(s)
  BY <1>2, <1>3, <1>4
<1> QED BY <1>1, <1>5 DEF Reading

LEMMA CalmRelies ==
  ASSUME Base, Base', NEW p \in Proc, Calm(p), Relies(pc'[p], ret'[p], u'[p])
  PROVE  Relies(pc[p], ret[p], u[p])'
<1>1. PICK l, r, f : l = pc'[p] /\ r = ret'[p] /\ f = u'[p]
  OBVIOUS
<1>2. Config(l, r, f) /\ f \in Frame
  BY <1>1 DEF Base, Facts, Controlled, TypeOK
<1>3. Rooted(l, r, f) /\ Searched(l, r, f) /\ Made(l, r, f) /\ Ended(l, r, f)
  BY <1>1 DEF Relies
<1>4. \A s \in Slot : /\ inode'[s].number = inode[s].number /\ inode'[s].mode = inode[s].mode
                      /\ inode'[s].nlink = inode[s].nlink /\ (l = "idrop" => inode'[s].dirty = inode[s].dirty)
  BY <1>1 DEF Calm
<1>5. Searched(l, r, f)'
  <2>1. Locates(l, f) => f.cur \in Slot
    BY <1>2, At_Cur
  <2>2. l = "uentry" => f.ip \in Slot
    BY <1>2, At_Made
  <2> QED BY <1>3, <1>4, <2>1, <2>2 DEF Searched, Calm, Deletes, Locates
<1>6. Made(l, r, f)'
  <2>1. Makes(l, r) => f.ip \in Slot
    BY <1>2, At_Made
  <2>2. l \in {"wdir", "wentry"} => Makes(l, r)
    BY DEF Makes
  <2>3. l = "maknode" /\ f.cur # 0 => f.cur \in Slot
    BY <1>2, At_Cur
  <2>4. \A i : Named(i)' <=> Named(i)
    BY DEF Calm, Named
  <2> HIDE DEF Makes
  <2>5. Makes(l, r)' <=> Makes(l, r)
    BY DEF Makes
  <2>6. Makes(l, r) => inode'[f.ip].number = inode[f.ip].number /\ inode'[f.ip].mode = inode[f.ip].mode
    BY <1>4, <2>1
  <2>7. dinode' = dinode
    BY DEF Calm
  <2>8. Named(inode[f.ip].number)' <=> Named(inode'[f.ip].number)
    BY <2>4 DEF Named, Calm
  <2> QED BY <1>3, <1>4, <2>2, <2>3, <2>5, <2>6, <2>7, <2>8 DEF Made
<1>7. Ended(l, r, f)'
  <2>1. Last(l, r) => f.cur \in Slot
    BY <1>2, At_Cur
  <2> QED BY <1>3, <1>4, <2>1 DEF Ended, Last
<1>8. Rooted(l, r, f)'
  BY <1>3 DEF Rooted, Failed
<1> QED BY <1>1, <1>5, <1>6, <1>7, <1>8 DEF Relies

LEMMA CalmStep ==
  ASSUME Base, Base', Filed, NEW p \in Proc, Alone(p), Calm(p), Turns(p), Relies(pc'[p], ret'[p], u'[p])
  PROVE  Filed'
<1>1. Relies(pc[p], ret[p], u[p])'
  BY CalmRelies
<1>2. Within(p)
  BY DEF Within, Calm, SameFile, Mind
<1>3. \A i : Named(i)' <=> Named(i)
  BY DEF Calm, Named
<1>4. ASSUME NEW s \in Slot, inode'[s].number \notin {0, ROOTINO}, ~Reading(s)' PROVE Kept(s)'
  <2>1. Kept(s)
    BY <1>4, CalmRead DEF Filed, InTable, Calm
  <2>2. Making(s)' <=> Making(s)
    BY CalmRead
  <2>3. One(Named(inode[s].number) \/ Making(s))' = One(Named(inode[s].number) \/ Making(s))
    BY <1>3, <2>2 DEF One, Named, Calm
  <2> QED BY <2>1, <2>3 DEF Kept, Calm
<1>5. ASSUME NEW i \in Ino \ {ROOTINO}, \A s \in Slot : inode'[s].number = i => Reading(s)' PROVE Stored(i)'
  <2>1. Stored(i)
    BY <1>5, CalmRead DEF Filed, OnDisk, Calm
  <2>2. One(Named(i))' = One(Named(i))
    BY <1>3 DEF One
  <2> QED BY <1>3, <2>1, <2>2 DEF Stored, Calm
<1>6. OneName' /\ EntryAllocated'
  BY DEF Filed, OneName, EntryAllocated, Calm
<1>7. Plainly'
  BY <1>3, OneSlots DEF Filed, Plainly, Calm
<1>8. Shows(p)
  BY <1>1, <1>4, <1>5, <1>6, <1>7 DEF Shows
<1> QED BY <1>2, <1>8, FiledStep

(* A step from l, r and f to m, t and g of a process that keeps what it    *)
(* relies on, as far as its registers go.                                  *)
Leads(l, r, f, m, t, g) ==
  /\ l # "iread" /\ m # "iread"
  /\ Makes(m, t) <=> Makes(l, r)
  /\ Makes(l, r) => g.ip = f.ip
  /\ Relies(m, t, g)

LEMMA HereRelies ==
  ASSUME Base, Filed, NEW p \in Proc, NEW l, At(p, l)
  PROVE  /\ pc[p] = l /\ Config(l, ret[p], u[p]) /\ Relies(l, ret[p], u[p])
         /\ ret[p] \in Seq(PC) /\ u[p] \in Frame /\ TypeOK
BY HereAt DEF Base, Facts, Filed, Reliable, At

LEMMA LeadsStep ==
  ASSUME Base, Base', Filed, NEW p \in Proc, NEW m, NEW t, NEW g, Enter(p, m, t), Set(p, g), Calm(p),
         Leads(pc[p], ret[p], u[p], m, t, g)
  PROVE  Filed'
<1>1. TypeOK
  BY DEF Base, Facts
<1>2. pc'[p] = m /\ ret'[p] = t /\ u'[p] = g /\ Alone(p)
  BY <1>1 DEF Enter, Set, TypeOK, Alone
<1> QED BY <1>2, CalmStep DEF Leads, Turns

LEMMA Quiet == ASSUME NEW p \in Proc, UNCHANGED <<inode, dinode, dir>> PROVE Calm(p)
BY DEF Calm

LEMMA GotoLeads ==
  ASSUME Base, Base', Filed, NEW p \in Proc, NEW l, NEW m, NEW g, At(p, l), Goto(p, m), Set(p, g),
         UNCHANGED <<inode, dinode, dir>>, Leads(l, ret[p], u[p], m, ret[p], g)
  PROVE  Filed'
BY HereRelies, LeadsStep, Quiet DEF Goto

LEMMA CallLeads ==
  ASSUME Base, Base', Filed, NEW p \in Proc, NEW l, NEW m, NEW x \in PC, NEW g, At(p, l), Call(p, m, x),
         Set(p, g), UNCHANGED <<inode, dinode, dir>>,
         \A t : Pushed(x, ret[p], t) => Leads(l, ret[p], u[p], m, t, g)
  PROVE  Filed'
<1>1. pc[p] = l /\ ret[p] \in Seq(PC)
  BY HereRelies
<1>2. Enter(p, m, <<x>> \o ret[p])
  BY DEF Call
<1> QED BY <1>1, <1>2, PushSeq, LeadsStep, Quiet

LEMMA ReturnLeads ==
  ASSUME Base, Base', Filed, NEW p \in Proc, NEW l, NEW g, At(p, l), Return(p), Set(p, g),
         UNCHANGED <<inode, dinode, dir>>, Leads(l, ret[p], u[p], Head(ret[p]), Tail(ret[p]), g)
  PROVE  Filed'
BY HereRelies, LeadsStep, Quiet DEF Return

-----------------------------------------------------------------------------
(* The steps that move registers only.                                     *)
LEMMA NameiFiled == ASSUME Base, Base', Filed, NEW p \in Proc, Namei(p) PROVE Filed'
<1> DEFINE r == ret[p]
           f == u[p]
           g == [u[p] EXCEPT !.ino = ROOTINO]
<1>1. At(p, "namei") /\ Set(p, g) /\ Call(p, "iget", "lookup") /\ UNCHANGED <<inode, dinode, dir>>
  BY DEF Namei, disk
<1>2. Config("namei", r, f) /\ Relies("namei", r, f) /\ f \in Frame
  BY <1>1, HereRelies
<1>3. g.dp = f.dp /\ g.flag = f.flag /\ g.name = f.name /\ g.err = f.err
  BY <1>2 DEF Frame
<1>4. f.dp = 0
  BY <1>2 DEF Config
<1> HIDE DEF f, r, g
<1>5. ASSUME NEW t, Pushed("lookup", r, t) PROVE Leads("namei", r, f, "iget", t, g)
  BY <1>2, <1>3, <1>4, <1>5, Short
     DEF Pushed, Leads, Makes, Relies, Rooted, Searched, Made, Ended, Failed, Deletes, Locates
<1>6. "lookup" \in PC
  BY DEF PC
<1> QED BY <1>1, <1>5, <1>6, CallLeads DEF f, r

LEMMA LookupFiled == ASSUME Base, Base', Filed, NEW p \in Proc, Lookup(p) PROVE Filed'
<1> DEFINE r == ret[p]
           f == u[p]
           g == [u[p] EXCEPT !.dp = u[p].cur, !.cur = 0]
<1>1. At(p, "lookup") /\ Set(p, g) /\ Goto(p, "search") /\ UNCHANGED <<inode, dinode, dir>>
  BY DEF Lookup, disk
<1>2. Config("lookup", r, f) /\ Relies("lookup", r, f) /\ f \in Frame
  BY <1>1, HereRelies
<1>3. g.dp = f.cur /\ g.err = f.err
  BY <1>2 DEF Frame
<1> HIDE DEF f, r, g
<1>4. Leads("lookup", r, f, "search", r, g)
  BY <1>2, <1>3 DEF Leads, Makes, Relies, Rooted, Searched, Made, Ended, Failed, Deletes, Locates
<1> QED BY <1>1, <1>4, GotoLeads DEF f, r

LEMMA ChildFiled == ASSUME Base, Base', Filed, NEW p \in Proc, Child(p) PROVE Filed'
<1> DEFINE r == ret[p]
           f == u[p]
<1>1. At(p, "child") /\ Set(p, f) /\ Goto(p, "iget") /\ UNCHANGED <<inode, dinode, dir>>
  BY Unset DEF Child, disk, Base, Facts
<1>2. Config("child", r, f) /\ Relies("child", r, f) /\ f \in Frame
  BY <1>1, HereRelies
<1> HIDE DEF f, r
<1>3. f.dp = 0 /\ r # <<"unlink2">>
  BY <1>2, Short DEF Config, NameiOf
<1>4. Leads("child", r, f, "iget", r, f)
  BY <1>2, <1>3 DEF Leads, Makes, Relies, Rooted, Searched, Made, Ended, Failed, Deletes, Locates
<1> QED BY <1>1, <1>4, GotoLeads DEF f, r

LEMMA SearchFiled == ASSUME Base, Base', Filed, NEW p \in Proc, Search(p) PROVE Filed'
<1> DEFINE r == ret[p]
           f == u[p]
           i == dir[u[p].name]
<1>1. At(p, "search") /\ UNCHANGED <<inode, dinode, dir>>
  BY DEF Search, disk
<1>2. Config("search", r, f) /\ Relies("search", r, f) /\ f \in Frame
  BY <1>1, HereRelies
<1>3. \/ i = 0 /\ f.flag = 1 /\ Return(p) /\ Set(p, f)
      \/ i = 0 /\ f.flag # 1 /\ Set(p, [f EXCEPT !.err = TRUE, !.cur = f.dp, !.dp = 0]) /\ Goto(p, "iput")
      \/ i # 0 /\ f.flag = 2 /\ Set(p, [f EXCEPT !.ino = i]) /\ Return(p)
      \/ i # 0 /\ f.flag # 2 /\ Set(p, [[f EXCEPT !.ino = i] EXCEPT !.cur = f.dp, !.dp = 0])
         /\ Call(p, "iput", "child")
  BY Unset DEF Search, Base, Facts
<1>4. i = dir[f.name]
  OBVIOUS
<1>5. "child" \in PC
  BY DEF PC
<1>6. At(p, "search") /\ r = ret[p] /\ f = u[p]
  BY <1>1
<1> HIDE DEF f, r, i
<1>7. NameiOf(r, f) /\ f.dp = 1 /\ f.cur = 0 /\ ~f.err
  BY <1>2, OneSlots DEF Config, Relies, Rooted, Failed
<1>8. r \in {<<"opened">>, <<"unlink1">>} /\ (f.flag = 1 => r = <<"opened">>) /\ (f.flag = 2 <=> r = <<"unlink1">>)
  BY <1>7 DEF NameiOf, Base
<1>9. CASE i = 0 /\ f.flag = 1 /\ Return(p) /\ Set(p, f)
  <2>1. Head(r) = "opened" /\ Tail(r) = <<>>
    BY <1>8, <1>9, Short
  <2>2. Leads("search", r, f, "opened", <<>>, f)
    BY <1>2, <1>4, <1>7, <1>9
       DEF Leads, Makes, Relies, Rooted, Searched, Made, Ended, Failed, Deletes, Locates
  <2> QED BY <1>1, <1>6, <1>9, <2>1, <2>2, ReturnLeads
<1>10. CASE i = 0 /\ f.flag # 1 /\ Set(p, [f EXCEPT !.err = TRUE, !.cur = f.dp, !.dp = 0]) /\ Goto(p, "iput")
  <2> DEFINE g == [f EXCEPT !.err = TRUE, !.cur = f.dp, !.dp = 0]
  <2>1. g.dp = 0
    BY <1>2 DEF Frame
  <2>2. r \in Ends
    BY <1>8 DEF Ends
  <2> HIDE DEF g
  <2>3. Leads("search", r, f, "iput", r, g)
    BY <2>1, <2>2 DEF Leads, Makes, Relies, Rooted, Searched, Made, Ended, Failed, Deletes, Locates
  <2> QED BY <1>1, <1>6, <1>10, <2>3, GotoLeads DEF g
<1>11. CASE i # 0 /\ f.flag = 2 /\ Set(p, [f EXCEPT !.ino = i]) /\ Return(p)
  <2> DEFINE g == [f EXCEPT !.ino = i]
  <2>1. g.dp = f.dp /\ g.err = f.err /\ g.ino = i /\ g.name = f.name /\ g.flag = f.flag
    BY <1>2 DEF Frame
  <2>2. Head(r) = "unlink1" /\ Tail(r) = <<>>
    BY <1>8, <1>11, Short
  <2> HIDE DEF g
  <2>3. Leads("search", r, f, "unlink1", <<>>, g)
    BY <1>2, <1>4, <1>7, <1>11, <2>1
       DEF Leads, Makes, Relies, Rooted, Searched, Made, Ended, Failed, Deletes, Locates
  <2> QED BY <1>1, <1>6, <1>11, <2>2, <2>3, ReturnLeads DEF g
<1>12. CASE /\ i # 0 /\ f.flag # 2 /\ Set(p, [[f EXCEPT !.ino = i] EXCEPT !.cur = f.dp, !.dp = 0])
            /\ Call(p, "iput", "child")
  <2> DEFINE g == [[f EXCEPT !.ino = i] EXCEPT !.cur = f.dp, !.dp = 0]
  <2>1. g.dp = 0 /\ g.err = f.err
    BY <1>2 DEF Frame
  <2> HIDE DEF g
  <2>2. ASSUME NEW t, Pushed("child", r, t) PROVE Leads("search", r, f, "iput", t, g)
    BY <1>7, <2>1 DEF Leads, Makes, Relies, Rooted, Searched, Made, Ended, Failed, Deletes, Locates
  <2> QED BY <1>1, <1>5, <1>6, <1>12, <2>2, CallLeads DEF g
<1> QED BY <1>3, <1>9, <1>10, <1>11, <1>12

(* ialloc() holds the directory of creat(), and changes none of that.      *)
LEMMA IallocErr ==
  ASSUME ByName, NEW l, NEW r, NEW f, Config(l, r, f), Relies(l, r, f),
         l \in {"ialloc", "ialloop", "iscan", "iscanned", "ialstale"}
  PROVE  f.dp = 1 /\ f.flag # 2 /\ ~f.err /\ dir[f.name] = 0 /\ r = <<"maknode">> /\ (l # "ialstale" => f.cur = 0)
<1>1. IallocOf(r, f) /\ (l # "ialstale" => f.cur = 0)
  BY DEF Config
<1> QED BY <1>1, OneSlots DEF IallocOf, Relies, Rooted, Searched, Failed

LEMMA IallocFiled == ASSUME Base, Base', Filed, NEW p \in Proc, Ialloc(p) PROVE Filed'
<1> DEFINE r == ret[p]
           f == u[p]
<1>1. At(p, "ialloc") /\ UNCHANGED <<inode, dinode, dir>> /\ Set(p, f)
  BY Unset DEF Ialloc, disk, Base, Facts
<1>2. Config("ialloc", r, f) /\ Relies("ialloc", r, f) /\ f \in Frame /\ pc[p] = "ialloc" /\ TypeOK
  BY <1>1, HereRelies
<1>3. At(p, "ialloc") /\ r = ret[p] /\ f = u[p]
  BY <1>1
<1> HIDE DEF f, r
<1>4. CASE Goto(p, "ialloop")
  <2>1. Leads("ialloc", r, f, "ialloop", r, f)
    BY <1>2, IallocErr, BaseByName DEF Leads, Makes, Relies, Rooted, Searched, Made, Ended, Failed, Deletes, Locates
  <2> QED BY <1>1, <1>3, <1>4, <2>1, GotoLeads
<1>5. CASE UNCHANGED <<pc, ret, u>>
  <2>1. Alone(p) /\ Calm(p) /\ Turns(p)
    BY <1>1, <1>2, <1>5, Quiet DEF Alone, Turns, Makes
  <2> QED BY <1>2, <1>3, <1>5, <2>1, CalmStep
<1> QED BY <1>4, <1>5 DEF Ialloc, Sleep

LEMMA IallocTakeFiled == ASSUME Base, Base', Filed, NEW p \in Proc, IallocTake(p) PROVE Filed'
<1> DEFINE r == ret[p]
           f == u[p]
           g == [u[p] EXCEPT !.ino = super.list[super.n - 1]]
<1>1. At(p, "ialloop") /\ Set(p, g) /\ Call(p, "iget", "ialgot") /\ UNCHANGED <<inode, dinode, dir>>
  BY DEF IallocTake, disk
<1>2. Config("ialloop", r, f) /\ Relies("ialloop", r, f) /\ f \in Frame
  BY <1>1, HereRelies
<1>3. g.dp = f.dp /\ g.flag = f.flag /\ g.name = f.name /\ g.err = f.err
  BY <1>2 DEF Frame
<1> HIDE DEF f, r, g
<1>4. ASSUME NEW t, Pushed("ialgot", r, t) PROVE Leads("ialloop", r, f, "iget", t, g)
  BY <1>2, <1>3, <1>4, Short, IallocErr, BaseByName
     DEF Pushed, Leads, Makes, Relies, Rooted, Searched, Made, Ended, Failed, Deletes, Locates
<1>5. "ialgot" \in PC
  BY DEF PC
<1> QED BY <1>1, <1>4, <1>5, CallLeads DEF f, r

LEMMA IallocStaleFiled == ASSUME Base, Base', Filed, NEW p \in Proc, IallocStale(p) PROVE Filed'
<1> DEFINE r == ret[p]
           f == u[p]
<1>1. At(p, "ialstale") /\ Set(p, f) /\ Call(p, "iput", "ialloop") /\ UNCHANGED <<inode, dinode, dir>>
  BY Unset DEF IallocStale, disk, Base, Facts
<1>2. Config("ialstale", r, f) /\ Relies("ialstale", r, f) /\ f \in Frame
  BY <1>1, HereRelies
<1> HIDE DEF f, r
<1>3. ASSUME NEW t, Pushed("ialloop", r, t) PROVE Leads("ialstale", r, f, "iput", t, f)
  BY <1>2, IallocErr, BaseByName DEF Leads, Makes, Relies, Rooted, Searched, Made, Ended, Failed, Deletes, Locates
<1>4. "ialloop" \in PC
  BY DEF PC
<1> QED BY <1>1, <1>3, <1>4, CallLeads DEF f, r

LEMMA IallocSearchFiled == ASSUME Base, Base', Filed, NEW p \in Proc, IallocSearch(p) PROVE Filed'
<1> DEFINE r == ret[p]
           f == u[p]
           i == FirstOfBlock(super.list[0])
           g == [u[p] EXCEPT !.scan = i]
           m == IF i \in Ino THEN "iscan" ELSE "iscanned"
<1>1. At(p, "ialloop") /\ Set(p, g) /\ Goto(p, m) /\ UNCHANGED <<inode, dinode, dir>>
  BY DEF IallocSearch, disk
<1>2. Config("ialloop", r, f) /\ Relies("ialloop", r, f) /\ f \in Frame
  BY <1>1, HereRelies
<1>3. g.dp = f.dp /\ g.flag = f.flag /\ g.name = f.name /\ g.err = f.err
  BY <1>2 DEF Frame
<1>4. m \in {"iscan", "iscanned"}
  OBVIOUS
<1> HIDE DEF f, r, g, m
<1>5. Leads("ialloop", r, f, m, r, g)
  BY <1>2, <1>3, <1>4, IallocErr, BaseByName DEF Leads, Makes, Relies, Rooted, Searched, Made, Ended, Failed, Deletes, Locates
<1> QED BY <1>1, <1>5, GotoLeads DEF f, r

LEMMA NoFaults == ASSUME Base, MaxFaults = 0, NEW fails \in BOOLEAN, Bread(fails) PROVE ~fails
BY DEF Base, Facts, TypeOK, Bread

LEMMA IscanFiled == ASSUME Base, Base', Filed, MaxFaults = 0, NEW p \in Proc, Iscan(p) PROVE Filed'
<1> DEFINE r == ret[p]
           f == u[p]
<1>1. At(p, "iscan") /\ UNCHANGED <<inode, dinode, dir>>
  BY DEF Iscan
<1>2. Config("iscan", r, f) /\ Relies("iscan", r, f) /\ f \in Frame
  BY <1>1, HereRelies
<1>3. PICK fails \in BOOLEAN, m \in {"iscan", "iscanned"} :
        Bread(fails) /\ Goto(p, m) /\ Set(p, [f EXCEPT !.scan = f.scan + INOPB, !.err = fails \/ f.err])
  BY DEF Iscan
<1>4. ~fails
  BY <1>3, NoFaults
<1> DEFINE g == [f EXCEPT !.scan = f.scan + INOPB, !.err = fails \/ f.err]
<1>5. g.dp = f.dp /\ g.flag = f.flag /\ g.name = f.name /\ (g.err = (fails \/ f.err))
  BY <1>2 DEF Frame
<1>6. Goto(p, m) /\ Set(p, g)
  BY <1>3
<1> HIDE DEF f, r, g
<1>7. Leads("iscan", r, f, m, r, g)
  BY <1>2, <1>4, <1>5, IallocErr, BaseByName DEF Leads, Makes, Relies, Rooted, Searched, Made, Ended, Failed, Deletes, Locates
<1> QED BY <1>1, <1>6, <1>7, GotoLeads DEF f, r

LEMMA IscanEndFiled == ASSUME Base, Base', Filed, NEW p \in Proc, IscanEnd(p) PROVE Filed'
<1> DEFINE r == ret[p]
           f == u[p]
           g == [u[p] EXCEPT !.cur = 0, !.err = TRUE]
<1>1. At(p, "iscanned") /\ UNCHANGED <<inode, dinode, dir>>
      /\ ((Goto(p, "ialloop") /\ Set(p, f)) \/ (Set(p, g) /\ Return(p)))
  BY Unset DEF IscanEnd, disk, Base, Facts
<1>2. Config("iscanned", r, f) /\ Relies("iscanned", r, f) /\ f \in Frame
  BY <1>1, HereRelies
<1>3. g.dp = f.dp /\ g.flag = f.flag /\ g.name = f.name /\ g.cur = 0
  BY <1>2, OneSlots DEF Frame
<1> HIDE DEF f, r, g
<1>4. CASE Goto(p, "ialloop") /\ Set(p, f)
  <2>1. Leads("iscanned", r, f, "ialloop", r, f)
    BY <1>2, IallocErr, BaseByName DEF Leads, Makes, Relies, Rooted, Searched, Made, Ended, Failed, Deletes, Locates
  <2> QED BY <1>1, <1>4, <2>1, GotoLeads DEF f, r
<1>5. CASE Set(p, g) /\ Return(p)
  <2>1. r = <<"maknode">>
    BY <1>2, IallocErr, BaseByName
  <2>2. Head(r) = "maknode" /\ Tail(r) = <<>>
    BY <2>1, Short
  <2>3. Leads("iscanned", r, f, "maknode", <<>>, g)
    BY <1>2, <1>3, IallocErr, BaseByName DEF Leads, Makes, Relies, Rooted, Searched, Made, Ended, Failed, Deletes, Locates
  <2> QED BY <1>1, <1>5, <2>2, <2>3, ReturnLeads DEF f, r
<1> QED BY <1>1, <1>4, <1>5

(* A call of iput(), and a label at which nothing is relied on.            *)
LEMMA PutLeads ==
  ASSUME NEW l, NEW r, NEW f, NEW t, NEW g, l # "iread", ~Makes(l, r), g.dp = 0, g.err => t \in Ends
  PROVE  Leads(l, r, f, "iput", t, g)
BY DEF Leads, Makes, Relies, Rooted, Searched, Made, Ended, Failed, Deletes, Locates

LEMMA FreeLeads ==
  ASSUME NEW l, NEW r, NEW f, NEW m, NEW t, NEW g, l # "iread", ~Makes(l, r), g.dp = 0, ~g.err \/ m = "end",
         m \in {"namei", "plock", "update", "end", "idle", "close1", "rdwr1", "rdwr", "grant", "granted", "trunc", "child"}
  PROVE  Leads(l, r, f, m, t, g)
BY DEF Leads, Makes, Relies, Rooted, Searched, Made, Ended, Failed, Deletes, Locates

LEMMA EndPushed == ASSUME NEW t, NEW x, Pushed(x, <<>>, t) PROVE t = <<x>>
BY DEF Pushed

LEMMA IgetFullFiled == ASSUME Base, Base', Filed, NEW p \in Proc, IgetFull(p) PROVE Filed'
<1> DEFINE r == ret[p]
           f == u[p]
           g == [u[p] EXCEPT !.cur = 0, !.err = TRUE]
<1>1. At(p, "iget") /\ Set(p, g) /\ Return(p) /\ UNCHANGED <<inode, dinode, dir>> /\ Holding(f.ino) = {}
  BY DEF IgetFull, disk
<1>2. Config("iget", r, f) /\ Relies("iget", r, f) /\ f \in Frame
  BY <1>1, HereRelies
<1>3. g.dp = f.dp /\ g.flag = f.flag /\ g.name = f.name /\ g.cur = 0
  BY <1>2, OneSlots DEF Frame
<1>4. f.ino # ROOTINO
  BY <1>1, OneSlots DEF Holding, Base, Facts, RootKept
<1> HIDE DEF f, r, g
<1>5. IgetOf(r, f)
  BY <1>2 DEF Config
<1>6. \/ Head(r) = "ialgot" \/ r = <<"unlink2">>
      \/ r = <<"opened">> /\ f.dp = 0
  BY <1>4, <1>5 DEF IgetOf, NameiOf, Base
<1>7. Head(r) \in {"ialgot", "unlink2", "opened"} /\ (Head(r) = "opened" => f.dp = 0)
  BY <1>6, Short
<1>8. Leads("iget", r, f, Head(r), Tail(r), g)
  BY <1>2, <1>3, <1>7 DEF Leads, Makes, Relies, Rooted, Searched, Made, Ended, Failed, Deletes, Locates
<1> QED BY <1>1, <1>8, ReturnLeads DEF f, r

LEMMA OpenedFiled == ASSUME Base, Base', Filed, NEW p \in Proc, Opened(p) PROVE Filed'
<1> DEFINE r == ret[p]
           f == u[p]
           g == [u[p] EXCEPT !.ip = u[p].cur, !.cur = 0]
<1>1. At(p, "opened") /\ UNCHANGED <<inode, dinode, dir>>
  BY DEF Opened, disk
<1>2. \/ f.cur = 0 /\ f.dp = 0 /\ Goto(p, "end") /\ Set(p, f)
      \/ f.cur = 0 /\ f.dp # 0 /\ Call(p, "ialloc", "maknode") /\ Set(p, f)
      \/ f.cur # 0 /\ Set(p, g) /\ Goto(p, "grant")
  BY Unset DEF Opened, Base, Facts
<1>3. Config("opened", r, f) /\ Relies("opened", r, f) /\ f \in Frame
  BY <1>1, HereRelies
<1>4. g.dp = f.dp /\ g.err = f.err
  BY <1>3 DEF Frame
<1>5. "maknode" \in PC
  BY DEF PC
<1> HIDE DEF f, r, g
<1>6. f.flag # 2 /\ (f.cur = 0 \/ f.dp = 0) /\ (f.err => f.cur = 0 /\ f.dp = 0) /\ f.dp \in {0, 1}
  BY <1>3 DEF Config, Relies, Rooted, Failed
<1>7. CASE f.cur = 0 /\ f.dp = 0 /\ Goto(p, "end") /\ Set(p, f)
  <2>1. Leads("opened", r, f, "end", r, f)
    BY <1>7, FreeLeads DEF Makes
  <2> QED BY <1>1, <1>7, <2>1, GotoLeads DEF f, r
<1>8. CASE f.cur = 0 /\ f.dp # 0 /\ Call(p, "ialloc", "maknode") /\ Set(p, f)
  <2>1. ASSUME NEW t, Pushed("maknode", r, t) PROVE Leads("opened", r, f, "ialloc", t, f)
    BY <1>3, <1>6, <1>8 DEF Leads, Makes, Relies, Rooted, Searched, Made, Ended, Failed, Deletes, Locates
  <2> QED BY <1>1, <1>5, <1>8, <2>1, CallLeads DEF f, r
<1>9. CASE f.cur # 0 /\ Set(p, g) /\ Goto(p, "grant")
  <2>1. Leads("opened", r, f, "grant", r, g)
    BY <1>4, <1>6, <1>9, FreeLeads DEF Makes
  <2> QED BY <1>1, <1>9, <2>1, GotoLeads DEF f, r
<1> QED BY <1>2, <1>7, <1>8, <1>9

LEMMA GrantErr ==
  ASSUME NEW l, NEW r, NEW f, Config(l, r, f), Relies(l, r, f),
         l \in {"grant", "granted", "trunc", "close1", "rdwr1", "rdwr", "plock", "update", "update1"}
  PROVE  f.dp = 0 /\ ~f.err
BY DEF Config, Relies, Rooted, Failed

LEMMA TruncFiled == ASSUME Base, Base', Filed, NEW p \in Proc, Trunc(p) PROVE Filed'
<1> DEFINE r == ret[p]
           f == u[p]
<1>1. At(p, "grant") /\ Set(p, f) /\ Goto(p, "trunc") /\ UNCHANGED <<inode, dinode, dir>>
  BY Unset DEF Trunc, disk, Base, Facts
<1>2. Config("grant", r, f) /\ Relies("grant", r, f)
  BY <1>1, HereRelies
<1> HIDE DEF f, r
<1>3. Leads("grant", r, f, "trunc", r, f)
  BY <1>2, GrantErr, FreeLeads DEF Makes
<1> QED BY <1>1, <1>3, GotoLeads DEF f, r

LEMMA DenyFiled == ASSUME Base, Base', Filed, NEW p \in Proc, Deny(p) PROVE Filed'
<1> DEFINE r == ret[p]
           f == u[p]
           g == [[u[p] EXCEPT !.ip = 0] EXCEPT !.cur = u[p].ip]
<1>1. At(p, "grant") /\ Set(p, g) /\ Call(p, "iput", "end") /\ UNCHANGED <<inode, dinode, dir>>
  BY DEF Deny, DropIp, Drop, disk
<1>2. Config("grant", r, f) /\ Relies("grant", r, f) /\ f \in Frame
  BY <1>1, HereRelies
<1>3. g.dp = f.dp /\ g.err = f.err
  BY <1>2 DEF Frame
<1> HIDE DEF f, r, g
<1>4. ASSUME NEW t, Pushed("end", r, t) PROVE Leads("grant", r, f, "iput", t, g)
  BY <1>2, <1>3, GrantErr, PutLeads DEF Makes
<1>5. "end" \in PC
  BY DEF PC
<1> QED BY <1>1, <1>4, <1>5, CallLeads DEF f, r

LEMMA WdirFiled == ASSUME Base, Base', Filed, NEW p \in Proc, Wdir(p) PROVE Filed'
<1> DEFINE r == ret[p]
           f == u[p]
           g == [u[p] EXCEPT !.cur = 0]
<1>1. At(p, "wdir") /\ UNCHANGED <<inode, dinode, dir>>
  BY DEF Wdir, disk
<1>2. Config("wdir", r, f) /\ Relies("wdir", r, f) /\ f \in Frame
  BY <1>1, HereRelies
<1>3. ~f.err
  BY <1>2 DEF Relies, Rooted, Failed
<1>4. Set(p, g) /\ Goto(p, "wentry")
  BY <1>3 DEF Wdir
<1>5. g.dp = f.dp /\ g.err = f.err /\ g.ip = f.ip /\ g.flag = f.flag /\ g.name = f.name
  BY <1>2 DEF Frame
<1> HIDE DEF f, r, g
<1>6. Leads("wdir", r, f, "wentry", r, g)
  BY <1>2, <1>3, <1>5 DEF Leads, Makes, Relies, Rooted, Searched, Made, Ended, Failed, Deletes, Locates
<1> QED BY <1>1, <1>4, <1>6, GotoLeads DEF f, r

LEMMA Unlink1Filed == ASSUME Base, Base', Filed, NEW p \in Proc, Unlink1(p) PROVE Filed'
<1> DEFINE r == ret[p]
           f == u[p]
<1>1. At(p, "unlink1") /\ Set(p, f) /\ UNCHANGED <<inode, dinode, dir>>
      /\ IF f.dp = 0 THEN Goto(p, "end") ELSE Call(p, "iget", "unlink2")
  BY Unset DEF Unlink1, disk, Base, Facts
<1>2. Config("unlink1", r, f) /\ Relies("unlink1", r, f)
  BY <1>1, HereRelies
<1> HIDE DEF f, r
<1>3. r = <<>>
  BY <1>2 DEF Config
<1>4. CASE f.dp = 0
  <2>1. Leads("unlink1", r, f, "end", r, f)
    BY <1>4, FreeLeads DEF Makes
  <2> QED BY <1>1, <1>4, <2>1, GotoLeads DEF f, r
<1>5. CASE f.dp # 0
  <2>1. ASSUME NEW t, Pushed("unlink2", r, t) PROVE Leads("unlink1", r, f, "iget", t, f)
    BY <1>2, <1>5 DEF Leads, Makes, Relies, Rooted, Searched, Made, Ended, Failed, Deletes, Locates
  <2>2. "unlink2" \in PC
    BY DEF PC
  <2> QED BY <1>1, <1>5, <2>1, <2>2, CallLeads DEF f, r
<1> QED BY <1>4, <1>5

LEMMA Unlink2Filed == ASSUME Base, Base', Filed, NEW p \in Proc, Unlink2(p) PROVE Filed'
<1> DEFINE r == ret[p]
           f == u[p]
           g == [u[p] EXCEPT !.ip = u[p].cur, !.cur = 0]
<1>1. At(p, "unlink2") /\ UNCHANGED <<inode, dinode, dir>>
      /\ \/ f.cur = 0 /\ Goto(p, "unlink3") /\ Set(p, f)
         \/ f.cur # 0 /\ Set(p, g) /\ Goto(p, "uentry")
  BY Unset DEF Unlink2, disk, Base, Facts
<1>2. Config("unlink2", r, f) /\ Relies("unlink2", r, f) /\ f \in Frame
  BY <1>1, HereRelies
<1>3. g.dp = f.dp /\ g.err = f.err /\ g.ip = f.cur /\ g.flag = f.flag /\ g.name = f.name
  BY <1>2, OneSlots DEF Frame
<1> HIDE DEF f, r, g
<1>4. CASE f.cur = 0 /\ Goto(p, "unlink3") /\ Set(p, f)
  <2>1. Leads("unlink2", r, f, "unlink3", r, f)
    BY <1>2 DEF Leads, Makes, Relies, Rooted, Searched, Made, Ended, Failed, Deletes, Locates
  <2> QED BY <1>1, <1>4, <2>1, GotoLeads DEF f, r
<1>5. CASE f.cur # 0 /\ Set(p, g) /\ Goto(p, "uentry")
  <2>1. Leads("unlink2", r, f, "uentry", r, g)
    BY <1>2, <1>3, <1>5 DEF Leads, Makes, Relies, Rooted, Searched, Made, Ended, Failed, Deletes, Locates
  <2> QED BY <1>1, <1>5, <2>1, GotoLeads DEF f, r
<1> QED BY <1>1, <1>4, <1>5

LEMMA UnlinkEndFiled == ASSUME Base, Base', Filed, NEW p \in Proc, UnlinkEnd(p) PROVE Filed'
<1> DEFINE r == ret[p]
           f == u[p]
           g == [[u[p] EXCEPT !.dp = 0] EXCEPT !.cur = u[p].dp]
<1>1. At(p, "unlink3") /\ Set(p, g) /\ Call(p, "iput", "end") /\ UNCHANGED <<inode, dinode, dir>>
  BY DEF UnlinkEnd, DropDp, Drop, disk
<1>2. Config("unlink3", r, f) /\ f \in Frame
  BY <1>1, HereRelies
<1>3. g.dp = 0
  BY <1>2 DEF Frame
<1> HIDE DEF f, r, g
<1>4. r = <<>>
  BY <1>2 DEF Config
<1>5. ASSUME NEW t, Pushed("end", r, t) PROVE Leads("unlink3", r, f, "iput", t, g)
  BY <1>3, <1>4, <1>5, EndPushed, PutLeads DEF Makes, Ends
<1>6. "end" \in PC
  BY DEF PC
<1> QED BY <1>1, <1>5, <1>6, CallLeads DEF f, r

LEMMA Close1Filed == ASSUME Base, Base', Filed, NEW p \in Proc, Close1(p) PROVE Filed'
<1> DEFINE r == ret[p]
           f == u[p]
<1>1. At(p, "close1") /\ Set(p, f) /\ Call(p, "iput", "end") /\ UNCHANGED <<inode, dinode, dir>>
  BY Unset DEF Close1, disk, Base, Facts
<1>2. Config("close1", r, f) /\ Relies("close1", r, f)
  BY <1>1, HereRelies
<1> HIDE DEF f, r
<1>3. ASSUME NEW t, Pushed("end", r, t) PROVE Leads("close1", r, f, "iput", t, f)
  BY <1>2, GrantErr, PutLeads DEF Makes
<1>4. "end" \in PC
  BY DEF PC
<1> QED BY <1>1, <1>3, <1>4, CallLeads DEF f, r

LEMMA Update1Filed == ASSUME Base, Base', Filed, NEW p \in Proc, Update1(p) PROVE Filed'
<1> DEFINE r == ret[p]
           f == u[p]
<1>1. At(p, "update1") /\ Set(p, f) /\ Call(p, "iput", "update") /\ UNCHANGED <<inode, dinode, dir>>
  BY Unset DEF Update1, disk, Base, Facts
<1>2. Config("update1", r, f) /\ Relies("update1", r, f)
  BY <1>1, HereRelies
<1> HIDE DEF f, r
<1>3. ASSUME NEW t, Pushed("update", r, t) PROVE Leads("update1", r, f, "iput", t, f)
  BY <1>2, GrantErr, PutLeads DEF Makes
<1>4. "update" \in PC
  BY DEF PC
<1> QED BY <1>1, <1>3, <1>4, CallLeads DEF f, r

LEMMA Rdwr1Filed == ASSUME Base, Base', Filed, NEW p \in Proc, Rdwr1(p) PROVE Filed'
<1> DEFINE r == ret[p]
           f == u[p]
<1>1. At(p, "rdwr1") /\ Set(p, f) /\ Goto(p, "rdwr") /\ UNCHANGED <<inode, dinode, dir>>
  BY Unset DEF Rdwr1, disk, Base, Facts
<1>2. Config("rdwr1", r, f) /\ Relies("rdwr1", r, f)
  BY <1>1, HereRelies
<1> HIDE DEF f, r
<1>3. Leads("rdwr1", r, f, "rdwr", r, f)
  BY <1>2, GrantErr, FreeLeads DEF Makes
<1> QED BY <1>1, <1>3, GotoLeads DEF f, r

LEMMA EndFiled == ASSUME Base, Base', Filed, NEW p \in Proc, End(p) PROVE Filed'
<1>1. At(p, "end") /\ Set(p, NoCall) /\ Goto(p, "idle") /\ UNCHANGED <<inode, dinode, dir>>
  BY DEF End, disk
<1>2. NoCall.dp = 0 /\ ~NoCall.err
  BY DEF NoCall
<1>3. Leads("end", ret[p], u[p], "idle", ret[p], NoCall)
  BY <1>2, FreeLeads DEF Makes
<1> QED BY <1>1, <1>3, GotoLeads

(* A system call begins with registers that hold nothing.                  *)
LEMMA BeginFiled ==
  ASSUME Base, Base', Filed, NEW p \in Proc, NEW call, NEW g, NEW l \in {"namei", "plock", "update"}, NEW x \in PC,
         Begin(p, call, g, l, x), g.dp = 0, ~g.err
  PROVE  Filed'
<1>1. At(p, "idle") /\ Set(p, g) /\ Call(p, l, x) /\ UNCHANGED <<inode, dinode, dir>>
  BY DEF Begin, disk
<1>2. ASSUME NEW t, Pushed(x, ret[p], t) PROVE Leads("idle", ret[p], u[p], l, t, g)
  BY FreeLeads DEF Makes
<1> QED BY <1>1, <1>2, CallLeads

LEMMA EntersFiled == ASSUME Base, Base', Filed, NEW p \in Proc, Enters(p), ~Pipe(p) PROVE Filed'
<1> DEFINE Clean(g) == g.dp = 0 /\ ~g.err
<1>1. "opened" \in PC /\ "unlink1" \in PC /\ "close1" \in PC /\ "rdwr1" \in PC /\ "end" \in PC
  BY DEF PC
<1>2. \E call, g, l, x : Begin(p, call, g, l, x) /\ Clean(g) /\ l \in {"namei", "plock", "update"} /\ x \in PC
  <2>1. CASE Open(p)
    <3>1. PICK n \in Name : Begin(p, "open", [NoCall EXCEPT !.name = n], "namei", "opened")
      BY <2>1 DEF Open
    <3>2. Clean([NoCall EXCEPT !.name = n])
      BY DEF NoCall
    <3> QED BY <1>1, <3>1, <3>2
  <2>2. CASE Creat(p)
    <3>1. PICK n \in Name : Begin(p, "creat", [NoCall EXCEPT !.name = n, !.flag = 1], "namei", "opened")
      BY <2>2 DEF Creat
    <3>2. Clean([NoCall EXCEPT !.name = n, !.flag = 1])
      BY DEF NoCall
    <3> QED BY <1>1, <3>1, <3>2
  <2>3. CASE Link(p)
    BY <2>3 DEF Link, Begin, Base
  <2>4. CASE Unlink(p)
    <3>1. PICK n \in Name : Begin(p, "unlink", [NoCall EXCEPT !.name = n, !.flag = 2], "namei", "unlink1")
      BY <2>4 DEF Unlink
    <3>2. Clean([NoCall EXCEPT !.name = n, !.flag = 2])
      BY DEF NoCall
    <3> QED BY <1>1, <3>1, <3>2
  <2>5. CASE Close(p)
    <3>1. PICK s \in Slot : Begin(p, "close", [NoCall EXCEPT !.cur = s], "plock", "close1")
      BY <2>5 DEF Close
    <3>2. Clean([NoCall EXCEPT !.cur = s])
      BY DEF NoCall
    <3> QED BY <1>1, <3>1, <3>2
  <2>6. CASE Rdwr(p)
    <3>1. PICK s \in Slot : Begin(p, "rdwr", [NoCall EXCEPT !.cur = s], "plock", "rdwr1")
      BY <2>6 DEF Rdwr
    <3>2. Clean([NoCall EXCEPT !.cur = s])
      BY DEF NoCall
    <3> QED BY <1>1, <3>1, <3>2
  <2>7. CASE Sync(p)
    <3>1. Begin(p, "sync", [NoCall EXCEPT !.scan = 1], "update", "end")
      BY <2>7 DEF Sync
    <3>2. Clean([NoCall EXCEPT !.scan = 1])
      BY DEF NoCall
    <3> QED BY <1>1, <3>1, <3>2
  <2> QED BY <2>1, <2>2, <2>3, <2>4, <2>5, <2>6, <2>7 DEF Enters
<1> QED BY <1>2, BeginFiled

-----------------------------------------------------------------------------
(* The steps that take or release an inode and leave its contents.         *)
SameWords(e, f) ==
  /\ f.number = e.number /\ f.mode = e.mode /\ f.nlink = e.nlink /\ f.dirty = e.dirty /\ (f.count = 0 => e.count = 0)

LEMMA CalmSlot ==
  ASSUME Base, NEW p \in Proc, NEW k \in Slot, NEW e, inode' = [inode EXCEPT ![k] = e], SameWords(inode[k], e),
         dinode' = dinode, dir' = dir
  PROVE  Calm(p)
<1>1. \A s \in Slot : SameWords(inode[s], inode'[s])
  BY DEF Base, Facts, TypeOK, SameWords
<1> QED BY <1>1 DEF Calm, SameWords

LEMMA WordsSame ==
  ASSUME NEW e \in Inode
  PROVE  /\ SameWords(e, [e EXCEPT !.want = TRUE]) /\ SameWords(e, [e EXCEPT !.lock = TRUE])
         /\ SameWords(e, Released(e))
         /\ e.count \in Nat => SameWords(e, [e EXCEPT !.count = e.count + 1, !.lock = TRUE])
         /\ e.count \in Nat /\ e.count # 1 => SameWords(e, [Released(e) EXCEPT !.count = e.count - 1])
<1>1. SameWords(e, [e EXCEPT !.want = TRUE]) /\ SameWords(e, [e EXCEPT !.lock = TRUE])
  BY DEF SameWords, Inode
<1>2. SameWords(e, Released(e))
  BY DEF SameWords, Inode, Released
<1>3. e.count \in Nat => SameWords(e, [e EXCEPT !.count = e.count + 1, !.lock = TRUE])
  BY DEF SameWords, Inode
<1>4. e.count \in Nat /\ e.count # 1 => SameWords(e, [Released(e) EXCEPT !.count = e.count - 1])
  BY DEF SameWords, Inode, Released
<1> QED BY <1>1, <1>2, <1>3, <1>4

LEMMA SlotWords ==
  ASSUME Base, NEW s \in Slot
  PROVE  inode[s] \in Inode /\ inode[s].count \in Nat
<1>1. TypeOK /\ RefCount
  BY DEF Base, Facts
<1>2. inode[s] \in Inode
  BY <1>1 DEF TypeOK
<1>3. ASSUME NEW q \in Proc PROVE inode[s].count \in Nat
  BY <1>1, Counts
<1>4. CASE Proc = {}
  <2>1. Total([q \in Proc |-> References(q, s)]) = 0
    BY <1>4, NoneCounted
  <2> QED BY <1>1, <1>2, <2>1, CountIs DEF One
<1> QED BY <1>2, <1>3, <1>4

(* A process that waits for a lock.                                        *)
LEMMA AwaitFiled ==
  ASSUME Base, Base', Filed, NEW p \in Proc, pc[p] # "iread", NEW s \in Slot, AwaitLock(p, s), UNCHANGED <<dinode, dir, u>>
  PROVE  Filed'
<1>1. inode[s] \in Inode /\ inode' = [inode EXCEPT ![s] = [inode[s] EXCEPT !.want = TRUE]]
  BY SlotWords DEF AwaitLock
<1>2. Calm(p)
  BY <1>1, WordsSame, CalmSlot
<1>3. UNCHANGED <<pc, ret, u>>
  BY DEF AwaitLock, Sleep
<1>4. Alone(p) /\ Turns(p)
  BY <1>3 DEF Alone, Turns, Makes
<1>5. Relies(pc[p], ret[p], u[p])
  BY DEF Filed, Reliable
<1> QED BY <1>2, <1>3, <1>4, <1>5, CalmStep

LEMMA IgetWaitFiled == ASSUME Base, Base', Filed, NEW p \in Proc, IgetWait(p) PROVE Filed'
<1>1. pc[p] # "iread"
  BY DEF IgetWait, At
<1>2. PICK s \in Slot : AwaitLock(p, s)
  BY DEF IgetWait, Holding
<1> QED BY <1>1, <1>2, AwaitFiled DEF IgetWait, disk

LEMMA PlockFiled == ASSUME Base, Base', Filed, NEW p \in Proc, Plock(p) PROVE Filed'
<1> DEFINE r == ret[p]
           f == u[p]
           s == u[p].cur
<1>1. At(p, "plock") /\ Set(p, f) /\ UNCHANGED <<dinode, dir, u>>
      /\ \/ AwaitLock(p, s)
         \/ inode' = [inode EXCEPT ![s].lock = TRUE] /\ Return(p)
  BY Unset DEF Plock, disk, Base, Facts
<1>2. Config("plock", r, f) /\ Relies("plock", r, f) /\ pc[p] = "plock"
  BY <1>1, HereRelies
<1>3. s \in Slot /\ r \in {<<"close1">>, <<"rdwr1">>}
  BY <1>2 DEF Config
<1>4. CASE AwaitLock(p, s)
  BY <1>1, <1>2, <1>3, <1>4, AwaitFiled
<1>5. CASE inode' = [inode EXCEPT ![s].lock = TRUE] /\ Return(p)
  <2>1. inode[s] \in Inode /\ inode' = [inode EXCEPT ![s] = [inode[s] EXCEPT !.lock = TRUE]]
    BY <1>3, <1>5, SlotWords
  <2>2. Calm(p)
    BY <1>1, <1>3, <2>1, WordsSame, CalmSlot
  <2>3. Head(r) \in {"close1", "rdwr1"}
    BY <1>3, Short
  <2>4. Leads("plock", r, f, Head(r), Tail(r), f)
    <3> HIDE DEF f, r
    <3> QED BY <1>2, <2>3, GrantErr, FreeLeads DEF Makes
  <2> QED BY <1>1, <1>2, <1>5, <2>2, <2>4, LeadsStep DEF Return
<1> QED BY <1>1, <1>4, <1>5

(* A file that is held, and is not being read.                             *)
LEMMA MineKept ==
  ASSUME Base, Filed, NEW p \in Proc, NEW s \in Slot, Has(p, s), pc[p] # "iread", inode[s].number # ROOTINO
  PROVE  Kept(s) /\ inode[s].number \in Ino
<1>1. inode[s].lock
  BY DEF Base, Locked
<1>2. inode[s].number # 0
  BY <1>1 DEF Base, Facts, LockUsed, Numbered
<1>3. ~Reading(s)
  <2>1. SUFFICES ASSUME NEW q \in Proc, pc[q] = "iread", u[q].cur = s PROVE FALSE
    BY DEF Reading
  <2>2. Has(q, s)
    BY <2>1, ReadHeld
  <2> QED BY <2>1, <2>2 DEF Base, Locked
<1> QED BY <1>2, <1>3, NumberIs DEF Filed, InTable

LEMMA RootSlot == ASSUME Base, NEW s \in Slot, inode[s].number = ROOTINO PROVE s = 1
<1>1. inode[1].number = ROOTINO /\ ROOTINO # 0
  BY DEF Base, Facts, RootKept, ROOTINO
<1> QED BY <1>1, OneSlots DEF Base, UniqueInode

(* What iput() returns to relies on the directory alone.                   *)
LEMMA PutReturns ==
  ASSUME NEW l \in {"iput", "idrop"}, NEW r, NEW f, NEW g, IputOf(r, f), "link" \notin Calls, Relies(l, r, f),
         g.cur = 0, g.dp = f.dp, g.err = f.err, g.flag = f.flag, g.name = f.name
  PROVE  Leads(l, r, f, Head(r), Tail(r), g)
<1>1. f.dp \in {0, 1} /\ (f.err => r \in Ends) /\ (f.dp # 0 /\ f.flag # 2 => dir[f.name] = 0)
  BY DEF Relies, Rooted, Searched, Failed
<1>2. CASE NameiOf(r, f) /\ f.dp = 0
  <2>1. r = <<"opened">> \/ r = <<"unlink1">>
    BY <1>2 DEF NameiOf
  <2>2. Head(r) \in {"opened", "unlink1"}
    BY <2>1, Short
  <2> QED BY <1>1, <1>2, <2>2 DEF Leads, Makes, Relies, Rooted, Searched, Made, Ended, Failed, Deletes, Locates
<1>3. CASE Head(r) \in {"child", "ialgot", "ialloop", "update"} \/ r = <<"grant">>
  <2>1. r \notin Ends /\ Head(r) \in {"child", "ialgot", "ialloop", "update", "grant"}
    BY <1>3, Short DEF Ends
  <2> QED BY <1>1, <2>1 DEF Leads, Makes, Relies, Rooted, Searched, Made, Ended, Failed, Deletes, Locates
<1>4. CASE r \in {<<"unlink2">>, <<"unlink3">>, <<"end">>}
  <2>1. Head(r) \in {"unlink2", "unlink3", "end"}
    BY <1>4, Short
  <2> QED BY <1>1, <2>1 DEF Leads, Makes, Relies, Rooted, Searched, Made, Ended, Failed, Deletes, Locates
<1> QED BY <1>2, <1>3, <1>4 DEF IputOf

LEMMA IgetFoundFiled == ASSUME Base, Base', Filed, NEW p \in Proc, IgetFound(p) PROVE Filed'
<1> DEFINE r == ret[p]
           f == u[p]
<1>1. At(p, "iget") /\ Return(p) /\ UNCHANGED <<dinode, dir>>
  BY DEF IgetFound, disk
<1>2. PICK s \in Slot :
        /\ inode[s].number = f.ino /\ Set(p, [f EXCEPT !.cur = s])
        /\ inode' = [inode EXCEPT ![s] = [inode[s] EXCEPT !.count = inode[s].count + 1, !.lock = TRUE]]
  BY SlotWords DEF IgetFound, Holding, Base, Facts, TypeOK
<1>3. Config("iget", r, f) /\ Relies("iget", r, f) /\ f \in Frame /\ pc[p] = "iget"
  BY <1>1, HereRelies
<1> DEFINE g == [f EXCEPT !.cur = s]
<1>4. g.dp = f.dp /\ g.flag = f.flag /\ g.name = f.name /\ g.cur = s /\ g.err = f.err /\ g.ino = f.ino
  BY <1>3 DEF Frame
<1>5. Set(p, g) /\ Enter(p, Head(r), Tail(r))
  BY <1>1, <1>2 DEF Return
<1>6. f.ino = ROOTINO => s = 1
  BY <1>2, RootSlot
<1>7. Calm(p)
  BY <1>1, <1>2, SlotWords, WordsSame, CalmSlot
<1>8. pc[p] = "iget" /\ ret[p] = r /\ u[p] = f /\ inode[s].number = f.ino
  BY <1>2, <1>3
<1> HIDE DEF f, r, g
<1>9. IgetOf(r, f)
  BY <1>3 DEF Config
<1>10. \/ Head(r) = "lookup" /\ f.ino = ROOTINO
       \/ Head(r) = "ialgot"
       \/ r = <<"unlink2">>
       \/ r = <<"opened">> /\ f.dp = 0
  BY <1>9 DEF IgetOf, NameiOf, Base
<1>11. /\ Head(r) \in {"lookup", "ialgot", "unlink2", "opened"} /\ (Head(r) = "opened" => f.dp = 0)
       /\ Head(r) = "lookup" => s = 1
       /\ Head(r) = "unlink2" => r = <<"unlink2">>
  BY <1>6, <1>10, Short
<1>12. Leads("iget", r, f, Head(r), Tail(r), g)
  BY <1>3, <1>4, <1>8, <1>11 DEF Leads, Makes, Relies, Rooted, Searched, Made, Ended, Failed, Deletes, Locates
<1> QED BY <1>5, <1>7, <1>8, <1>12, LeadsStep

LEMMA IputSharedFiled == ASSUME Base, Base', Filed, NEW p \in Proc, IputShared(p) PROVE Filed'
<1> DEFINE r == ret[p]
           f == u[p]
           s == u[p].cur
           g == [u[p] EXCEPT !.cur = 0]
<1>1. At(p, "iput") /\ Enter(p, Head(r), Tail(r)) /\ Set(p, g) /\ UNCHANGED <<dinode, dir>> /\ inode[s].count # 1
      /\ inode' = [inode EXCEPT ![s] = [Released(@) EXCEPT !.count = inode[s].count - 1]]
  BY DEF IputShared, disk, Return
<1>2. Config("iput", r, f) /\ Relies("iput", r, f) /\ f \in Frame /\ pc[p] = "iput"
  BY <1>1, HereRelies
<1>3. g.dp = f.dp /\ g.flag = f.flag /\ g.name = f.name /\ g.cur = 0 /\ g.err = f.err
  BY <1>2, OneSlots DEF Frame
<1>4. s \in Slot /\ IputOf(r, f)
  BY <1>2 DEF Config
<1>5. inode' = [inode EXCEPT ![s] = [Released(inode[s]) EXCEPT !.count = inode[s].count - 1]]
  BY <1>1, <1>4 DEF Base, Facts, TypeOK
<1>6. Calm(p)
  <2>1. PICK e : e = [Released(inode[s]) EXCEPT !.count = inode[s].count - 1]
    OBVIOUS
  <2>2. inode[s] \in Inode /\ inode[s].count \in Nat
    BY <1>4, SlotWords
  <2>3. SameWords(inode[s], e)
    BY <1>1, <2>1, <2>2, WordsSame
  <2>4. inode' = [inode EXCEPT ![s] = e]
    BY <1>5, <2>1
  <2> HIDE DEF s, f, r, g
  <2> QED BY <1>1, <1>4, <2>3, <2>4, CalmSlot
<1>7. Leads("iput", r, f, Head(r), Tail(r), g)
  <2> HIDE DEF f, r, g
  <2> QED BY <1>2, <1>3, <1>4, PutReturns DEF Base
<1> QED BY <1>1, <1>2, <1>6, <1>7, LeadsStep

LEMMA IputLastFiled == ASSUME Base, Base', Filed, NEW p \in Proc, IputLast(p) PROVE Filed'
<1> DEFINE r == ret[p]
           f == u[p]
           s == u[p].cur
           e == inode[u[p].cur]
<1>1. At(p, "iput") /\ Set(p, f) /\ UNCHANGED <<dinode, dir>>
      /\ inode' = [inode EXCEPT ![s].lock = TRUE]
      /\ IF e.nlink <= 0 THEN Goto(p, IF e.mode = "file" THEN "itrunc" ELSE "ifree")
         ELSE IF e.dirty THEN Call(p, "iupdat", "idrop")
         ELSE Goto(p, "idrop")
  BY Unset DEF IputLast, disk, Base, Facts
<1>2. Config("iput", r, f) /\ Relies("iput", r, f) /\ f \in Frame /\ pc[p] = "iput" /\ r \in Seq(PC)
  BY <1>1, HereRelies
<1>3. s \in Slot
  BY <1>2 DEF Config
<1>4. inode' = [inode EXCEPT ![s] = [inode[s] EXCEPT !.lock = TRUE]] /\ e \in Inode
  BY <1>1, <1>3, SlotWords
<1>5. Calm(p)
  BY <1>1, <1>3, <1>4, WordsSame, CalmSlot
<1>6. e.nlink \in Int /\ e.dirty \in BOOLEAN
  BY <1>4 DEF Inode
<1>7. e = inode[f.cur] /\ r = ret[p] /\ f = u[p]
  OBVIOUS
<1> HIDE DEF f, r, s, e
<1>8. CASE e.nlink <= 0
  <2>1. PICK m \in {"itrunc", "ifree"} : Enter(p, m, r)
    BY <1>1, <1>7, <1>8 DEF Goto
  <2>2. Leads("iput", r, f, m, r, f)
    BY <1>2, <1>7, <1>8 DEF Leads, Makes, Relies, Rooted, Searched, Made, Ended, Failed, Deletes, Locates
  <2> QED BY <1>1, <1>2, <1>5, <1>7, <2>1, <2>2, LeadsStep
<1>9. CASE ~(e.nlink <= 0) /\ e.dirty
  <2>1. Enter(p, "iupdat", <<"idrop">> \o r) /\ "idrop" \in PC
    BY <1>1, <1>7, <1>9 DEF Call, PC
  <2>2. PICK t : t = <<"idrop">> \o r
    OBVIOUS
  <2>3. Pushed("idrop", r, t)
    BY <1>2, <2>1, <2>2, PushSeq
  <2>4. Leads("iput", r, f, "iupdat", t, f)
    BY <1>2, <1>7, <1>9, <2>3
       DEF Leads, Makes, Relies, Rooted, Searched, Made, Ended, Failed, Deletes, Locates, Pushed
  <2> QED BY <1>1, <1>2, <1>5, <1>7, <2>1, <2>2, <2>4, LeadsStep
<1>10. CASE ~(e.nlink <= 0) /\ ~e.dirty
  <2>1. Enter(p, "idrop", r)
    BY <1>1, <1>7, <1>10 DEF Goto
  <2>2. Leads("iput", r, f, "idrop", r, f)
    BY <1>2, <1>7, <1>10 DEF Leads, Makes, Relies, Rooted, Searched, Made, Ended, Failed, Deletes, Locates
  <2> QED BY <1>1, <1>2, <1>5, <1>7, <2>1, <2>2, LeadsStep
<1> QED BY <1>6, <1>8, <1>9, <1>10

(* The steps that may mark a file as changed, or write what it already has. *)
LEMMA CalmMark ==
  ASSUME Base, NEW p \in Proc, NEW k \in Slot, Has(p, k), pc'[p] # "idrop", NEW e, inode' = [inode EXCEPT ![k] = e],
         e.number = inode[k].number, e.mode = inode[k].mode, e.nlink = inode[k].nlink, inode[k].dirty => e.dirty,
         e.count = 0 => inode[k].count = 0, dinode' = dinode, dir' = dir
  PROVE  Calm(p)
<1>1. inode'[k] = e /\ \A s \in Slot \ {k} : inode'[s] = inode[s]
  BY DEF Base, Facts, TypeOK
<1> QED BY <1>1 DEF Calm

LEMMA MarkIs ==
  ASSUME NEW e \in Inode, NEW d
  PROVE  LET x == [e EXCEPT !.dirty = d]
             y == [Released(e) EXCEPT !.dirty = d] IN
         /\ x.number = e.number /\ x.mode = e.mode /\ x.nlink = e.nlink /\ x.dirty = d /\ x.count = e.count
         /\ y.number = e.number /\ y.mode = e.mode /\ y.nlink = e.nlink /\ y.dirty = d /\ y.count = e.count
BY DEF Inode, Released

LEMMA IallocGotFiled == ASSUME Base, Base', Filed, NEW p \in Proc, IallocGot(p) PROVE Filed'
<1> DEFINE r == ret[p]
           f == u[p]
           s == u[p].cur
<1>1. At(p, "ialgot") /\ Set(p, f) /\ dinode' = dinode /\ dir' = dir
      /\ \/ s = 0 /\ Return(p) /\ UNCHANGED inode
         \/ s # 0 /\ inode[s].mode = "none" /\ inode' = [inode EXCEPT ![s].nlink = 0] /\ Return(p)
         \/ s # 0 /\ Call(p, "iupdat", "ialstale") /\ UNCHANGED inode
  BY Unset DEF IallocGot, disk, Base, Facts
<1>2. Config("ialgot", r, f) /\ Relies("ialgot", r, f) /\ f \in Frame /\ pc[p] = "ialgot" /\ r \in Seq(PC)
  BY <1>1, HereRelies
<1>3. r = <<"maknode">> /\ f.flag # 2 /\ f.dp # 0
  BY <1>2, OneSlots, BaseByName DEF Config, IallocOf
<1>4. Head(r) = "maknode" /\ Tail(r) = <<>>
  BY <1>3, Short
<1>5. s # 0 => s \in Slot /\ Has(p, s)
  BY <1>2, At_Cur DEF Has
<1>6. f.cur = s
  OBVIOUS
<1>7. CASE s = 0 /\ Return(p) /\ UNCHANGED inode
  <2>1. Leads("ialgot", r, f, "maknode", <<>>, f)
    <3> HIDE DEF f, r, s
    <3> QED BY <1>2, <1>3, <1>6, <1>7 DEF Leads, Makes, Relies, Rooted, Searched, Made, Ended, Failed, Deletes, Locates
  <2> QED BY <1>1, <1>4, <1>7, <2>1, ReturnLeads
<1>8. CASE s # 0 /\ inode[s].mode = "none" /\ inode' = [inode EXCEPT ![s].nlink = 0] /\ Return(p)
  <2>1. inode[s].number # ROOTINO
    BY <1>5, <1>8, RootSlot DEF Filed, Plainly
  <2>2. inode[s].nlink = 0
    BY <1>2, <1>5, <1>8, <2>1, MineKept DEF Kept
  <2>3. inode' = inode
    <3>1. inode[s] \in Inode /\ inode \in [Slot -> Inode]
      BY <1>5, <1>8, SlotWords DEF Base, Facts, TypeOK
    <3>2. [inode[s] EXCEPT !.nlink = 0] = inode[s]
      BY <2>2, <3>1 DEF Inode
    <3>3. inode' = [inode EXCEPT ![s] = [inode[s] EXCEPT !.nlink = 0]]
      BY <1>5, <1>8, <3>1
    <3> QED BY <3>1, <3>2, <3>3
  <2>4. Leads("ialgot", r, f, "maknode", <<>>, f)
    <3> HIDE DEF f, r, s
    <3> QED BY <1>2, <1>3, <1>6, <1>8 DEF Leads, Makes, Relies, Rooted, Searched, Made, Ended, Failed, Deletes, Locates
  <2> QED BY <1>1, <1>4, <1>8, <2>3, <2>4, ReturnLeads
<1>9. CASE s # 0 /\ Call(p, "iupdat", "ialstale") /\ UNCHANGED inode
  <2>1. "ialstale" \in PC
    BY DEF PC
  <2>2. ASSUME NEW t, Pushed("ialstale", r, t) PROVE Leads("ialgot", r, f, "iupdat", t, f)
    <3> HIDE DEF f, r, s
    <3> QED BY <1>2, <1>3, <1>6, <1>9, <2>2
            DEF Pushed, Leads, Makes, Relies, Rooted, Searched, Made, Ended, Failed, Deletes, Locates
  <2> QED BY <1>1, <1>9, <2>1, <2>2, CallLeads
<1> QED BY <1>1, <1>7, <1>8, <1>9

LEMMA TruncatedFiled == ASSUME Base, Base', Filed, NEW p \in Proc, Truncated(p) PROVE Filed'
<1> DEFINE r == ret[p]
           f == u[p]
           s == u[p].ip
<1>1. At(p, "trunc") /\ Set(p, f) /\ Goto(p, "granted") /\ dinode' = dinode /\ dir' = dir
      /\ inode' = [inode EXCEPT ![s].dirty = TRUE]
  BY Unset DEF Truncated, disk, Base, Facts
<1>2. Config("trunc", r, f) /\ Relies("trunc", r, f) /\ pc[p] = "trunc" /\ TypeOK
  BY <1>1, HereRelies
<1>3. s \in Slot /\ f.to = "none"
  BY <1>2 DEF Config
<1>4. Has(p, s)
  BY <1>3 DEF Has, Holds
<1>5. inode' = [inode EXCEPT ![s] = [inode[s] EXCEPT !.dirty = TRUE]] /\ inode[s] \in Inode
  BY <1>1, <1>3, SlotWords DEF TypeOK
<1>6. pc'[p] # "idrop"
  BY <1>1, <1>2 DEF Goto, Enter, TypeOK
<1>7. Calm(p)
  <2>1. PICK e : e = [inode[s] EXCEPT !.dirty = TRUE]
    OBVIOUS
  <2>2. /\ e.number = inode[s].number /\ e.mode = inode[s].mode /\ e.nlink = inode[s].nlink
        /\ e.dirty /\ e.count = inode[s].count
    BY <1>5, <2>1, MarkIs
  <2>3. inode' = [inode EXCEPT ![s] = e]
    BY <1>5, <2>1
  <2> HIDE DEF s, f, r
  <2>4. s \in Slot /\ dinode' = dinode /\ dir' = dir
    BY <1>1, <1>3
  <2>5. inode[s].dirty => e.dirty
    BY <2>2
  <2>6. e.count = 0 => inode[s].count = 0
    BY <2>2
  <2> HIDE DEF s, f, r
  <2> QED BY <1>4, <1>6, <2>2, <2>3, <2>4, <2>5, <2>6, CalmMark
<1>8. Leads("trunc", r, f, "granted", r, f)
  <2> HIDE DEF f, r
  <2> QED BY <1>2, GrantErr, FreeLeads DEF Makes
<1> QED BY <1>1, <1>2, <1>7, <1>8, LeadsStep DEF Goto

LEMMA GrantFiled == ASSUME Base, Base', Filed, NEW p \in Proc, Grant(p) PROVE Filed'
<1> DEFINE r == ret[p]
           f == u[p]
           s == u[p].ip
           g == [u[p] EXCEPT !.ip = 0]
<1>1. PICK l \in {"grant", "granted"} : At(p, l)
  BY DEF Grant
<1>2. Set(p, g) /\ Goto(p, "end") /\ dinode' = dinode /\ dir' = dir /\ inode' = [inode EXCEPT ![s] = Released(@)]
  BY DEF Grant, disk, prele
<1>3. Config(l, r, f) /\ Relies(l, r, f) /\ f \in Frame /\ pc[p] = l /\ TypeOK
  BY <1>1, HereRelies
<1>4. s \in Slot
  BY <1>3 DEF Config
<1>5. inode' = [inode EXCEPT ![s] = Released(inode[s])] /\ inode[s] \in Inode
  BY <1>2, <1>3, <1>4 DEF TypeOK
<1>6. Calm(p)
  BY <1>2, <1>4, <1>5, CalmSlot, WordsSame
<1>7. g.dp = f.dp
  BY <1>3 DEF Frame
<1>8. Leads(l, r, f, "end", r, g)
  <2> HIDE DEF f, r, g
  <2> QED BY <1>3, <1>7, GrantErr, FreeLeads DEF Makes
<1> QED BY <1>2, <1>3, <1>6, <1>8, LeadsStep DEF Goto

LEMMA RdwrEndFiled == ASSUME Base, Base', Filed, NEW p \in Proc, RdwrEnd(p) PROVE Filed'
<1> DEFINE r == ret[p]
           f == u[p]
           s == u[p].cur
<1>1. At(p, "rdwr") /\ Set(p, f) /\ Goto(p, "end") /\ dinode' = dinode /\ dir' = dir
  BY Unset DEF RdwrEnd, disk, Base, Facts
<1>2. PICK d \in BOOLEAN : (inode[s].dirty => d) /\ inode' = [inode EXCEPT ![s] = [Released(@) EXCEPT !.dirty = d]]
  <2>1. PICK moved \in BOOLEAN : inode' = [inode EXCEPT ![s] = [Released(@) EXCEPT !.dirty = inode[s].dirty \/ moved]]
    BY DEF RdwrEnd
  <2>2. PICK d : d = (inode[s].dirty \/ moved)
    OBVIOUS
  <2> QED BY <2>1, <2>2
<1>3. Config("rdwr", r, f) /\ Relies("rdwr", r, f) /\ f \in Frame /\ pc[p] = "rdwr" /\ TypeOK
  BY <1>1, HereRelies
<1>4. s \in Slot /\ Has(p, s)
  BY <1>3, At_Cur DEF Has
<1>5. inode' = [inode EXCEPT ![s] = [Released(inode[s]) EXCEPT !.dirty = d]] /\ inode[s] \in Inode
  BY <1>2, <1>3, <1>4 DEF TypeOK
<1>6. pc'[p] # "idrop"
  BY <1>1, <1>3 DEF Goto, Enter, TypeOK
<1>7. Calm(p)
  <2>1. PICK e : e = [Released(inode[s]) EXCEPT !.dirty = d]
    OBVIOUS
  <2>2. /\ e.number = inode[s].number /\ e.mode = inode[s].mode /\ e.nlink = inode[s].nlink
        /\ e.dirty = d /\ e.count = inode[s].count
    BY <1>5, <2>1, MarkIs
  <2>3. (inode[s].dirty => e.dirty) /\ inode' = [inode EXCEPT ![s] = e]
    BY <1>2, <1>5, <2>1, <2>2, Zenon
  <2> QED BY <1>1, <1>4, <1>6, <2>2, <2>3, CalmMark
<1>8. Leads("rdwr", r, f, "end", r, f)
  <2> HIDE DEF f, r
  <2> QED BY <1>3, GrantErr, FreeLeads DEF Makes
<1> QED BY <1>1, <1>3, <1>7, <1>8, LeadsStep DEF Goto

LEMMA UpdateFiled == ASSUME Base, Base', Filed, NEW p \in Proc, Update(p) PROVE Filed'
<1> DEFINE r == ret[p]
           f == u[p]
           todo == {s \in Slot : s >= u[p].scan /\ ~inode[s].lock /\ inode[s].count # 0 /\ inode[s].dirty}
           k == Min(todo)
           g == [u[p] EXCEPT !.cur = k, !.scan = k + 1]
<1>1. At(p, "update") /\ dinode' = dinode /\ dir' = dir
  BY DEF Update, disk
<1>2. Config("update", r, f) /\ Relies("update", r, f) /\ f \in Frame /\ pc[p] = "update" /\ r \in Seq(PC) /\ TypeOK
  BY <1>1, HereRelies
<1>3. CASE todo # {}
  <2>1. /\ inode' = [inode EXCEPT ![k] = [@ EXCEPT !.count = inode[k].count + 1, !.lock = TRUE]]
        /\ Set(p, g) /\ Call(p, "iupdat", "update1")
    BY <1>3 DEF Update
  <2>2. k \in Slot
    <3>1. todo \subseteq Slot
      OBVIOUS
    <3> HIDE DEF todo
    <3> QED BY <1>3, <3>1, MinIs
  <2> HIDE DEF todo
  <2>3. inode[k] \in Inode /\ inode[k].count \in Nat
        /\ inode' = [inode EXCEPT ![k] = [inode[k] EXCEPT !.count = inode[k].count + 1, !.lock = TRUE]]
    BY <1>2, <2>1, <2>2, SlotWords DEF TypeOK
  <2>4. Calm(p)
    BY <1>1, <2>2, <2>3, CalmSlot, WordsSame
  <2>5. g.dp = f.dp /\ g.err = f.err
    BY <1>2 DEF Frame
  <2>6. Enter(p, "iupdat", <<"update1">> \o r) /\ "update1" \in PC
    BY <2>1 DEF Call, PC
  <2>7. PICK t : t = <<"update1">> \o r
    OBVIOUS
  <2>8. Pushed("update1", r, t)
    BY <1>2, <2>6, <2>7, PushSeq
  <2>9. f.dp = 0 /\ ~f.err
    <3> HIDE DEF f, r
    <3> QED BY <1>2, GrantErr
  <2>10. Leads("update", r, f, "iupdat", t, g)
    <3> HIDE DEF f, r, g
    <3> QED BY <2>5, <2>8, <2>9 DEF Pushed, Leads, Makes, Relies, Rooted, Searched, Made, Ended, Failed, Deletes, Locates
  <2> QED BY <1>2, <2>1, <2>4, <2>6, <2>7, <2>10, LeadsStep
<1>4. CASE todo = {}
  <2>1. Return(p) /\ UNCHANGED inode /\ Set(p, f)
    BY <1>4, Unset DEF Update, Base, Facts
  <2>2. r = <<"end">>
    BY <1>2 DEF Config
  <2>3. Head(r) = "end"
    BY <2>2, Short
  <2>4. Leads("update", r, f, Head(r), Tail(r), f)
    <3> HIDE DEF f, r
    <3> QED BY <1>2, <2>3, GrantErr, FreeLeads DEF Makes
  <2> QED BY <1>1, <2>1, <2>4, ReturnLeads
<1> QED BY <1>3, <1>4

-----------------------------------------------------------------------------
(* The steps that write the file k on the disk, in the table or in the     *)
(* directory: what p reads or makes a file of is k.                        *)
About(p, k) ==
  /\ pc[p] = "iread" => u[p].cur = k
  /\ Makes(pc[p], ret[p]) => u[p].ip = k
Writes(p, k) ==
  /\ Alone(p) /\ Mind(p, k) /\ About(p, k) /\ About(p, k)'
  /\ \A s \in Slot \ {k} : SameFile(s) \/ (s = 1 /\ Has(p, 1))
  /\ \A i \in Ino : dinode'[i] = dinode[i] \/ (Has(p, k) /\ inode[k].number = i)
  /\ \A n \in Name : \/ dir'[n] = dir[n]
                     \/ /\ Has(p, 1) /\ Has(p, k) /\ inode[k].number # 0 /\ inode'[k].number = inode[k].number
                        /\ {dir[n], dir'[n]} = {0, inode[k].number}

LEMMA ElseRead ==
  ASSUME NEW p \in Proc, NEW k, Writes(p, k), NEW s, s # k
  PROVE  (Reading(s)' <=> Reading(s)) /\ (Making(s)' <=> Making(s))
<1>1. \A q \in Proc \ {p} : pc'[q] = pc[q] /\ ret'[q] = ret[q] /\ u'[q] = u[q]
  BY DEF Writes, Alone
<1>2. ~(pc[p] = "iread" /\ u[p].cur = s) /\ ~(Makes(pc[p], ret[p]) /\ u[p].ip = s)
  BY DEF Writes, About
<1>3. ~(pc'[p] = "iread" /\ u'[p].cur = s) /\ ~(Makes(pc'[p], ret'[p]) /\ u'[p].ip = s)
  BY DEF Writes, About, Makes
<1>4. Making(s)' <=> \E q \in Proc : Makes(pc'[q], ret'[q]) /\ u'[q].ip = s
  BY DEF Making, Makes
<1>5. Reading(s)' <=> Reading(s)
  BY <1>1, <1>2, <1>3 DEF Reading
<1>6. Making(s)' <=> Making(s)
  <2>1. \A q \in Proc : Makes(pc'[q], ret'[q]) /\ u'[q].ip = s <=> Makes(pc[q], ret[q]) /\ u[q].ip = s
    <3> HIDE DEF Makes
    <3> QED BY <1>1, <1>2, <1>3
  <2> QED BY <1>4, <2>1 DEF Making
<1> QED BY <1>5, <1>6

LEMMA ElseNamed ==
  ASSUME NEW p \in Proc, NEW k, Writes(p, k), NEW i, i # 0, i # inode[k].number
  PROVE  Named(i)' <=> Named(i)
<1>1. ASSUME NEW n \in Name PROVE dir'[n] = i <=> dir[n] = i
  <2>1. CASE dir'[n] = dir[n]
    BY <2>1
  <2>2. CASE {dir[n], dir'[n]} = {0, inode[k].number}
    <3>1. dir[n] \in {0, inode[k].number} /\ dir'[n] \in {0, inode[k].number}
      BY <2>2
    <3> QED BY <3>1
  <2> QED BY <2>1, <2>2 DEF Writes
<1> QED BY <1>1 DEF Named

LEMMA ElseKept ==
  ASSUME Base, Filed, NEW p \in Proc, NEW k \in Slot, Writes(p, k), NEW s \in Slot, s # k, RootKept',
         inode'[s].number \notin {0, ROOTINO}, ~Reading(s)'
  PROVE  Kept(s)'
<1>1. SameFile(s)
  BY DEF Writes, RootKept
<1>2. inode[s].number \notin {0, ROOTINO} /\ inode[s].number \in Ino
  BY <1>1, NumberIs DEF SameFile
<1>3. Kept(s)
  BY <1>2, ElseRead DEF Filed, InTable
<1>4. inode[k].number # inode[s].number
  BY <1>2 DEF Base, UniqueInode
<1>5. PICK i : i = inode[s].number
  OBVIOUS
<1>6. inode'[s].number = i
  BY <1>1, <1>5 DEF SameFile
<1>7. Named(i)' <=> Named(i)
  BY <1>2, <1>4, <1>5, ElseNamed
<1>8. dinode'[i] = dinode[i]
  BY <1>2, <1>4, <1>5 DEF Writes
<1>9. Making(s)' <=> Making(s)
  BY ElseRead
<1>10. One(Named(inode[s].number) \/ Making(s))' = One(Named(i) \/ Making(s))
  BY <1>6, <1>7, <1>9 DEF One, Named
<1> QED BY <1>1, <1>3, <1>5, <1>6, <1>8, <1>10 DEF Kept, SameFile

LEMMA ElseStored ==
  ASSUME Base, Filed, NEW p \in Proc, NEW k \in Slot, Writes(p, k), RootKept', NEW i \in Ino \ {ROOTINO},
         i # inode[k].number, i # inode'[k].number, \A s \in Slot : inode'[s].number = i => Reading(s)'
  PROVE  Stored(i)'
<1>1. ASSUME NEW s \in Slot, inode[s].number = i PROVE Reading(s)
  <2>1. s # k
    BY <1>1
  <2>2. s # 1
    BY <1>1 DEF Base, Facts, RootKept
  <2>3. inode'[s].number = i
    BY <1>1, <2>1, <2>2 DEF Writes, SameFile
  <2> QED BY <2>1, <2>3, ElseRead
<1>2. Stored(i)
  BY <1>1 DEF Filed, OnDisk
<1>3. Named(i)' <=> Named(i)
  BY ElseNamed DEF Ino
<1>4. dinode'[i] = dinode[i]
  BY DEF Writes
<1>5. One(Named(i))' = One(Named(i))
  BY <1>3 DEF One
<1> QED BY <1>2, <1>3, <1>4, <1>5 DEF Stored

LEMMA FileStep ==
  ASSUME Base, Base', Filed, NEW p \in Proc, NEW k \in Slot, Writes(p, k), Relies(pc[p], ret[p], u[p])',
         k # 1 /\ inode'[k].number # 0 /\ ~Reading(k)' => Kept(k)',
         \A i \in Ino \ {ROOTINO} :
           i \in {inode[k].number, inode'[k].number} /\ (inode'[k].number = i => Reading(k)') => Stored(i)',
         OneName', Plainly', EntryAllocated'
  PROVE  Filed'
<1>1. RootKept'
  BY DEF Base, Facts
<1>2. Within(p)
  BY DEF Within, Writes, Mind
<1>3. ASSUME NEW s \in Slot, inode'[s].number \notin {0, ROOTINO}, ~Reading(s)' PROVE Kept(s)'
  <2>1. CASE s = k
    BY <1>1, <1>3, <2>1 DEF RootKept
  <2> QED BY <1>1, <1>3, <2>1, ElseKept
<1>4. ASSUME NEW i \in Ino \ {ROOTINO}, \A s \in Slot : inode'[s].number = i => Reading(s)' PROVE Stored(i)'
  <2>1. CASE i \in {inode[k].number, inode'[k].number}
    BY <1>4, <2>1
  <2> QED BY <1>1, <1>4, <2>1, ElseStored
<1>5. Shows(p)
  BY <1>3, <1>4 DEF Shows
<1> QED BY <1>2, <1>5, FiledStep

LEMMA Moves ==
  ASSUME Base, NEW p \in Proc, NEW m, NEW t, NEW g, Enter(p, m, t), Set(p, g)
  PROVE  Alone(p) /\ pc'[p] = m /\ ret'[p] = t /\ u'[p] = g
BY DEF Base, Facts, TypeOK, Enter, Set, Alone

LEMMA OneChanged ==
  ASSUME Base, NEW k \in Slot, NEW e, inode' = [inode EXCEPT ![k] = e]
  PROVE  inode'[k] = e /\ \A s \in Slot \ {k} : inode'[s] = inode[s] /\ SameFile(s)
BY DEF Base, Facts, TypeOK, SameFile

(* iget() gives a free entry the inode: until iread() has read it, the     *)
(* disk alone knows it.                                                    *)
LEMMA IgetReadFiled == ASSUME Base, Base', Filed, NEW p \in Proc, IgetRead(p) PROVE Filed'
<1>1. PICK r, f, k, g : /\ r = ret[p] /\ f = u[p] /\ k = Min(Unused) /\ g = [f EXCEPT !.cur = k]
  OBVIOUS
<1>2. At(p, "iget") /\ Holding(f.ino) = {} /\ Unused # {} /\ Set(p, g) /\ Enter(p, "iread", r)
      /\ dinode' = dinode /\ dir' = dir
      /\ inode' = [inode EXCEPT ![k] = [@ EXCEPT !.number = f.ino, !.count = 1, !.lock = TRUE,
                                                 !.want = FALSE, !.dirty = FALSE]]
  BY <1>1 DEF IgetRead, disk, Goto
<1>3. Config("iget", r, f) /\ Relies("iget", r, f) /\ f \in Frame /\ pc[p] = "iget"
  BY <1>1, <1>2, HereRelies
<1>4. k \in Slot /\ inode[k].count = 0
  <2>1. Unused \subseteq Slot
    BY DEF Unused
  <2>2. k \in Unused
    <3>1. Min(Unused) \in Unused
      BY <1>2, <2>1, MinIs
    <3> QED BY <1>1, <3>1
  <2> QED BY <2>2 DEF Unused
<1>5. inode[k].number = 0 /\ k # 1
  BY <1>4 DEF Filed, Plainly, Base, Facts, RootKept, ROOTINO
<1>6. PICK e : e = [inode[k] EXCEPT !.number = f.ino, !.count = 1, !.lock = TRUE, !.want = FALSE, !.dirty = FALSE]
  OBVIOUS
<1>7. e.number = f.ino /\ e.count = 1
  BY <1>4, <1>6, SlotWords DEF Inode
<1>8. inode'[k] = e /\ \A s \in Slot \ {k} : inode'[s] = inode[s] /\ SameFile(s)
  <2>1. inode' = [inode EXCEPT ![k] = e]
    BY <1>2, <1>4, <1>6 DEF Base, Facts, TypeOK
  <2> QED BY <1>4, <2>1, OneChanged
<1>9. Alone(p) /\ pc'[p] = "iread" /\ ret'[p] = r /\ u'[p] = g
  BY <1>2, Moves
<1>10. g.cur = k /\ g.dp = f.dp /\ g.flag = f.flag /\ g.name = f.name /\ g.ino = f.ino /\ g.err = f.err
  BY <1>1, <1>3, <1>4 DEF Frame
<1>11. Has(p, k)'
  BY <1>9, <1>10 DEF Has, Holds
<1>12. About(p, k) /\ About(p, k)'
  BY <1>3, <1>9, <1>10 DEF About, Makes
<1>13. Writes(p, k)
  BY <1>2, <1>8, <1>9, <1>11, <1>12 DEF Writes, Mind
<1>14. Relies("iread", r, g)'
  BY <1>2, <1>3, <1>5, <1>7, <1>8, <1>10 DEF Relies, Rooted, Searched, Made, Ended, Failed, Deletes, Locates, Makes
<1>15. Relies(pc[p], ret[p], u[p])'
  BY <1>9, <1>14
<1>16. Reading(k)'
  BY <1>9, <1>10 DEF Reading
<1>17. ASSUME NEW i \in Ino \ {ROOTINO}, i \in {inode[k].number, inode'[k].number} PROVE Stored(i)'
  <2>1. i = f.ino
    BY <1>5, <1>7, <1>8, <1>17 DEF Ino
  <2>2. Stored(i)
    BY <1>2, <2>1 DEF Holding, Filed, OnDisk
  <2> QED BY <1>2, <2>2 DEF Stored, Named, One
<1>18. OneName' /\ EntryAllocated'
  BY <1>2 DEF Filed, OneName, EntryAllocated
<1>19. Plainly'
  BY <1>2, <1>5, <1>7, <1>8, OneSlots DEF Filed, Plainly, Named
<1> QED BY <1>4, <1>13, <1>15, <1>16, <1>17, <1>18, <1>19, FileStep

(* iread(): the entry has what the disk has.                               *)
LEMMA IreadFiled == ASSUME Base, Base', Filed, MaxFaults = 0, NEW p \in Proc, Iread(p) PROVE Filed'
<1>1. PICK r, f, k, d : r = ret[p] /\ f = u[p] /\ k = f.cur /\ d = dinode[inode[k].number]
  OBVIOUS
<1>2. At(p, "iread") /\ dinode' = dinode /\ dir' = dir
  BY DEF Iread
<1>3. Config("iread", r, f) /\ Relies("iread", r, f) /\ f \in Frame /\ pc[p] = "iread"
  BY <1>1, <1>2, HereRelies
<1>4. ~f.err
  BY <1>3 DEF Relies, Rooted, Failed
<1>5. Enter(p, Head(r), Tail(r)) /\ Set(p, f) /\ inode' = [inode EXCEPT ![k] = [@ EXCEPT !.mode = d.mode, !.nlink = d.nlink]]
  <2>1. PICK fails \in BOOLEAN :
          /\ Bread(fails)
          /\ ~(fails \/ f.err) => /\ inode' = [inode EXCEPT ![k] = [@ EXCEPT !.mode = d.mode, !.nlink = d.nlink]]
                                  /\ Return(p) /\ UNCHANGED u
    BY <1>1 DEF Iread
  <2>2. ~fails
    BY <2>1, NoFaults
  <2> QED BY <1>1, <1>4, <2>1, <2>2, Unset DEF Return, Base, Facts
<1>6. k \in Slot /\ k # 1 /\ Has(p, k) /\ inode[k].number = f.ino
  BY <1>1, <1>3, At_Cur DEF Has, Locates, Relies, Rooted, Searched
<1>7. f.ino \in Ino \ {ROOTINO}
  <2>1. f.ino \in Ino
    BY <1>3 DEF Config, IgetOf
  <2> QED BY <1>6, <2>1, RootSlot
<1>8. PICK e : e = [inode[k] EXCEPT !.mode = d.mode, !.nlink = d.nlink]
  OBVIOUS
<1>9. inode[k] \in Inode
  BY <1>6, SlotWords
<1>10. e.number = f.ino /\ e.count = inode[k].count /\ e.dirty = inode[k].dirty /\ e.mode = d.mode /\ e.nlink = d.nlink
  BY <1>6, <1>8, <1>9 DEF Inode
<1>11. inode'[k] = e /\ \A s \in Slot \ {k} : inode'[s] = inode[s] /\ SameFile(s)
  <2>1. inode' = [inode EXCEPT ![k] = e]
    BY <1>5, <1>6, <1>8 DEF Base, Facts, TypeOK
  <2> QED BY <1>6, <2>1, OneChanged
<1>12. Alone(p) /\ pc'[p] = Head(r) /\ ret'[p] = Tail(r) /\ u'[p] = f
  BY <1>5, Moves
<1>13. /\ Head(r) \in {"opened", "ialgot", "unlink2"} /\ (Head(r) = "opened" => f.dp = 0)
       /\ Head(r) = "unlink2" => r = <<"unlink2">>
  <2>1. IgetOf(r, f) /\ Head(r) # "lookup"
    BY <1>3 DEF Config
  <2>2. \/ r = <<"opened">> /\ f.dp = 0
        \/ Head(r) = "ialgot"
        \/ r = <<"unlink2">>
    BY <2>1 DEF IgetOf, NameiOf, Base
  <2> QED BY <2>2, Short
<1>14. About(p, k) /\ About(p, k)'
  BY <1>1, <1>3, <1>12, <1>13 DEF About, Makes
<1>15. Writes(p, k)
  BY <1>2, <1>6, <1>11, <1>12, <1>14 DEF Writes, Mind
<1>16. Relies(Head(r), Tail(r), f)'
  BY <1>2, <1>3, <1>4, <1>1, <1>6, <1>10, <1>11, <1>13
     DEF Relies, Rooted, Searched, Made, Ended, Failed, Deletes, Locates, Makes
<1>17. Relies(pc[p], ret[p], u[p])'
  BY <1>12, <1>16
<1>18. Stored(f.ino)
  <2>1. ASSUME NEW s \in Slot, inode[s].number = f.ino PROVE Reading(s)
    <3>1. s = k
      BY <1>6, <1>7, <2>1 DEF Base, UniqueInode, Ino
    <3> QED BY <1>1, <1>3, <3>1 DEF Reading
  <2> QED BY <1>7, <2>1 DEF Filed, OnDisk
<1>19. ~Reading(k)' /\ ~Making(k)'
  <2>1. ASSUME NEW q \in Proc, (pc'[q] = "iread" /\ u'[q].cur = k) \/ (Makes(pc'[q], ret'[q]) /\ u'[q].ip = k) PROVE FALSE
    <3>1. CASE q = p
      BY <1>12, <1>13, <2>1, <3>1 DEF Makes
    <3>2. CASE q # p
      <4>1. (pc[q] = "iread" /\ u[q].cur = k) \/ (Makes(pc[q], ret[q]) /\ u[q].ip = k)
        BY <1>12, <2>1, <3>2 DEF Alone
      <4>2. Has(q, k)
        BY <1>6, <4>1, ReadHeld
      <4> QED BY <1>6, <3>2, <4>2 DEF Base, Locked
    <3> QED BY <3>1, <3>2
  <2> QED BY <2>1 DEF Reading, Making, Makes
<1>20. Kept(k)'
  <2>1. PICK i : i = f.ino
    OBVIOUS
  <2>2. inode'[k].number = i /\ inode'[k].nlink = dinode[i].nlink /\ inode'[k].mode = dinode[i].mode
    BY <1>1, <1>6, <1>10, <1>11, <2>1
  <2>3. dinode[i].nlink = One(Named(i)) /\ (dinode[i].mode = "none" <=> ~Named(i))
    BY <1>18, <2>1 DEF Stored
  <2>4. Named(i)' <=> Named(i)
    BY <1>2 DEF Named
  <2>5. One(Named(inode[k].number) \/ Making(k))' = One(Named(i))
    BY <1>19, <2>2, <2>4 DEF One, Named
  <2>6. inode'[k].mode = "none" => inode'[k].nlink = 0
    BY <2>2, <2>3 DEF One
  <2>7. dinode'[i] = [mode |-> inode'[k].mode, nlink |-> inode'[k].nlink]
    <3>1. dinode[i] \in [mode : Mode, nlink : Int]
      BY <1>7, <2>1 DEF Base, Facts, TypeOK
    <3> QED BY <1>2, <2>2, <3>1
  <2> QED BY <2>2, <2>3, <2>5, <2>6, <2>7 DEF Kept
<1>21. \A i : i \in {inode[k].number, inode'[k].number} => inode'[k].number = i
  BY <1>6, <1>10, <1>11
<1>22. OneName' /\ EntryAllocated'
  BY <1>2 DEF Filed, OneName, EntryAllocated
<1>23. Plainly'
  BY <1>2, <1>6, <1>10, <1>11, OneSlots DEF Filed, Plainly, Named
<1> QED BY <1>6, <1>15, <1>17, <1>19, <1>20, <1>21, <1>22, <1>23, FileStep

LEMMA MakingMine ==
  ASSUME Base, NEW p \in Proc, NEW k \in Slot, Has(p, k)
  PROVE  (Making(k) <=> Makes(pc[p], ret[p]) /\ u[p].ip = k) /\ (Reading(k) <=> pc[p] = "iread" /\ u[p].cur = k)
<1>1. \A q \in Proc : Has(q, k) => q = p
  BY DEF Base, Locked
<1> QED BY <1>1, ReadHeld DEF Making, Reading

LEMMA MakingNext ==
  ASSUME Base', NEW p \in Proc, NEW k \in Slot, Has(p, k)'
  PROVE  /\ Making(k)' <=> Makes(pc'[p], ret'[p]) /\ u'[p].ip = k
         /\ Reading(k)' <=> pc'[p] = "iread" /\ u'[p].cur = k
<1>1. (\A q \in Proc, x \in Proc, s \in Slot : Has(x, s) /\ Has(q, s) => x = q)'
  BY DEF Base, Locked
<1>2. \A q \in Proc : Has(q, k)' => q = p
  BY <1>1
<1>3. Making(k)' <=> \E q \in Proc : Makes(pc'[q], ret'[q]) /\ u'[q].ip = k
  BY DEF Making, Makes
<1>4. Reading(k)' <=> \E q \in Proc : pc'[q] = "iread" /\ u'[q].cur = k
  BY DEF Reading
<1> QED BY <1>2, <1>3, <1>4, ReadHeldNext

(* The root is never given up.                                             *)
LEMMA LastNotRoot ==
  ASSUME Base, NEW p \in Proc, Last(pc[p], ret[p]), u[p].cur \in Slot
  PROVE  u[p].cur # 1 /\ inode[u[p].cur].number # ROOTINO
<1> SUFFICES ASSUME u[p].cur = 1 PROVE FALSE
  BY RootSlot
<1>1. inode[1].count = 1
  BY DEF Base, Facts, LastKept, Finishing, Last
<1>2. Mine(p, 1) >= 1
  <2>1. Owns(pc[p], ret[p])
    BY DEF Last, Owns
  <2> QED BY <2>1 DEF Mine, Weight, One
<1>3. file[p][1] \in Nat /\ Mine(p, 1) \in Nat
  BY Refers, OneSlots DEF Base, Facts
<1>4. inode[1].count >= One(1 = 1) + file[p][1] + Mine(p, 1)
  BY Counts, OneSlots DEF Base, Facts
<1> QED BY <1>1, <1>2, <1>3, <1>4 DEF One

(* ifree(): the file has no entry left.                                    *)
LEMMA IfreeFiled == ASSUME Base, Base', Filed, NEW p \in Proc, Ifree(p) PROVE Filed'
<1>1. PICK l, r, f, k : l = pc[p] /\ r = ret[p] /\ f = u[p] /\ k = f.cur
  OBVIOUS
<1>2. (At(p, "itrunc") \/ At(p, "ifree")) /\ dinode' = dinode /\ dir' = dir /\ Set(p, f) /\ Enter(p, "iupdat", <<"idrop">> \o r)
      /\ inode' = [inode EXCEPT ![k] = [@ EXCEPT !.mode = "none", !.dirty = TRUE]]
  BY <1>1, Unset DEF Ifree, disk, Base, Facts, Call
<1>3. Config(l, r, f) /\ Relies(l, r, f) /\ f \in Frame /\ l \in {"itrunc", "ifree"} /\ r \in Seq(PC)
  BY <1>1, <1>2, HereRelies
<1>4. PICK t : t = <<"idrop">> \o r
  OBVIOUS
<1>5. Pushed("idrop", r, t)
  BY <1>3, <1>4, PushSeq DEF PC
<1>6. Alone(p) /\ pc'[p] = "iupdat" /\ ret'[p] = t /\ u'[p] = f
  BY <1>2, <1>4, Moves
<1>7. k \in Slot /\ Has(p, k)
  BY <1>1, <1>3, At_Cur DEF Has, Last
<1>8. k # 1 /\ inode[k].number # ROOTINO
  BY <1>1, <1>3, <1>7, LastNotRoot DEF Last
<1>9. Kept(k) /\ inode[k].number \in Ino /\ inode[k] \in Inode
  BY <1>1, <1>3, <1>7, <1>8, MineKept, SlotWords
<1>10. PICK e : e = [inode[k] EXCEPT !.mode = "none", !.dirty = TRUE]
  OBVIOUS
<1>11. e.number = inode[k].number /\ e.count = inode[k].count /\ e.mode = "none" /\ e.dirty /\ e.nlink = inode[k].nlink
  BY <1>9, <1>10 DEF Inode
<1>12. inode'[k] = e /\ \A s \in Slot \ {k} : inode'[s] = inode[s] /\ SameFile(s)
  <2>1. inode' = [inode EXCEPT ![k] = e]
    BY <1>2, <1>7, <1>10 DEF Base, Facts, TypeOK
  <2> QED BY <1>7, <2>1, OneChanged
<1>13. Has(p, k)'
  <2>1. t # <<"end">>
    BY <1>5, Short DEF Pushed
  <2> QED BY <1>1, <1>6, <2>1 DEF Has, Holds
<1>14. ~Makes(l, r) /\ ~Makes("iupdat", t)
  BY <1>3, <1>5 DEF Makes, Pushed
<1>15. About(p, k) /\ About(p, k)'
  BY <1>1, <1>3, <1>6, <1>14 DEF About, Makes
<1>16. Writes(p, k)
  BY <1>2, <1>6, <1>12, <1>7, <1>15 DEF Writes, Mind
<1>17. Relies("iupdat", t, f)'
  <2>1. Head(t) = "idrop" /\ Tail(t) = r
    BY <1>5 DEF Pushed
  <2> QED BY <1>1, <1>2, <1>3, <1>11, <1>12, <2>1
      DEF Relies, Rooted, Searched, Made, Ended, Failed, Deletes, Locates, Makes
<1>18. Relies(pc[p], ret[p], u[p])'
  BY <1>6, <1>17
<1>19. ~Reading(k)' /\ ~Making(k)' /\ ~Making(k)
  BY <1>1, <1>6, <1>7, <1>13, <1>14, MakingMine, MakingNext
<1>20. Kept(k)'
  <2>1. PICK i : i = inode[k].number
    OBVIOUS
  <2>2. inode[k].nlink <= 0
    BY <1>1, <1>3 DEF Relies, Ended
  <2>3. inode'[k].nlink = 0 /\ ~Named(i)
    BY <1>9, <1>11, <1>12, <1>19, <2>1, <2>2 DEF Kept, One
  <2>4. ~Named(i)' /\ inode'[k].number = i
    BY <1>2, <1>11, <1>12, <2>1, <2>3 DEF Named
  <2>5. One(Named(inode[k].number) \/ Making(k))' = 0
    BY <1>19, <2>4 DEF One, Named
  <2> QED BY <1>11, <1>12, <2>3, <2>5 DEF Kept
<1>21. \A i : i \in {inode[k].number, inode'[k].number} => inode'[k].number = i
  BY <1>11, <1>12
<1>22. OneName' /\ EntryAllocated'
  BY <1>2 DEF Filed, OneName, EntryAllocated
<1>23. Plainly'
  BY <1>2, <1>8, <1>11, <1>12, OneSlots DEF Filed, Plainly, Named
<1> QED BY <1>7, <1>16, <1>18, <1>19, <1>20, <1>21, <1>22, <1>23, FileStep

(* iput() gives the entry up when the disk has what it had.                *)
LEMMA IdropFiled == ASSUME Base, Base', Filed, NEW p \in Proc, Idrop(p) PROVE Filed'
<1>1. PICK r, f, k, g : r = ret[p] /\ f = u[p] /\ k = f.cur /\ g = [f EXCEPT !.cur = 0]
  OBVIOUS
<1>2. At(p, "idrop") /\ dinode' = dinode /\ dir' = dir /\ Set(p, g) /\ Enter(p, Head(r), Tail(r))
      /\ inode' = [inode EXCEPT ![k] = [Released(@) EXCEPT !.dirty = FALSE, !.number = 0, !.count = 0]]
  BY <1>1 DEF Idrop, disk, Return
<1>3. Config("idrop", r, f) /\ Relies("idrop", r, f) /\ f \in Frame /\ pc[p] = "idrop"
  BY <1>1, <1>2, HereRelies
<1>4. k \in Slot /\ Has(p, k) /\ IputOf(r, f)
  <2>1. k \in Slot /\ Has(p, k)
    BY <1>1, <1>3, At_Cur DEF Has, Last
  <2>2. IputOf(r, f)
    BY <1>3 DEF Config
  <2> QED BY <2>1, <2>2
<1>5. k # 1 /\ inode[k].number # ROOTINO
  BY <1>1, <1>3, <1>4, LastNotRoot DEF Last
<1>6. Kept(k) /\ inode[k].number \in Ino /\ inode[k] \in Inode
  BY <1>1, <1>3, <1>4, <1>5, MineKept, SlotWords
<1>7. PICK e : e = [Released(inode[k]) EXCEPT !.dirty = FALSE, !.number = 0, !.count = 0]
  OBVIOUS
<1>8. e.number = 0 /\ e.count = 0 /\ e.mode = inode[k].mode
  BY <1>6, <1>7 DEF Inode, Released
<1>9. inode'[k] = e /\ \A s \in Slot \ {k} : inode'[s] = inode[s] /\ SameFile(s)
  <2>1. inode' = [inode EXCEPT ![k] = e]
    BY <1>2, <1>4, <1>7 DEF Base, Facts, TypeOK
  <2> QED BY <1>4, <2>1, OneChanged
<1>10. Alone(p) /\ pc'[p] = Head(r) /\ ret'[p] = Tail(r) /\ u'[p] = g
  BY <1>2, Moves
<1>11. g.cur = 0 /\ g.dp = f.dp /\ g.err = f.err /\ g.flag = f.flag /\ g.name = f.name
  BY <1>1, <1>3, OneSlots DEF Frame
<1>12. Leads("idrop", r, f, Head(r), Tail(r), g)
  BY <1>3, <1>4, <1>11, PutReturns DEF Base
<1>13. Head(r) \in {"opened", "unlink1", "child", "ialgot", "ialloop", "update", "grant", "unlink2", "unlink3", "end"}
  <2>1. \/ r \in {<<"opened">>, <<"unlink1">>, <<"unlink2">>, <<"unlink3">>, <<"end">>, <<"grant">>}
        \/ Head(r) \in {"child", "ialgot", "ialloop", "update"}
    BY <1>4 DEF IputOf, NameiOf, Base
  <2> QED BY <2>1, Short
<1>14. Relies(Head(r), Tail(r), g)'
  <2>1. Relies(Head(r), Tail(r), g)
    BY <1>12 DEF Leads
  <2> QED BY <1>2, <1>11, <1>13, <2>1
      DEF Relies, Rooted, Searched, Made, Ended, Failed, Deletes, Locates, Makes
<1>15. Relies(pc[p], ret[p], u[p])'
  BY <1>10, <1>14
<1>16. About(p, k) /\ About(p, k)' /\ ~Making(k)
  <2>1. ~Makes(pc[p], ret[p]) /\ ~Makes(Head(r), Tail(r)) /\ Head(r) # "iread"
    BY <1>3, <1>13 DEF Makes
  <2>2. About(p, k)'
    BY <1>10, <2>1 DEF About, Makes
  <2> QED BY <1>3, <1>4, <2>1, <2>2, MakingMine DEF About
<1>17. Writes(p, k)
  BY <1>2, <1>4, <1>9, <1>10, <1>16 DEF Writes, Mind
<1>18. Stored(inode[k].number)
  <2>1. ~inode[k].dirty /\ (inode[k].nlink <= 0 => inode[k].mode = "none")
    BY <1>1, <1>3 DEF Relies, Ended
  <2>2. dinode[inode[k].number].mode = inode[k].mode /\ dinode[inode[k].number].nlink = inode[k].nlink
    BY <1>6, <2>1 DEF Kept
  <2> QED BY <1>6, <1>16, <2>1, <2>2 DEF Kept, Stored, One
<1>19. ASSUME NEW i \in Ino \ {ROOTINO}, i \in {inode[k].number, inode'[k].number} PROVE Stored(i)'
  <2>1. i = inode[k].number
    BY <1>8, <1>9, <1>19 DEF Ino
  <2>2. Stored(i)
    BY <1>18, <2>1
  <2> QED BY <1>2, <2>2 DEF Stored, Named, One
<1>20. OneName' /\ EntryAllocated'
  BY <1>2 DEF Filed, OneName, EntryAllocated
<1>21. Plainly'
  BY <1>2, <1>5, <1>8, <1>9, OneSlots DEF Filed, Plainly, Named
<1>22. inode'[k].number = 0
  BY <1>8, <1>9
<1> QED BY <1>4, <1>15, <1>17, <1>19, <1>20, <1>21, <1>22, FileStep

(* iupdat() writes the inode that iput(), ialloc(), maknode() or update()  *)
(* has locked.                                                             *)
LEMMA IupdatFiled == ASSUME Base, Base', Filed, MaxFaults = 0, NEW p \in Proc, Iupdat(p) PROVE Filed'
<1>1. PICK r, f, k, i : r = ret[p] /\ f = u[p] /\ k = f.cur /\ i = inode[k].number
  OBVIOUS
<1>2. At(p, "iupdat") /\ dir' = dir
  BY DEF Iupdat
<1>3. Config("iupdat", r, f) /\ Relies("iupdat", r, f) /\ f \in Frame /\ pc[p] = "iupdat"
  BY <1>1, <1>2, HereRelies
<1>4. Enter(p, Head(r), Tail(r)) /\ Set(p, f) /\ inode' = [inode EXCEPT ![k].dirty = FALSE]
      /\ dinode' = [dinode EXCEPT ![i] = [mode |-> inode[k].mode, nlink |-> inode[k].nlink]]
  <2>1. PICK fails \in BOOLEAN :
          /\ Bread(fails)
          /\ ~fails => /\ inode' = [inode EXCEPT ![k].dirty = FALSE] /\ UNCHANGED u
                       /\ dinode' = [dinode EXCEPT ![i] = [mode |-> inode[k].mode, nlink |-> inode[k].nlink]]
    BY <1>1 DEF Iupdat
  <2>2. ~fails
    BY <2>1, NoFaults
  <2> QED BY <1>1, <2>1, <2>2, Unset DEF Return, Iupdat, Base, Facts
<1>5. IupdatOf(r, f) /\ k \in Slot
  BY <1>1, <1>3 DEF Config
<1>6. \/ Head(r) = "idrop" /\ IputOf(Tail(r), f)
      \/ Head(r) = "ialstale" /\ IallocOf(Tail(r), f)
      \/ Head(r) = "wdir" /\ f.dp \in Slot /\ f.ip = k
      \/ Head(r) = "update1"
  BY <1>1, <1>5, Short, BaseByName DEF IupdatOf
<1>7. r # <<"end">>
  BY <1>6, Short
<1>8. Has(p, k)
  BY <1>1, <1>3, <1>7 DEF Has, Holds
<1>9. inode[k] \in Inode /\ i \in Ino
  <2>1. inode[k].lock
    BY <1>8, <1>5 DEF Base, Locked
  <2>2. i # 0
    BY <1>1, <1>5, <2>1 DEF Base, Facts, LockUsed, Numbered
  <2> QED BY <1>1, <1>5, <2>2, NumberIs, SlotWords
<1>10. PICK e : e = [inode[k] EXCEPT !.dirty = FALSE]
  OBVIOUS
<1>11. e.number = i /\ e.count = inode[k].count /\ e.mode = inode[k].mode /\ ~e.dirty /\ e.nlink = inode[k].nlink
  BY <1>1, <1>9, <1>10, MarkIs
<1>12. inode'[k] = e /\ \A s \in Slot \ {k} : inode'[s] = inode[s] /\ SameFile(s)
  <2>1. inode' = [inode EXCEPT ![k] = e]
    BY <1>4, <1>5, <1>10 DEF Base, Facts, TypeOK
  <2> QED BY <1>5, <2>1, OneChanged
<1>13. /\ dinode'[i] = [mode |-> inode[k].mode, nlink |-> inode[k].nlink]
       /\ \A j \in Ino \ {i} : dinode'[j] = dinode[j]
  BY <1>4, <1>9 DEF Base, Facts, TypeOK
<1>14. Alone(p) /\ pc'[p] = Head(r) /\ ret'[p] = Tail(r) /\ u'[p] = f
  BY <1>4, Moves
<1>15. Has(p, k)'
  BY <1>1, <1>6, <1>14 DEF Has, Holds
<1>16. Makes(Head(r), Tail(r)) <=> Makes("iupdat", r)
  BY <1>6 DEF Makes
<1>17. Makes("iupdat", r) => f.ip = k
  BY <1>6, Short DEF Makes
<1>18. About(p, k) /\ About(p, k)' /\ Head(r) # "iread"
  <2>1. About(p, k) /\ Head(r) # "iread"
    BY <1>1, <1>3, <1>6, <1>17 DEF About
  <2> QED BY <1>14, <1>16, <1>17, <2>1 DEF About, Makes
<1>19. Writes(p, k)
  BY <1>1, <1>2, <1>8, <1>12, <1>13, <1>14, <1>18 DEF Writes, Mind
<1>20. (Making(k)' <=> Making(k)) /\ ~Reading(k)'
  <2>1. Makes(pc'[p], ret'[p]) <=> Makes(pc[p], ret[p])
    BY <1>1, <1>3, <1>14, <1>16
  <2> QED BY <1>1, <1>5, <1>8, <1>14, <1>15, <1>18, <2>1, MakingMine, MakingNext
<1>21. Relies(Head(r), Tail(r), f)'
  <2>1. CASE Head(r) = "wdir"
    <3>1. Makes("iupdat", r)
      BY <2>1 DEF Makes
    <3>2. f.flag = 0 /\ ~Named(i) /\ i # ROOTINO /\ inode[k].mode # "none"
      BY <1>1, <1>3, <1>17, <3>1 DEF Relies, Made
    <3>3. inode'[f.ip].number = i /\ inode'[f.ip].mode = inode[k].mode /\ dinode'[i].mode = inode[k].mode
      BY <1>11, <1>12, <1>13, <1>17, <3>1
    <3>4. ~Named(i)'
      BY <1>2, <3>2 DEF Named
    <3>5. ~f.err
      BY <1>3, <2>1 DEF Relies, Rooted, Failed
    <3>6. Made(Head(r), Tail(r), f)'
      BY <2>1, <3>2, <3>3, <3>4 DEF Made, Makes, Named
    <3> QED BY <1>2, <1>3, <2>1, <3>5, <3>6 DEF Relies, Rooted, Searched, Ended, Failed, Deletes, Locates
  <2>2. CASE Head(r) = "idrop"
    BY <1>1, <1>2, <1>3, <1>11, <1>12, <2>2
       DEF Relies, Rooted, Searched, Made, Ended, Failed, Deletes, Locates, Makes
  <2>3. CASE Head(r) \in {"ialstale", "update1"}
    BY <1>1, <1>2, <1>3, <1>11, <1>12, <2>3
       DEF Relies, Rooted, Searched, Made, Ended, Failed, Deletes, Locates, Makes
  <2> QED BY <1>6, <2>1, <2>2, <2>3
<1>22. Relies(pc[p], ret[p], u[p])'
  BY <1>14, <1>21
<1>23. k # 1 => Kept(k)
  BY <1>1, <1>3, <1>5, <1>8, MineKept, RootSlot
<1>24. k # 1 => Kept(k)'
  <2>1. SUFFICES ASSUME k # 1 PROVE Kept(k)'
    OBVIOUS
  <2>2. Named(i)' <=> Named(i)
    BY <1>2 DEF Named
  <2>3. inode'[k].number = i
    BY <1>11, <1>12
  <2>4. One(Named(inode[k].number) \/ Making(k))' = One(Named(i) \/ Making(k))
    BY <1>20, <2>2, <2>3 DEF One, Named
  <2> QED BY <1>1, <1>11, <1>12, <1>13, <1>23, <2>1, <2>3, <2>4 DEF Kept
<1>25. EntryAllocated'
  <2>1. SUFFICES ASSUME NEW n \in Name, dir[n] # 0 PROVE dinode'[dir[n]].mode # "none"
    BY <1>2 DEF EntryAllocated
  <2>2. CASE dir[n] = i
    <3>1. Named(i) /\ k # 1
      <4>1. Named(i)
        BY <2>2 DEF Named
      <4> QED BY <1>1, <4>1 DEF Filed, Plainly, Base, Facts, RootKept
    <3>2. inode[k].mode # "none"
      BY <1>1, <1>23, <3>1 DEF Kept, One
    <3> QED BY <1>13, <2>2, <3>2
  <2>3. CASE dir[n] # i
    <3>1. dir[n] \in Ino
      BY <2>1 DEF Base, Facts, TypeOK
    <3> QED BY <1>13, <2>1, <2>3, <3>1 DEF Filed, EntryAllocated
  <2> QED BY <2>2, <2>3
<1>26. \A j : j \in {inode[k].number, inode'[k].number} => inode'[k].number = j
  BY <1>1, <1>11, <1>12
<1>27. OneName'
  BY <1>2 DEF Filed, OneName
<1>28. Plainly'
  BY <1>2, <1>1, <1>11, <1>12, OneSlots DEF Filed, Plainly, Named
<1> QED BY <1>5, <1>19, <1>20, <1>22, <1>24, <1>25, <1>26, <1>27, <1>28, FileStep

(* maknode(): an inode that ialloc() found free, for a name that has none. *)
LEMMA MaknodeFiled == ASSUME Base, Base', Filed, NEW p \in Proc, Maknode(p) PROVE Filed'
<1>1. PICK r, f, k : r = ret[p] /\ f = u[p] /\ k = f.cur
  OBVIOUS
<1>2. At(p, "maknode") /\ dinode' = dinode /\ dir' = dir
  BY DEF Maknode, disk
<1>3. Config("maknode", r, f) /\ Relies("maknode", r, f) /\ f \in Frame /\ pc[p] = "maknode" /\ r \in Seq(PC)
  BY <1>1, <1>2, HereRelies
<1>4. r = <<>> /\ f.flag \in {0, 1} /\ f.dp \in Slot
  BY <1>3 DEF Config
<1>5. CASE k = 0
  <2>1. PICK g : g = [[f EXCEPT !.dp = 0] EXCEPT !.cur = f.dp]
    OBVIOUS
  <2>2. Set(p, g) /\ Call(p, "iput", "end") /\ UNCHANGED <<inode, dinode, dir>>
    BY <1>1, <1>2, <1>5, <2>1 DEF Maknode, DropDp, Drop
  <2>3. g.dp = 0
    BY <1>3, <2>1 DEF Frame
  <2>4. ASSUME NEW t, Pushed("end", r, t) PROVE Leads("maknode", r, f, "iput", t, g)
    BY <1>4, <2>3, <2>4, EndPushed, PutLeads DEF Makes, Ends
  <2>5. "end" \in PC
    BY DEF PC
  <2> QED BY <1>1, <1>2, <2>2, <2>4, <2>5, CallLeads
<1>6. CASE k # 0
  <2>1. PICK g : g = [f EXCEPT !.ip = k, !.flag = 0]
    OBVIOUS
  <2>2. Set(p, g) /\ Enter(p, "iupdat", <<"wdir">> \o r)
        /\ inode' = [inode EXCEPT ![k] = [@ EXCEPT !.mode = "file", !.nlink = 1, !.dirty = TRUE]]
    BY <1>1, <1>6, <2>1 DEF Maknode, Call
  <2>3. k \in Slot /\ Has(p, k)
    BY <1>1, <1>3, <1>6, At_Cur DEF Has
  <2>4. inode[k].mode = "none"
    BY <1>1, <1>3, <1>6 DEF Relies, Made
  <2>5. k # 1 /\ inode[k].number # ROOTINO
    BY <2>3, <2>4, RootSlot DEF Filed, Plainly
  <2>6. Kept(k) /\ inode[k].number \in Ino /\ inode[k] \in Inode
    BY <1>3, <2>3, <2>5, MineKept, SlotWords
  <2>7. PICK i : i = inode[k].number
    OBVIOUS
  <2>8. ~Named(i) /\ i # ROOTINO /\ i # 0
    BY <2>4, <2>5, <2>6, <2>7 DEF Kept, One, Ino
  <2>9. PICK e : e = [inode[k] EXCEPT !.mode = "file", !.nlink = 1, !.dirty = TRUE]
    OBVIOUS
  <2>10. e.number = i /\ e.count = inode[k].count /\ e.mode = "file" /\ e.dirty /\ e.nlink = 1
    BY <2>6, <2>7, <2>9 DEF Inode
  <2>11. inode'[k] = e /\ \A s \in Slot \ {k} : inode'[s] = inode[s] /\ SameFile(s)
    <3>1. inode' = [inode EXCEPT ![k] = e]
      BY <2>2, <2>3, <2>9 DEF Base, Facts, TypeOK
    <3> QED BY <2>3, <3>1, OneChanged
  <2>12. PICK t : t = <<"wdir">> \o r
    OBVIOUS
  <2>13. Pushed("wdir", r, t)
    BY <1>3, <2>12, PushSeq DEF PC
  <2>14. Alone(p) /\ pc'[p] = "iupdat" /\ ret'[p] = t /\ u'[p] = g
    BY <2>2, <2>12, Moves
  <2>15. /\ g.ip = k /\ g.cur = k /\ g.flag = 0 /\ g.dp = f.dp /\ g.name = f.name /\ g.err = f.err /\ g.ino = f.ino
         /\ g.to = f.to
    BY <1>1, <1>3, <2>1, <2>3, Flags DEF Frame
  <2>16. Makes("iupdat", t) /\ Head(t) = "wdir"
    BY <2>13 DEF Makes, Pushed
  <2>17. Has(p, k)'
    <3>1. f.to = "none"
      BY <1>3 DEF Config
    <3> QED BY <2>14, <2>15, <3>1 DEF Has, Holds
  <2>18. About(p, k) /\ About(p, k)'
    BY <1>3, <2>14, <2>15 DEF About, Makes
  <2>19. Writes(p, k)
    BY <1>2, <2>3, <2>11, <2>14, <2>18 DEF Writes, Mind
  <2>20. Relies("iupdat", t, g)'
    <3>1. ~Named(i)' /\ inode'[g.ip].number = i /\ inode'[g.ip].mode = "file"
      BY <1>2, <2>8, <2>10, <2>11, <2>15 DEF Named
    <3>2. Made("iupdat", t, g)'
      BY <2>8, <2>15, <3>1 DEF Made, Makes, Named
    <3>3. dir[f.name] = 0 /\ ~f.err /\ f.dp \in {0, 1}
      BY <1>1, <1>3, <1>4, <1>6, OneSlots DEF Relies, Searched, Rooted, Failed
    <3> QED BY <1>2, <2>15, <2>16, <3>2, <3>3 DEF Relies, Rooted, Searched, Ended, Failed, Deletes, Locates
  <2>21. Relies(pc[p], ret[p], u[p])'
    BY <2>14, <2>20
  <2>22. Making(k)' /\ ~Reading(k)'
    BY <2>3, <2>14, <2>15, <2>16, <2>17, MakingNext
  <2>23. Kept(k)'
    <3>1. One(Named(inode[k].number) \/ Making(k))' = 1
      BY <2>22 DEF One
    <3> QED BY <2>10, <2>11, <3>1 DEF Kept
  <2>24. \A j : j \in {inode[k].number, inode'[k].number} => inode'[k].number = j
    BY <2>7, <2>10, <2>11
  <2>25. OneName' /\ EntryAllocated'
    BY <1>2 DEF Filed, OneName, EntryAllocated
  <2>26. Plainly'
    BY <1>2, <2>5, <2>7, <2>10, <2>11, OneSlots DEF Filed, Plainly, Named
  <2> QED BY <2>3, <2>19, <2>21, <2>22, <2>23, <2>24, <2>25, <2>26, FileStep
<1> QED BY <1>5, <1>6

(* wdir(): the inode is on the disk before its entry.                      *)
LEMMA WdirEndFiled == ASSUME Base, Base', Filed, NEW p \in Proc, WdirEnd(p) PROVE Filed'
<1>1. PICK r, f, k, i, g : /\ r = ret[p] /\ f = u[p] /\ k = f.ip /\ i = inode[k].number
                           /\ g = [[f EXCEPT !.dp = 0] EXCEPT !.cur = f.dp]
  OBVIOUS
<1>2. At(p, "wentry") /\ dinode' = dinode /\ dir' = [dir EXCEPT ![f.name] = i] /\ Set(p, g)
      /\ Enter(p, "iput", <<"grant">> \o r) /\ inode' = [inode EXCEPT ![f.dp].dirty = TRUE]
  BY <1>1 DEF WdirEnd, WriteEntry, Changed, DropDp, Drop, Call
<1>3. Config("wentry", r, f) /\ Relies("wentry", r, f) /\ f \in Frame /\ pc[p] = "wentry" /\ r \in Seq(PC)
  BY <1>1, <1>2, HereRelies
<1>4. f.dp = 1 /\ k \in Slot /\ f.to = "none" /\ f.name \in Name /\ ~f.err
  BY <1>1, <1>3, OneSlots DEF Config, Relies, Rooted, Failed
<1>5. Makes("wentry", r)
  BY DEF Makes
<1>6. f.flag = 0 /\ ~Named(i) /\ i # ROOTINO /\ inode[k].mode # "none" /\ dinode[i].mode # "none"
  BY <1>1, <1>3, <1>5 DEF Relies, Made
<1>7. dir[f.name] = 0
  BY <1>3, <1>4, <1>6 DEF Relies, Searched
<1>8. Has(p, k) /\ Has(p, 1)
  BY <1>1, <1>4 DEF Has, Holds
<1>9. Kept(k) /\ i \in Ino /\ k # 1
  BY <1>1, <1>3, <1>4, <1>6, <1>8, MineKept DEF Base, Facts, RootKept
<1>10. i # 0
  BY <1>9 DEF Ino
<1>11. /\ inode'[k] = inode[k] /\ \A s \in Slot \ {1} : inode'[s] = inode[s] /\ SameFile(s)
       /\ inode'[1].count = inode[1].count /\ inode'[1].mode = inode[1].mode
  <2>1. PICK e : e = [inode[1] EXCEPT !.dirty = TRUE]
    OBVIOUS
  <2>2. inode' = [inode EXCEPT ![1] = e]
    BY <1>2, <1>4, <2>1, OneSlots DEF Base, Facts, TypeOK
  <2>3. inode'[1] = e /\ \A s \in Slot \ {1} : inode'[s] = inode[s] /\ SameFile(s)
    BY <2>2, OneChanged, OneSlots
  <2>4. e.count = inode[1].count /\ e.mode = inode[1].mode
    BY <2>1, SlotWords, OneSlots DEF Inode
  <2> QED BY <1>4, <1>9, <2>3, <2>4
<1>12. PICK t : t = <<"grant">> \o r
  OBVIOUS
<1>13. Pushed("grant", r, t)
  BY <1>3, <1>12, PushSeq DEF PC
<1>14. Alone(p) /\ pc'[p] = "iput" /\ ret'[p] = t /\ u'[p] = g
  BY <1>2, <1>12, Moves
<1>15. g.ip = k /\ g.cur = 1 /\ g.dp = 0 /\ g.err = f.err /\ g.to = "none"
  BY <1>1, <1>3, <1>4, OneSlots DEF Frame
<1>16. Has(p, k)'
  BY <1>14, <1>15 DEF Has, Holds
<1>17. About(p, k) /\ About(p, k)'
  BY <1>1, <1>3, <1>14 DEF About, Makes
<1>18. dir'[f.name] = i /\ \A n \in Name \ {f.name} : dir'[n] = dir[n]
  BY <1>2, <1>4 DEF Base, Facts, TypeOK
<1>19. Writes(p, k)
  <2>1. inode'[k].number = inode[k].number
    BY <1>11
  <2>2. \A n \in Name : dir'[n] = dir[n] \/ {dir[n], dir'[n]} = {0, i}
    BY <1>7, <1>18
  <2>3. \A s \in Slot \ {k} : SameFile(s) \/ s = 1
    BY <1>11
  <2> QED BY <1>1, <1>2, <1>8, <1>10, <1>14, <1>17, <2>1, <2>2, <2>3 DEF Writes, Mind
<1>20. Relies("iput", t, g)'
  BY <1>4, <1>15 DEF Relies, Rooted, Searched, Made, Ended, Failed, Deletes, Locates, Makes
<1>21. Relies(pc[p], ret[p], u[p])'
  BY <1>14, <1>20
<1>22. Making(k) /\ ~Making(k)' /\ ~Reading(k)'
  BY <1>1, <1>3, <1>4, <1>5, <1>8, <1>14, <1>16, MakingMine, MakingNext DEF Makes
<1>23. Named(i)'
  BY <1>4, <1>18 DEF Named
<1>24. Kept(k)'
  <2>1. inode'[k].number = i
    BY <1>1, <1>11
  <2>2. One(Named(inode[k].number) \/ Making(k))' = 1
    BY <1>23, <2>1 DEF One, Named
  <2>3. inode[k].nlink = 1
    BY <1>9, <1>22 DEF Kept, One
  <2> QED BY <1>1, <1>2, <1>6, <1>9, <1>11, <2>1, <2>2, <2>3 DEF Kept
<1>25. \A j : j \in {inode[k].number, inode'[k].number} => inode'[k].number = j
  BY <1>11
<1>26. OneName' /\ EntryAllocated'
  <2>1. \A n \in Name : dir[n] # i
    BY <1>6 DEF Named
  <2>2. OneName'
    BY <1>18, <2>1 DEF Filed, OneName
  <2>3. EntryAllocated'
    BY <1>2, <1>6, <1>18 DEF Filed, EntryAllocated
  <2> QED BY <2>2, <2>3
<1>27. Plainly'
  <2>1. ~Named(ROOTINO)'
    BY <1>6, <1>18 DEF Filed, Plainly, Named
  <2>2. \A s \in Slot : inode'[s].count = 0 => inode'[s].number = 0
    <3>1. inode'[1].count # 0
      BY <1>11, OneSlots DEF Filed, Plainly, Base, Facts, RootKept, ROOTINO
    <3> QED BY <1>11, <3>1 DEF Filed, Plainly
  <2> QED BY <1>11, <2>1, <2>2 DEF Filed, Plainly
<1> QED BY <1>4, <1>19, <1>21, <1>22, <1>24, <1>25, <1>26, <1>27, FileStep

(* unlink(): the entry and its link go together.                           *)
LEMMA UnlinkEntryFiled == ASSUME Base, Base', Filed, NEW p \in Proc, UnlinkEntry(p) PROVE Filed'
<1>1. PICK r, f, k, i, g : /\ r = ret[p] /\ f = u[p] /\ k = f.ip /\ i = inode[k].number
                           /\ g = [[f EXCEPT !.ip = 0] EXCEPT !.cur = f.ip]
  OBVIOUS
<1>2. At(p, "uentry") /\ dinode' = dinode /\ dir' = [dir EXCEPT ![f.name] = 0] /\ Set(p, g)
      /\ Enter(p, "iput", <<"unlink3">> \o r)
      /\ inode' = [[inode EXCEPT ![f.dp].dirty = TRUE]
                   EXCEPT ![k] = [@ EXCEPT !.nlink = inode[k].nlink - 1, !.dirty = TRUE]]
  BY <1>1 DEF UnlinkEntry, WriteEntry, Changed, DropIp, Drop, Call
<1>3. Config("uentry", r, f) /\ Relies("uentry", r, f) /\ f \in Frame /\ pc[p] = "uentry" /\ r \in Seq(PC)
  BY <1>1, <1>2, HereRelies
<1>4. f.dp = 1 /\ k \in Slot /\ f.to = "none" /\ f.name \in Name /\ ~f.err
  BY <1>1, <1>3, OneSlots DEF Config, Relies, Rooted, Failed
<1>5. Has(p, k) /\ Has(p, 1)
  BY <1>1, <1>4 DEF Has, Holds
<1>6. dir[f.name] = i
  BY <1>1, <1>3 DEF Relies, Searched
<1>7. Named(i) /\ i # ROOTINO /\ k # 1
  <2>1. Named(i)
    BY <1>4, <1>6 DEF Named
  <2> QED BY <1>1, <2>1 DEF Filed, Plainly, Base, Facts, RootKept
<1>8. Kept(k) /\ i \in Ino /\ inode[k] \in Inode
  BY <1>1, <1>3, <1>4, <1>5, <1>7, MineKept, SlotWords
<1>9. i # 0 /\ inode[k].nlink = 1
  BY <1>1, <1>7, <1>8 DEF Ino, Kept, One
<1>10. /\ inode'[k].number = i /\ inode'[k].nlink = 0 /\ inode'[k].dirty /\ inode'[k].count = inode[k].count
       /\ \A s \in Slot \ {1, k} : inode'[s] = inode[s] /\ SameFile(s)
       /\ inode'[1].count = inode[1].count /\ inode'[1].mode = inode[1].mode
  <2>1. PICK e, d : e = [inode[k] EXCEPT !.nlink = inode[k].nlink - 1, !.dirty = TRUE] /\ d = [inode[1] EXCEPT !.dirty = TRUE]
    OBVIOUS
  <2>2. inode \in [Slot -> Inode] /\ 1 \in Slot
    BY OneSlots DEF Base, Facts, TypeOK
  <2>3. inode'[k] = e /\ inode'[1] = d /\ \A s \in Slot \ {1, k} : inode'[s] = inode[s]
    BY <1>2, <1>4, <1>7, <2>1, <2>2
  <2>4. e.number = i /\ e.nlink = 0 /\ e.dirty /\ e.count = inode[k].count
    BY <1>1, <1>8, <1>9, <2>1 DEF Inode
  <2>5. d.count = inode[1].count /\ d.mode = inode[1].mode
    BY <2>1, <2>2 DEF Inode
  <2> QED BY <2>3, <2>4, <2>5 DEF SameFile
<1>11. PICK t : t = <<"unlink3">> \o r
  OBVIOUS
<1>12. Pushed("unlink3", r, t) /\ r = <<>>
  BY <1>3, <1>11, PushSeq DEF PC, Config
<1>13. Alone(p) /\ pc'[p] = "iput" /\ ret'[p] = t /\ u'[p] = g
  BY <1>2, <1>11, Moves
<1>14. g.cur = k /\ g.dp = 1 /\ g.err = f.err /\ g.name = f.name
  BY <1>1, <1>3, <1>4, OneSlots DEF Frame
<1>15. Has(p, k)'
  BY <1>13, <1>14 DEF Has, Holds
<1>16. About(p, k) /\ About(p, k)'
  BY <1>1, <1>3, <1>13 DEF About, Makes
<1>17. dir'[f.name] = 0 /\ \A n \in Name \ {f.name} : dir'[n] = dir[n]
  BY <1>2, <1>4 DEF Base, Facts, TypeOK
<1>18. Writes(p, k)
  <2>1. inode'[k].number = inode[k].number
    BY <1>1, <1>10
  <2>2. \A n \in Name : dir'[n] = dir[n] \/ {dir[n], dir'[n]} = {0, i}
    BY <1>6, <1>17
  <2>3. \A s \in Slot \ {k} : SameFile(s) \/ s = 1
    BY <1>10
  <2> QED BY <1>1, <1>2, <1>5, <1>9, <1>13, <1>16, <2>1, <2>2, <2>3 DEF Writes, Mind
<1>19. Relies("iput", t, g)'
  BY <1>4, <1>14, <1>17 DEF Relies, Rooted, Searched, Made, Ended, Failed, Deletes, Locates, Makes
<1>20. Relies(pc[p], ret[p], u[p])'
  BY <1>13, <1>19
<1>21. ~Making(k)' /\ ~Reading(k)'
  BY <1>4, <1>13, <1>15, MakingNext DEF Makes
<1>22. ~Named(i)'
  <2>1. \A n \in Name : dir[n] = i => n = f.name
    BY <1>4, <1>6, <1>9 DEF Filed, OneName
  <2> QED BY <1>9, <1>17, <2>1 DEF Named
<1>23. Kept(k)'
  <2>1. One(Named(inode[k].number) \/ Making(k))' = 0
    BY <1>10, <1>21, <1>22 DEF One, Named
  <2> QED BY <1>10, <2>1 DEF Kept
<1>24. \A j : j \in {inode[k].number, inode'[k].number} => inode'[k].number = j
  BY <1>1, <1>10
<1>25. OneName' /\ EntryAllocated'
  BY <1>2, <1>17 DEF Filed, OneName, EntryAllocated
<1>26. Plainly'
  <2>1. ~Named(ROOTINO)'
    BY <1>17 DEF Filed, Plainly, Named, ROOTINO
  <2>2. ASSUME NEW s \in Slot, inode'[s].count = 0 PROVE inode'[s].number = 0
    <3>1. inode[s].count = 0
      BY <1>10, <2>2
    <3>2. inode[s].number = 0
      BY <3>1 DEF Filed, Plainly
    <3>3. s # k /\ s # 1
      BY <1>1, <1>9, <3>2 DEF Base, Facts, RootKept, ROOTINO
    <3> QED BY <1>10, <3>2, <3>3
  <2> QED BY <1>10, <2>1, <2>2 DEF Filed, Plainly
<1> QED BY <1>4, <1>18, <1>20, <1>21, <1>23, <1>24, <1>25, <1>26, FileStep
-----------------------------------------------------------------------------
(* Every step keeps Filed, if no call is pipe() or link() and no read of   *)
(* the disk fails.                                                         *)
LEMMA NoLink ==
  ASSUME Base, NEW p \in Proc
  PROVE  ~At(p, "link1") /\ ~At(p, "link2") /\ ~At(p, "lentry") /\ ~At(p, "linked") /\ ~At(p, "linkout")
<1>1. \A l : At(p, l) => Config(l, ret[p], u[p])
  BY HeldIs DEF Base
<1>2. ~Config("link1", ret[p], u[p]) /\ ~Config("link2", ret[p], u[p]) /\ ~Config("lentry", ret[p], u[p])
      /\ ~Config("linked", ret[p], u[p]) /\ ~Config("linkout", ret[p], u[p])
  BY DEF Config, Base
<1> QED BY <1>1, <1>2

LEMMA NoPipe ==
  ASSUME Base, NEW p \in Proc
  PROVE  ~Pipe(p) /\ ~At(p, "pipe")
<1>1. ~ByName => FALSE
  BY DEF Base, ByName
<1>2. At(p, "pipe") => Config("pipe", ret[p], u[p])
  BY HeldIs DEF Base
<1>3. ~Config("pipe", ret[p], u[p])
  BY <1>1 DEF Config
<1> QED BY <1>2, <1>3 DEF Base, Pipe, Begin

LEMMA SameFiled == ASSUME Filed, UNCHANGED vars PROVE Filed'
<1>1. UNCHANGED <<inode, dinode, dir, pc, ret, u>>
  BY DEF vars
<1>2. Reliable'
  BY <1>1 DEF Filed, Reliable, Relies, Rooted, Searched, Made, Ended, Named
<1>3. InTable' /\ OnDisk'
  <2>1. \A s : (Reading(s)' <=> Reading(s)) /\ (Making(s)' <=> Making(s))
    BY <1>1 DEF Reading, Making
  <2>2. \A i : Named(i)' <=> Named(i)
    BY <1>1 DEF Named
  <2>3. \A s : Kept(s)' <=> Kept(s)
    BY <1>1, <2>1, <2>2 DEF Kept, One
  <2>4. \A i : Stored(i)' <=> Stored(i)
    BY <1>1, <2>2 DEF Stored, One
  <2>5. InTable'
    BY <1>1, <2>1, <2>3 DEF Filed, InTable
  <2>6. OnDisk'
    BY <1>1, <2>1, <2>4 DEF Filed, OnDisk
  <2> QED BY <2>5, <2>6
<1>4. OneName' /\ Plainly' /\ EntryAllocated'
  BY <1>1 DEF Filed, OneName, Plainly, EntryAllocated, Named
<1> QED BY <1>2, <1>3, <1>4 DEF Filed

LEMMA StepFiled ==
  ASSUME MaxFaults = 0
  PROVE  Base /\ Base' /\ Filed /\ [Next]_vars => Filed'
<1> SUFFICES ASSUME Base, Base', Filed, Next PROVE Filed'
  BY SameFiled
<1>1. PICK p \in Proc : Enters(p) \/ Kernel(p)
  BY DEF Next
<1>2. ~Pipe(p) /\ ~PipeMade(p) /\ ~PipeFails(p)
  BY NoPipe DEF PipeMade, PipeFails
<1>3. ~Link1(p) /\ ~Link2(p) /\ ~LinkEntry(p) /\ ~Linked(p) /\ ~LinkOut(p)
  BY NoLink DEF Link1, Link2, LinkEntry, Linked, LinkOut
<1>4. CASE Enters(p)
  BY <1>2, <1>4, EntersFiled
<1>5. CASE Inodes(p)
  BY <1>5, IgetWaitFiled, IgetFoundFiled, IgetFullFiled, IgetReadFiled, IreadFiled, PlockFiled, IputSharedFiled,
     IputLastFiled, IfreeFiled, IdropFiled, IupdatFiled DEF Inodes
<1>6. CASE Allocation(p)
  BY <1>6, IallocFiled, IallocTakeFiled, IallocGotFiled, IallocStaleFiled, IallocSearchFiled, IscanFiled,
     IscanEndFiled DEF Allocation
<1>7. CASE Names(p)
  BY <1>7, NameiFiled, LookupFiled, SearchFiled, ChildFiled DEF Names
<1>8. CASE Opening(p)
  BY <1>8, OpenedFiled, TruncFiled, TruncatedFiled, GrantFiled, DenyFiled, MaknodeFiled, WdirFiled, WdirEndFiled
     DEF Opening
<1>9. CASE Linking(p)
  BY <1>3, <1>9, Unlink1Filed, Unlink2Filed, UnlinkEntryFiled, UnlinkEndFiled DEF Linking
<1>10. CASE Using(p)
  BY <1>2, <1>10, Close1Filed, Rdwr1Filed, RdwrEndFiled, UpdateFiled, Update1Filed DEF Using
<1>11. CASE End(p)
  BY <1>11, EndFiled
<1> QED BY <1>1, <1>4, <1>5, <1>6, <1>7, <1>8, <1>9, <1>10, <1>11 DEF Kernel

LEMMA InitFiled == Init => Filed
<1> SUFFICES ASSUME Init PROVE Filed
  OBVIOUS
<1>1. 1 \in Slot /\ ROOTINO \in Ino /\ 0 \notin Ino
  BY SizeAssumption DEF Slot, Ino, ROOTINO
<1>2. \A n \in Name : dir[n] = 0
  BY DEF Init
<1>3. \A i \in Ino : ~Named(i)
  BY <1>1, <1>2 DEF Named
<1>4. Reliable
  <2>1. ASSUME NEW p \in Proc PROVE Relies(pc[p], ret[p], u[p])
    <3>1. pc[p] = "idle" /\ ret[p] = <<>> /\ u[p] = NoCall
      BY InitIdle
    <3>2. NoCall.dp = 0 /\ ~NoCall.err
      BY DEF NoCall
    <3>3. Rooted("idle", <<>>, NoCall)
      BY <3>2 DEF Rooted
    <3>4. Searched("idle", <<>>, NoCall)
      BY <3>2 DEF Searched, Deletes, Locates
    <3>5. Made("idle", <<>>, NoCall) /\ Ended("idle", <<>>, NoCall)
      BY DEF Made, Makes, Ended
    <3> QED BY <3>1, <3>3, <3>4, <3>5 DEF Relies
  <2> QED BY <2>1 DEF Reliable
<1>5. InTable
  BY InitTable DEF InTable
<1>6. OnDisk
  <2>1. ASSUME NEW i \in Ino \ {ROOTINO} PROVE Stored(i)
    <3>1. dinode[i] = [mode |-> "none", nlink |-> 0]
      BY DEF Init
    <3> QED BY <1>3, <3>1 DEF Stored, One
  <2> QED BY <2>1 DEF OnDisk
<1>7. OneName /\ EntryAllocated
  BY <1>2 DEF OneName, EntryAllocated
<1>8. Plainly
  <2>1. inode[1].mode = "dir"
    BY <1>1 DEF Init
  <2>2. \A s \in Slot : inode[s].count = 0 => inode[s].number = 0
    BY InitTable DEF One
  <2> QED BY <1>1, <1>3, <2>1, <2>2 DEF Plainly
<1> QED BY <1>4, <1>5, <1>6, <1>7, <1>8 DEF Filed

(* The names of a file, counted.                                           *)
LEMMA LinksIs == ASSUME OneName, NEW i \in Ino PROVE Links(i) = One(Named(i))
<1>1. CASE ~Named(i)
  <2>1. {n \in Name : dir[n] = i} = {}
    BY <1>1 DEF Named
  <2> QED BY <1>1, <2>1, FS_EmptySet DEF Links, One
<1>2. CASE Named(i)
  <2>1. PICK n \in Name : dir[n] = i
    BY <1>2 DEF Named
  <2>2. i # 0
    BY SizeAssumption DEF Ino
  <2>3. {m \in Name : dir[m] = i} = {n}
    BY <2>1, <2>2 DEF OneName
  <2> QED BY <1>2, <2>3, FS_Singleton DEF Links, One
<1> QED BY <1>1, <1>2

LEMMA FiledConsistent == ASSUME Base, Filed PROVE FilesConsistent
<1>1. SUFFICES ASSUME \A p \in Proc : pc[p] = "idle", NEW i \in Ino \ {ROOTINO}
               PROVE  /\ \A s \in Holding(i) :
                           /\ inode[s].nlink = Links(i)
                           /\ ~inode[s].dirty =>
                                dinode[i] = [mode |-> inode[s].mode, nlink |-> inode[s].nlink]
                      /\ Holding(i) = {} => /\ dinode[i].nlink = Links(i)
                                            /\ dinode[i].mode = "none" <=> Links(i) = 0
  BY DEF FilesConsistent
<1>2. Links(i) = One(Named(i)) /\ (Links(i) = 0 <=> ~Named(i))
  BY LinksIs DEF Filed, One
<1>3. \A s : ~Reading(s) /\ ~Making(s)
  BY <1>1 DEF Reading, Making, Makes
<1>4. ASSUME NEW s \in Holding(i)
      PROVE  inode[s].nlink = Links(i)
             /\ (~inode[s].dirty => dinode[i] = [mode |-> inode[s].mode, nlink |-> inode[s].nlink])
  <2>1. s \in Slot /\ inode[s].number = i /\ i \notin {0, ROOTINO}
    BY SizeAssumption DEF Holding, Ino
  <2>2. Kept(s)
    BY <1>3, <2>1 DEF Filed, InTable
  <2>3. Named(inode[s].number) \/ Making(s) <=> Named(i)
    BY <1>3, <2>1
  <2> QED BY <1>2, <2>1, <2>2, <2>3 DEF Kept, One
<1>5. ASSUME Holding(i) = {} PROVE dinode[i].nlink = Links(i) /\ (dinode[i].mode = "none" <=> Links(i) = 0)
  <2>1. \A s \in Slot : inode[s].number # i
    BY <1>5 DEF Holding
  <2>2. Stored(i)
    BY <2>1 DEF Filed, OnDisk
  <2> QED BY <1>2, <2>2 DEF Stored
<1> QED BY <1>4, <1>5

(* Only iupdat writes an inode to the disk, and it writes no entry.        *)
LEMMA DiskOrEntry == [Next]_vars => dinode' = dinode \/ dir' = dir
<1> SUFFICES ASSUME Next, dinode' # dinode PROVE dir' = dir
  BY DEF vars
<1>1. PICK p \in Proc : Enters(p) \/ Kernel(p)
  BY DEF Next
<1>2. ~Enters(p) /\ ~End(p)
  BY DEF Enters, Open, Creat, Link, Unlink, Pipe, Close, Rdwr, Sync, Begin, End, disk
<1>3. ~Allocation(p) /\ ~Names(p)
  BY DEF Allocation, Ialloc, IallocTake, IallocGot, IallocStale, IallocSearch, Iscan, IscanEnd, Names, Namei, Lookup,
     Search, Child, Bread, disk
<1>4. ~Opening(p)
  BY DEF Opening, Opened, Trunc, Truncated, Grant, Deny, Maknode, Wdir, WdirEnd, WriteEntry, disk
<1>5. ~Linking(p)
  BY DEF Linking, Link1, Link2, LinkEntry, Linked, LinkOut, Unlink1, Unlink2, UnlinkEntry, UnlinkEnd,
     WriteEntry, disk
<1>6. ~Using(p)
  BY DEF Using, PipeMade, PipeFails, Close1, Rdwr1, RdwrEnd, Update, Update1, disk
<1>7. Inodes(p)
  BY <1>1, <1>2, <1>3, <1>4, <1>5, <1>6 DEF Kernel
<1>8. Iupdat(p)
  BY <1>7 DEF Inodes, IgetWait, IgetFound, IgetFull, IgetRead, Iread, Plock, IputShared, IputLast, Ifree, Idrop,
     Bread, disk
<1> QED BY <1>8 DEF Iupdat

LEMMA FreedHasNone ==
  ASSUME EntryAllocated', [Next]_vars, NEW i \in Ino, dinode[i].mode # "none", dinode'[i].mode = "none"
  PROVE  Links(i) = 0
<1>1. dir' = dir
  BY DiskOrEntry
<1>2. i # 0
  BY SizeAssumption DEF Ino
<1>3. {n \in Name : dir[n] = i} = {}
  BY <1>1, <1>2 DEF EntryAllocated
<1> QED BY <1>3, FS_EmptySet DEF Links

(* The premises of the three theorems, and their inductive invariant.      *)
Filing == "pipe" \notin Calls /\ "link" \notin Calls /\ MaxFaults = 0
FiledInv == Inv /\ Facts /\ Fresh /\ Locked /\ Filed

LEMMA FiledBase == ASSUME Filing, FiledInv PROVE Base
BY DEF Filing, FiledInv, Base, Inv, Distinct, UniqueInode

LEMMA InitFiledInv == Init => FiledInv
BY InitInv, InitFacts, InitFresh, InitLocked, InitFiled DEF FiledInv

LEMMA StepFiledInv == ASSUME Filing PROVE FiledInv /\ [Next]_vars => FiledInv'
<1> SUFFICES ASSUME FiledInv, [Next]_vars PROVE FiledInv'
  OBVIOUS
<1>1. Inv' /\ Facts' /\ Fresh' /\ Locked'
  BY StepInv, StepFacts, StepLocked DEF FiledInv, Filing, PipesApart, ByName
<1>2. UniqueInode'
  BY <1>1 DEF Inv, Distinct, UniqueInode
<1>3. Base /\ Base'
  BY <1>1, <1>2, FiledBase DEF Filing, Base
<1>4. Filed'
  BY <1>3, StepFiled DEF FiledInv, Filing
<1> QED BY <1>1, <1>4 DEF FiledInv

(* On the disk, a directory entry never names a free inode, however calls  *)
(* other than pipe() and link() interleave where they wait, when no read   *)
(* of the i-list fails: maknode writes the inode before wdir enters its    *)
(* number, iput frees it only when its last name is gone, and ialloc takes *)
(* no inode that has a name (iget.c, maknode, wdir and iput; alloc.c,      *)
(* ialloc; sys4.c, unlink).                                                *)
THEOREM EntryCorrect ==
  "pipe" \notin Calls /\ "link" \notin Calls /\ MaxFaults = 0 => (Spec => []EntryAllocated)
<1> SUFFICES ASSUME Filing PROVE Spec => []EntryAllocated
  BY DEF Filing
<1>1. FiledInv => EntryAllocated
  BY DEF FiledInv, Filed
<1>2. FiledInv /\ [Next]_vars => FiledInv'
  BY StepFiledInv
<1> QED BY <1>1, <1>2, InitFiledInv, PTL DEF Spec

(* When no system call is under way, under the same premises: the link     *)
(* count of every file is the number of its entries, a file that nobody    *)
(* names or uses is free on the disk, and the disk has every inode that is *)
(* not marked changed (iget.c, iput and iupdat; sys2.c; sys4.c).           *)
THEOREM FilesCorrect ==
  "pipe" \notin Calls /\ "link" \notin Calls /\ MaxFaults = 0 => (Spec => []FilesConsistent)
<1> SUFFICES ASSUME Filing PROVE Spec => []FilesConsistent
  BY DEF Filing
<1>1. FiledInv => FilesConsistent
  BY FiledBase, FiledConsistent DEF FiledInv
<1>2. FiledInv /\ [Next]_vars => FiledInv'
  BY StepFiledInv
<1> QED BY <1>1, <1>2, InitFiledInv, PTL DEF Spec

(* An inode is freed on the disk only when no entry names it, under the    *)
(* same premises: iput looks at i_nlink once and then waits, in itrunc and *)
(* in iupdat, and nobody gives the file a name meanwhile (iget.c, iput).   *)
THEOREM FreedCorrect ==
  "pipe" \notin Calls /\ "link" \notin Calls /\ MaxFaults = 0 => (Spec => FreedUnlinked)
<1> SUFFICES ASSUME Filing PROVE Spec => FreedUnlinked
  BY DEF Filing
<1>1. FiledInv /\ [Next]_vars => FiledInv'
  BY StepFiledInv
<1>2. FiledInv' /\ [Next]_vars =>
        [\A i \in Ino : dinode[i].mode # "none" /\ dinode'[i].mode = "none" => Links(i) = 0]_vars
  BY FreedHasNone DEF FiledInv, Filed
<1> QED BY <1>1, <1>2, InitFiledInv, PTL DEF Spec, FreedUnlinked
=============================================================================
