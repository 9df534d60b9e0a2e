-------------------------- MODULE InodeControlProof --------------------------
(***************************************************************************)
(* The control of the system calls that use the inode table, for any       *)
(* number of processes, entries, inodes and names: which callers a routine *)
(* may return to, and what the registers of a process hold at each label.  *)
(* A lemma XShift says of a step that it leads to another such place and   *)
(* neither takes nor gives up a reference or a lock (XShifts: for every    *)
(* process). pipe() is not called together with names: it stores i_count   *)
(* and i_flag of an inode that others may then already have.               *)
(***************************************************************************)
EXTENDS InodeTable, TLAPS

(* The calls by name, and pipe(), are made in different systems.           *)
ByName == "pipe" \notin Calls
PipesApart == ByName \/ Calls \cap {"open", "creat", "link", "unlink"} = {}

(* Where each routine returns to, and what the registers hold there.       *)
NameiOf(n, f) ==
  /\ ByName /\ f.name \in Name
  /\ \/ n = <<"opened">> /\ f.flag \in {0, 1} /\ f.ip = 0 /\ f.to = "none"
     \/ n = <<"link1">> /\ "link" \in Calls /\ f.flag = 0 /\ f.ip = 0 /\ f.to \in Name
     \/ n = <<"link2">> /\ "link" \in Calls /\ f.flag = 1 /\ f.ip \in Slot /\ f.to \in Name
     \/ n = <<"unlink1">> /\ f.flag = 2 /\ f.ip = 0 /\ f.to = "none"
IallocOf(a, f) ==
  \/ a = <<"maknode">> /\ ByName /\ f.flag \in {0, 1} /\ f.dp \in Slot /\ f.ip = 0 /\ f.to = "none" /\ f.name \in Name
  \/ a = <<"pipe">> /\ ~ByName /\ f.dp = 0 /\ f.ip = 0
Unlinking(f) == ByName /\ f.dp \in Slot /\ f.ip = 0 /\ f.to = "none" /\ f.name \in Name
IgetOf(r, f) ==
  /\ r # <<>> /\ f.ino \in Ino
  /\ \/ Head(r) = "lookup" /\ NameiOf(Tail(r), f) /\ f.dp = 0 /\ f.ino = ROOTINO
     \/ NameiOf(r, f) /\ f.dp = 0 /\ f.flag # 2
     \/ Head(r) = "ialgot" /\ IallocOf(Tail(r), f)
     \/ r = <<"unlink2">> /\ Unlinking(f)
IputOf(r, f) ==
  /\ r # <<>>
  /\ \/ NameiOf(r, f) /\ f.dp = 0
     \/ Head(r) = "child" /\ NameiOf(Tail(r), f) /\ f.dp = 0 /\ f.flag # 2 /\ f.ino \in Ino
     \/ Head(r) \in {"ialgot", "ialloop"} /\ IallocOf(Tail(r), f)
     \/ r \in {<<"unlink2">>, <<"unlink3">>} /\ Unlinking(f)
     \/ r = <<"end">> /\ f.dp = 0 /\ f.ip = 0
     \/ r = <<"grant">> /\ ByName /\ f.dp = 0 /\ f.ip \in Slot /\ f.to = "none"
     \/ r \in {<<"linked">>, <<"linkout">>} /\ "link" \in Calls /\ f.dp = 0 /\ f.ip \in Slot /\ f.to \in Name
     \/ Head(r) = "update" /\ Tail(r) = <<"end">> /\ f.dp = 0 /\ f.ip = 0
IupdatOf(r, f) ==
  /\ r # <<>>
  /\ \/ Head(r) = "idrop" /\ IputOf(Tail(r), f)
     \/ Head(r) = "ialstale" /\ IallocOf(Tail(r), f)
     \/ r = <<"wdir">> /\ ByName /\ f.dp \in Slot /\ f.ip \in Slot /\ f.cur = f.ip /\ f.to = "none" /\ f.name \in Name
     \/ Head(r) = "update1" /\ Tail(r) = <<"end">> /\ f.dp = 0 /\ f.ip = 0
     \/ r = <<"end">> /\ ~ByName /\ f.dp = 0 /\ f.ip = 0

(* A process at l, with the stack r and the registers f.                   *)
Config(l, r, f) ==
  \/ l = "idle" /\ r = <<>> /\ f = NoCall
  \/ l = "end" /\ r = <<>> /\ f.dp = 0 /\ f.ip = 0
  \/ l = "namei" /\ NameiOf(r, f) /\ f.cur = 0 /\ f.dp = 0
  \/ l = "lookup" /\ NameiOf(r, f) /\ f.cur \in Slot /\ f.dp = 0
  \/ l = "search" /\ NameiOf(r, f) /\ f.cur = 0 /\ f.dp \in Slot
  \/ l = "child" /\ NameiOf(r, f) /\ f.cur = 0 /\ f.dp = 0 /\ f.flag # 2 /\ f.ino \in Ino
  \/ l = "iget" /\ IgetOf(r, f) /\ f.cur = 0
  \/ l = "iread" /\ IgetOf(r, f) /\ f.cur \in Slot /\ Head(r) # "lookup"
  \/ l \in {"iput", "itrunc", "ifree", "idrop"} /\ IputOf(r, f) /\ f.cur \in Slot
  \/ l = "iupdat" /\ IupdatOf(r, f) /\ f.cur \in Slot
  \/ l \in {"ialloc", "ialloop", "iscan", "iscanned"} /\ IallocOf(r, f) /\ f.cur = 0
  \/ l = "ialgot" /\ IallocOf(r, f)
  \/ l = "ialstale" /\ IallocOf(r, f) /\ f.cur \in Slot
  \/ l = "plock" /\ r \in {<<"close1">>, <<"rdwr1">>} /\ f.cur \in Slot /\ f.dp = 0 /\ f.ip = 0
  \/ l \in {"close1", "rdwr1", "rdwr"} /\ r = <<>> /\ f.cur \in Slot /\ f.dp = 0 /\ f.ip = 0
  \/ l = "update" /\ r = <<"end">> /\ f.cur = 0 /\ f.dp = 0 /\ f.ip = 0
  \/ l = "update1" /\ r = <<"end">> /\ f.cur \in Slot /\ f.dp = 0 /\ f.ip = 0
  \/ l = "opened" /\ r = <<>> /\ ByName /\ f.flag \in {0, 1} /\ (f.cur = 0 \/ f.dp = 0) /\ f.ip = 0 /\ f.to = "none"
     /\ f.name \in Name
  \/ l = "maknode" /\ r = <<>> /\ ByName /\ f.flag \in {0, 1} /\ f.dp \in Slot /\ f.ip = 0 /\ f.to = "none" /\ f.name \in Name
  \/ l = "wdir" /\ r = <<>> /\ ByName /\ f.dp \in Slot /\ f.ip \in Slot /\ f.cur = f.ip /\ f.to = "none" /\ f.name \in Name
  \/ l = "wentry" /\ r = <<>> /\ ByName /\ f.dp \in Slot /\ f.ip \in Slot /\ f.cur = 0 /\ f.to = "none" /\ f.name \in Name
  \/ l \in {"grant", "granted", "trunc"} /\ r = <<>> /\ ByName /\ f.dp = 0 /\ f.ip \in Slot /\ f.cur = 0 /\ f.to = "none"
  \/ l = "link1" /\ r = <<>> /\ ByName /\ "link" \in Calls /\ f.dp = 0 /\ f.ip = 0 /\ f.to \in Name
  \/ l = "link2" /\ r = <<>> /\ "link" \in Calls /\ (f.cur = 0 \/ f.dp = 0) /\ f.ip \in Slot /\ f.to \in Name
     /\ f.name \in Name
  \/ l = "lentry" /\ r = <<>> /\ "link" \in Calls /\ f.cur = 0 /\ f.dp \in Slot /\ f.ip \in Slot /\ f.to \in Name
     /\ f.name \in Name
  \/ l \in {"linked", "linkout"} /\ r = <<>> /\ "link" \in Calls /\ f.cur = 0 /\ f.dp = 0 /\ f.ip \in Slot
     /\ f.to \in Name
  \/ l = "unlink1" /\ r = <<>> /\ ByName /\ f.cur = 0 /\ f.ip = 0 /\ f.to = "none" /\ f.name \in Name
     /\ (f.dp # 0 => f.ino \in Ino)
  \/ l = "unlink2" /\ r = <<>> /\ Unlinking(f)
  \/ l = "uentry" /\ r = <<>> /\ ByName /\ f.cur = 0 /\ f.dp \in Slot /\ f.ip \in Slot /\ f.to = "none" /\ f.name \in Name
  \/ l = "unlink3" /\ r = <<>> /\ ByName /\ f.cur = 0 /\ f.dp \in Slot /\ f.ip = 0 /\ f.to = "none"
  \/ l = "pipe" /\ r = <<>> /\ ~ByName /\ f.dp = 0 /\ f.ip = 0
Controlled == \A p \in Proc : Config(pc[p], ret[p], u[p])

RootKept == inode[1].number = ROOTINO
(* An entry in use has an inode; a locked one is in use.                   *)
Numbered == \A s \in Slot : inode[s].count # 0 => inode[s].number # 0
LockUsed == \A s \in Slot : inode[s].lock => inode[s].count # 0
(* From the decision of iput that it has the last reference to the end, it *)
(* has the last reference and the lock.                                    *)
Finishing(p) == pc[p] \in {"itrunc", "ifree", "idrop"} \/ (pc[p] = "iupdat" /\ Head(ret[p]) = "idrop")
LastKept == \A p \in Proc : Finishing(p) => inode[u[p].cur].count = 1 /\ inode[u[p].cur].lock
(* close, read and write use the reference of an open file.                *)
CopyKept == \A p \in Proc : pc[p] \in {"plock", "close1", "rdwr1", "rdwr"} => file[p][u[p].cur] > 0

(* What the registers of a process at l, with the stack r, refer to, and   *)
(* the locks it counts on.                                                 *)
Owns(l, r) ==
  /\ l \notin {"plock", "close1", "rdwr1", "rdwr", "wdir", "end"}
  /\ ~(l = "iupdat" /\ Head(r) \in {"end", "wdir"})
One(P) == IF P THEN 1 ELSE 0
Weight(l, r, f, s) == One(f.dp = s) + One(f.ip = s) + One(f.cur = s /\ Owns(l, r))
Holds(l, r, f, s) ==
  \/ f.dp = s
  \/ f.ip = s /\ f.to = "none"
  \/ f.cur = s /\ l \notin {"plock", "end"} /\ ~(l = "iupdat" /\ r = <<"end">>)
Last(l, r) == l \in {"itrunc", "ifree", "idrop"} \/ (l = "iupdat" /\ Head(r) = "idrop")
Copies(l) == l \in {"plock", "close1", "rdwr1", "rdwr"}

(* A step that moves references between registers: it gets none and gives  *)
(* none up.                                                                *)
Shift(l, r, f, m, t, g) ==
  /\ Config(m, t, g)
  /\ \A s \in Slot : Weight(m, t, g, s) = Weight(l, r, f, s)
  /\ "link" \notin Calls => \A s \in Slot : Holds(m, t, g, s) <=> Holds(l, r, f, s)
  /\ Last(m, t) => Last(l, r) /\ g.cur = f.cur

LEMMA PushPop ==
  ASSUME NEW x \in PC, NEW r \in Seq(PC)
  PROVE  /\ <<x>> \o r \in Seq(PC) /\ <<x>> \o r # <<>>
         /\ Head(<<x>> \o r) = x /\ Tail(<<x>> \o r) = r
OBVIOUS

LEMMA Short ==
  /\ \A x : <<x>> # <<>> /\ Head(<<x>>) = x /\ Tail(<<x>>) = <<>>
  /\ \A x, y : <<x, y>> # <<>> /\ Head(<<x, y>>) = x /\ Tail(<<x, y>>) = <<y>>
  /\ \A x, y : <<x>> = <<y>> => x = y
  /\ \A x, y, z : <<x, y>> # <<z>>
OBVIOUS

LEMMA Registers ==
  ASSUME NEW f \in Frame
  PROVE  /\ f.name \in Name \cup {"none"} /\ f.to \in Name \cup {"none"} /\ f.flag \in 0..2
         /\ f.ino \in Ino \cup {0} /\ f.cur \in Slot \cup {0} /\ f.dp \in Slot \cup {0}
         /\ f.ip \in Slot \cup {0} /\ f.scan \in Nat /\ f.err \in BOOLEAN
BY DEF Frame

LEMMA SetCur ==
  ASSUME NEW f \in Frame, NEW s \in Slot \cup {0}
  PROVE  LET g == [f EXCEPT !.cur = s] IN
         /\ g \in Frame /\ g.cur = s /\ g.name = f.name /\ g.to = f.to /\ g.flag = f.flag /\ g.ino = f.ino
         /\ g.dp = f.dp /\ g.ip = f.ip
BY DEF Frame

(* Registers that differ in cur, scan and err only.                        *)
Alike(f, g) ==
  /\ f \in Frame /\ g \in Frame
  /\ g.name = f.name /\ g.to = f.to /\ g.flag = f.flag /\ g.ino = f.ino /\ g.dp = f.dp /\ g.ip = f.ip

Plain(l) == ~Copies(l) /\ l \notin {"wdir", "end", "iupdat", "iput", "itrunc", "ifree", "idrop"}

(* What namei, iget, iput, iupdat and ialloc return to.                    *)
LEMMA NameiReturns ==
  ASSUME NEW r, NEW g \in Frame, NameiOf(r, g), g.cur = 0 \/ g.dp = 0,
         g.flag = 2 => g.cur = 0 /\ (g.dp # 0 => g.ino \in Ino), g.flag = 0 => g.dp = 0
  PROVE  Config(Head(r), Tail(r), g) /\ Plain(Head(r))
<1>1. CASE r = <<"opened">>
  BY <1>1, Short DEF Plain, Copies, Config, NameiOf
<1>2. CASE r = <<"link1">>
  BY <1>2, Short DEF Plain, Copies, Config, NameiOf
<1>3. CASE r = <<"link2">>
  BY <1>3, Short DEF Plain, Copies, Config, NameiOf
<1>4. CASE r = <<"unlink1">>
  BY <1>4, Short DEF Plain, Copies, Config, NameiOf
<1> QED BY <1>1, <1>2, <1>3, <1>4 DEF NameiOf

LEMMA IallocReturns ==
  ASSUME NEW r, NEW f, NEW g, IallocOf(r, f), Alike(f, g)
  PROVE  Config(Head(r), Tail(r), g) /\ Plain(Head(r)) /\ r # <<>> /\ Head(r) \in {"maknode", "pipe"}
<1>1. CASE r = <<"maknode">> /\ ByName /\ f.flag \in {0, 1} /\ f.dp \in Slot /\ f.ip = 0 /\ f.to = "none" /\ f.name \in Name
  BY <1>1, Short DEF Plain, Copies, Config, Alike
<1>2. CASE r = <<"pipe">> /\ ~ByName /\ f.dp = 0 /\ f.ip = 0
  BY <1>2, Short DEF Plain, Copies, Config, Alike
<1> QED BY <1>1, <1>2 DEF IallocOf

LEMMA IallocKept ==
  ASSUME NEW r, NEW f, NEW g, IallocOf(r, f), g.name = f.name, g.to = f.to, g.flag = f.flag, g.dp = f.dp, g.ip = f.ip
  PROVE  IallocOf(r, g)
BY DEF IallocOf

LEMMA IgetReturns ==
  ASSUME NEW r, NEW f, NEW g, IgetOf(r, f), Alike(f, g),
         g.cur \in Slot \/ (g.cur = 0 /\ Head(r) # "lookup")
  PROVE  Config(Head(r), Tail(r), g) /\ Plain(Head(r))
<1>1. CASE Head(r) = "lookup" /\ NameiOf(Tail(r), f) /\ f.dp = 0 /\ f.ino = ROOTINO
  BY <1>1, Short DEF Plain, Copies, Config, NameiOf, ROOTINO, Alike
<1>2. CASE NameiOf(r, f) /\ f.dp = 0 /\ f.flag # 2
  BY <1>2, NameiReturns DEF NameiOf, Alike
<1>3. CASE Head(r) = "ialgot" /\ IallocOf(Tail(r), f)
  BY <1>3, IallocKept DEF Plain, Copies, Config, Alike
<1>4. CASE r = <<"unlink2">> /\ Unlinking(f)
  BY <1>4, Short DEF Plain, Copies, Config, Unlinking, Alike
<1> QED BY <1>1, <1>2, <1>3, <1>4 DEF IgetOf

LEMMA IputReturns ==
  ASSUME NEW r, NEW f, NEW g, IputOf(r, f), Alike(f, g), g.cur = 0
  PROVE  Config(Head(r), Tail(r), g) /\ ~Copies(Head(r)) /\ Head(r) \notin {"iupdat", "iput", "itrunc", "ifree", "idrop"}
<1>1. CASE NameiOf(r, f) /\ f.dp = 0
  BY <1>1, NameiReturns DEF NameiOf, Alike, Plain
<1>2. CASE Head(r) = "child" /\ NameiOf(Tail(r), f) /\ f.dp = 0 /\ f.flag # 2 /\ f.ino \in Ino
  BY <1>2 DEF Plain, Copies, Config, NameiOf, Alike
<1>3. CASE Head(r) \in {"ialgot", "ialloop"} /\ IallocOf(Tail(r), f)
  BY <1>3, IallocKept DEF Config, Copies, Alike
<1>4. CASE r \in {<<"unlink2">>, <<"unlink3">>} /\ Unlinking(f)
  <2>1. r = <<"unlink2">> \/ r = <<"unlink3">>
    BY <1>4
  <2>2. Tail(r) = <<>> /\ Head(r) \in {"unlink2", "unlink3"}
    BY <2>1, Short
  <2>3. Unlinking(g) /\ g.cur = 0
    BY <1>4 DEF Unlinking, Alike
  <2> QED BY <2>2, <2>3 DEF Copies, Config, Unlinking
<1>5. CASE r = <<"end">> /\ f.dp = 0 /\ f.ip = 0
  BY <1>5, Short DEF Plain, Copies, Config, Alike
<1>6. CASE r = <<"grant">> /\ ByName /\ f.dp = 0 /\ f.ip \in Slot /\ f.to = "none"
  BY <1>6, Short DEF Plain, Copies, Config, Alike
<1>7. CASE r \in {<<"linked">>, <<"linkout">>} /\ "link" \in Calls /\ f.dp = 0 /\ f.ip \in Slot /\ f.to \in Name
  BY <1>7, Short DEF Plain, Copies, Config, Alike
<1>8. CASE Head(r) = "update" /\ Tail(r) = <<"end">> /\ f.dp = 0 /\ f.ip = 0
  BY <1>8, Short DEF Plain, Copies, Config, Alike
<1> QED BY <1>1, <1>2, <1>3, <1>4, <1>5, <1>6, <1>7, <1>8 DEF IputOf

LEMMA IputAlike ==
  ASSUME NEW r, NEW f, NEW g, IputOf(r, f), Alike(f, g)
  PROVE  IputOf(r, g)
BY DEF IputOf, Alike, NameiOf, IallocOf, Unlinking

LEMMA IupdatReturns ==
  ASSUME NEW r, NEW f, NEW g, IupdatOf(r, f), Alike(f, g), g.cur = f.cur, f.cur \in Slot
  PROVE  Config(Head(r), Tail(r), g) /\ Head(r) \in {"idrop", "ialstale", "wdir", "update1", "end"}
         /\ (Head(r) = "end" => r = <<"end">>)
<1>1. CASE Head(r) = "idrop" /\ IputOf(Tail(r), f)
  BY <1>1, IputAlike DEF Plain, Copies, Config
<1>2. CASE Head(r) = "ialstale" /\ IallocOf(Tail(r), f)
  BY <1>2, IallocKept DEF Plain, Copies, Config, Alike
<1>3. CASE r = <<"wdir">> /\ ByName /\ f.dp \in Slot /\ f.ip \in Slot /\ f.cur = f.ip /\ f.to = "none" /\ f.name \in Name
  BY <1>3, Short DEF Plain, Copies, Config, Alike
<1>4. CASE Head(r) = "update1" /\ Tail(r) = <<"end">> /\ f.dp = 0 /\ f.ip = 0
  BY <1>4, Short DEF Plain, Copies, Config, Alike
<1>5. CASE r = <<"end">> /\ ~ByName /\ f.dp = 0 /\ f.ip = 0
  BY <1>5, Short DEF Plain, Copies, Config, Alike
<1> QED BY <1>1, <1>2, <1>3, <1>4, <1>5 DEF IupdatOf

LEMMA ConfigPC == ASSUME NEW l, NEW r, NEW f, Config(l, r, f) PROVE l \in PC
BY DEF Config, PC, Diskwait

(* p goes from its label, stack and registers to m, t and g.               *)
Stepped(p, m, t, g) ==
  /\ m \in PC /\ t \in Seq(PC) /\ g \in Frame
  /\ pc' = [pc EXCEPT ![p] = m] /\ ret' = [ret EXCEPT ![p] = t] /\ u' = [u EXCEPT ![p] = g]
  /\ cpu' \in Proc \cup {NoProc}

LEMMA HereAt ==
  ASSUME TypeOK, Controlled, NEW p \in Proc, NEW l, At(p, l)
  PROVE  /\ pc[p] = l /\ Config(l, ret[p], u[p]) /\ ret[p] \in Seq(PC) /\ u[p] \in Frame
BY DEF TypeOK, Controlled, At

LEMMA EnterSteps ==
  ASSUME TypeOK, NEW p \in Proc, NEW m, NEW t \in Seq(PC), NEW g \in Frame, m \in PC, Enter(p, m, t), Set(p, g)
  PROVE  Stepped(p, m, t, g)
BY DEF Stepped, Enter, Set

LEMMA Unset == ASSUME TypeOK, NEW p \in Proc, u' = u PROVE Set(p, u[p])
BY DEF TypeOK, Set

Shifts(p) ==
  \E m, t, g : /\ Stepped(p, m, t, g) /\ Shift(pc[p], ret[p], u[p], m, t, g)
               /\ Copies(m) => file[p][g.cur] > 0

LEMMA ShiftSteps ==
  ASSUME TypeOK, NEW p \in Proc, NEW m, NEW t \in Seq(PC), NEW g \in Frame, Enter(p, m, t), Set(p, g),
         Shift(pc[p], ret[p], u[p], m, t, g), ~Copies(m) \/ file[p][g.cur] > 0
  PROVE  Shifts(p)
<1>1. m \in PC
  BY ConfigPC DEF Shift
<1> QED BY <1>1, EnterSteps DEF Shifts

Pushed(x, r, t) ==
  t \in Seq(PC) /\ t # <<>> /\ Head(t) = x /\ Tail(t) = r /\ (r = <<>> => t = <<x>>)

LEMMA PushSeq == ASSUME NEW x \in PC, NEW r \in Seq(PC) PROVE Pushed(x, r, <<x>> \o r)
<1>1. r = <<>> => <<x>> \o r = <<x>>
  OBVIOUS
<1> QED BY <1>1, PushPop DEF Pushed

LEMMA GotoShifts ==
  ASSUME TypeOK, Controlled, NEW p \in Proc, NEW l, NEW m, NEW g \in Frame, At(p, l), Goto(p, m), Set(p, g),
         Shift(l, ret[p], u[p], m, ret[p], g), ~Copies(m) \/ file[p][g.cur] > 0
  PROVE  Shifts(p)
BY HereAt, ShiftSteps DEF Goto

LEMMA CallShifts ==
  ASSUME TypeOK, Controlled, NEW p \in Proc, NEW l, NEW m, NEW x \in PC, NEW g \in Frame, At(p, l),
         Call(p, m, x), Set(p, g), Shift(l, ret[p], u[p], m, <<x>> \o ret[p], g),
         ~Copies(m) \/ file[p][g.cur] > 0
  PROVE  Shifts(p)
BY HereAt, ShiftSteps, PushPop DEF Call

LEMMA ReturnShifts ==
  ASSUME TypeOK, Controlled, NEW p \in Proc, NEW l, NEW g \in Frame, At(p, l),
         Return(p), Set(p, g), ret[p] # <<>>, ~Copies(Head(ret[p])),
         Shift(l, ret[p], u[p], Head(ret[p]), Tail(ret[p]), g)
  PROVE  Shifts(p)
<1> DEFINE m == Head(ret[p])
           t == Tail(ret[p])
<1>1. t \in Seq(PC)
  BY HereAt
<1>2. Enter(p, m, t) /\ pc[p] = l
  BY HereAt DEF Return
<1> HIDE DEF m, t
<1> QED BY <1>1, <1>2, ShiftSteps DEF m, t

LEMMA NameiSome ==
  ASSUME NEW r, NEW f, NameiOf(r, f)
  PROVE  r # <<>> /\ f.name \in Name
BY Short DEF NameiOf

LEMMA IputKept ==
  ASSUME NEW r, NEW f, NEW g, IputOf(r, f), g.name = f.name, g.to = f.to, g.flag = f.flag, g.ino = f.ino,
         g.dp = f.dp, g.ip = f.ip
  PROVE  IputOf(r, g)
BY DEF IputOf, NameiOf, IallocOf, Unlinking

LEMMA NameiKept ==
  ASSUME NEW r, NEW f, NEW g, NameiOf(r, f), g.name = f.name, g.to = f.to, g.flag = f.flag, g.ip = f.ip
  PROVE  NameiOf(r, g)
BY DEF NameiOf

LEMMA SleepShifts ==
  ASSUME TypeOK, Controlled, NEW p \in Proc, NEW l, NEW chan, At(p, l), Sleep(p, chan), Set(p, u[p]), ~Copies(l)
  PROVE  Shifts(p)
<1>1. Config(l, ret[p], u[p]) /\ pc[p] = l /\ ret[p] \in Seq(PC) /\ u[p] \in Frame /\ l \in PC
  BY HereAt, ConfigPC
<1>2. Stepped(p, l, ret[p], u[p])
  BY <1>1 DEF Stepped, Sleep, Set, TypeOK
<1>3. Shift(l, ret[p], u[p], l, ret[p], u[p])
  BY <1>1 DEF Shift
<1> QED BY <1>1, <1>2, <1>3 DEF Shifts

(* Blocks of the i-list.                                                   *)
LEMMA BlockStart == ASSUME NEW i \in Ino \cup {0} PROVE FirstOfBlock(i) \in Nat
<1>1. i \in Nat /\ INOPB \in Nat /\ INOPB > 0
  BY SizeAssumption DEF Ino
<1>2. i \div INOPB \in Nat
  BY <1>1
<1>3. (i \div INOPB) * INOPB \in Nat
  BY <1>1, <1>2
<1> QED BY <1>3 DEF FirstOfBlock

LEMMA SuperList ==
  ASSUME TypeOK
  PROVE  /\ super.n \in 0..NICINOD /\ super.list \in [0..NICINOD-1 -> Ino \cup {0}] /\ super.lock \in BOOLEAN
         /\ super.list[0] \in Ino \cup {0}
BY SizeAssumption DEF TypeOK

LEMMA IgetLookup ==
  ASSUME NEW r, NEW f, IgetOf(r, f), Head(r) = "lookup"
  PROVE  f.ino = ROOTINO
<1>1. ~NameiOf(r, f)
  BY Short DEF NameiOf
<1> QED BY <1>1, Short DEF IgetOf

LEMMA NoCallIs ==
  /\ NoCall \in Frame
  /\ NoCall.name = "none" /\ NoCall.to = "none" /\ NoCall.flag = 0 /\ NoCall.ino = 0
  /\ NoCall.cur = 0 /\ NoCall.dp = 0 /\ NoCall.ip = 0
BY DEF NoCall, Frame

LEMMA Flags == 0 \in 0..2 /\ 1 \in 0..2 /\ 2 \in 0..2
OBVIOUS

LEMMA LookupShift ==
  ASSUME NEW r \in Seq(PC), NEW f \in Frame, NEW g, Config("lookup", r, f), g = [f EXCEPT !.dp = f.cur,
         !.cur = 0]
  PROVE  g \in Frame /\ Shift("lookup", r, f, "search", r, g) /\ ~Copies("search")
<1>1. NameiOf(r, f) /\ f.cur \in Slot /\ f.dp = 0
  BY DEF Config
<1>2. g \in Frame /\ g.name = f.name /\ g.to = f.to /\ g.flag = f.flag /\ g.ino = f.ino
      /\ g.dp = f.cur /\ g.ip = f.ip /\ g.cur = 0
  BY <1>1 DEF Frame
<1>3. Config("search", r, g)
  BY <1>1, <1>2, NameiSome, NameiKept DEF Config, NameiOf
<1> QED BY <1>1, <1>2, <1>3 DEF Shift, Weight, One, Owns, Holds, Last, Copies

LEMMA LookupShifts == ASSUME TypeOK, Controlled, NEW p \in Proc, Lookup(p) PROVE Shifts(p)
BY HereAt, LookupShift, GotoShifts DEF Lookup

LEMMA NameiShift ==
  ASSUME NEW r \in Seq(PC), NEW f \in Frame, NEW g, NEW t, Config("namei", r, f), g = [f EXCEPT !.ino =
         ROOTINO], Pushed("lookup", r, t)
  PROVE  g \in Frame /\ Shift("namei", r, f, "iget", t, g) /\ ~Copies("iget")
<1>1. NameiOf(r, f) /\ f.cur = 0 /\ f.dp = 0
  BY DEF Config
<1>2. g \in Frame /\ g.name = f.name /\ g.to = f.to /\ g.flag = f.flag /\ g.ino = ROOTINO
      /\ g.dp = f.dp /\ g.ip = f.ip /\ g.cur = f.cur /\ ROOTINO \in Ino
  BY <1>1, SizeAssumption DEF Frame, ROOTINO, Ino
<1>3. IgetOf(t, g)
  BY <1>1, <1>2, NameiSome, NameiKept DEF Pushed, IgetOf, IgetOf, NameiOf
<1>4. Config("iget", t, g)
  BY <1>1, <1>2, <1>3 DEF Config
<1> QED BY <1>1, <1>2, <1>4 DEF Pushed, Shift, Weight, One, Owns, Holds, Last, Copies

LEMMA NameiShifts == ASSUME TypeOK, Controlled, NEW p \in Proc, Namei(p) PROVE Shifts(p)
<1>1. "lookup" \in PC
  BY DEF PC
<1> QED BY <1>1, HereAt, NameiShift, CallShifts, PushSeq DEF Namei

LEMMA ChildShift ==
  ASSUME NEW r \in Seq(PC), NEW f \in Frame, Config("child", r, f)
  PROVE  Shift("child", r, f, "iget", r, f) /\ ~Copies("iget")
<1>1. NameiOf(r, f) /\ f.cur = 0 /\ f.dp = 0 /\ f.flag # 2 /\ f.ino \in Ino
  BY DEF Config
<1>3. IgetOf(r, f)
  BY <1>1, NameiSome DEF IgetOf, IgetOf, NameiOf
<1>4. Config("iget", r, f)
  BY <1>1, <1>3 DEF Config
<1> QED BY <1>1, <1>4 DEF Shift, Weight, One, Owns, Holds, Last, Copies

LEMMA ChildShifts == ASSUME TypeOK, Controlled, NEW p \in Proc, Child(p) PROVE Shifts(p)
BY HereAt, ChildShift, GotoShifts, Unset DEF Child

LEMMA SearchNone ==
  ASSUME NEW r \in Seq(PC), NEW f \in Frame, Config("search", r, f), f.flag = 1
  PROVE  r # <<>> /\ Shift("search", r, f, Head(r), Tail(r), f) /\ ~Copies(Head(r))
<1>1. NameiOf(r, f) /\ f.cur = 0 /\ f.dp \in Slot
  BY DEF Config
<1>3. r # <<>>
  BY <1>1, NameiSome
<1>4. Config(Head(r), Tail(r), f) /\ Plain(Head(r))
  BY <1>1, NameiReturns
<1> QED BY <1>1, <1>3, <1>4 DEF Shift, Weight, One, Owns, Holds, Last, Copies, Plain

LEMMA SearchFails ==
  ASSUME NEW r \in Seq(PC), NEW f \in Frame, NEW g, Config("search", r, f), g = [f EXCEPT !.err = TRUE,
         !.cur = f.dp, !.dp = 0], f.flag # 1
  PROVE  g \in Frame /\ Shift("search", r, f, "iput", r, g) /\ ~Copies("iput")
<1>1. NameiOf(r, f) /\ f.cur = 0 /\ f.dp \in Slot
  BY DEF Config
<1>2. g \in Frame /\ g.name = f.name /\ g.to = f.to /\ g.flag = f.flag /\ g.ino = f.ino
      /\ g.dp = 0 /\ g.ip = f.ip /\ g.cur = f.dp
  BY <1>1 DEF Frame
<1>3. IputOf(r, g)
  BY <1>1, <1>2, NameiSome, NameiKept DEF IputOf, IputOf, NameiOf
<1>4. Config("iput", r, g)
  BY <1>1, <1>2, <1>3 DEF Config
<1> QED BY <1>1, <1>2, <1>4 DEF Shift, Weight, One, Owns, Holds, Last, Copies

LEMMA SearchDelete ==
  ASSUME NEW r \in Seq(PC), NEW f \in Frame, NEW i \in Ino, NEW g, Config("search", r, f), g = [f EXCEPT
         !.ino = i], f.flag = 2
  PROVE  r # <<>> /\ g \in Frame /\ Shift("search", r, f, Head(r), Tail(r), g) /\ ~Copies(Head(r))
<1>1. NameiOf(r, f) /\ f.cur = 0 /\ f.dp \in Slot
  BY DEF Config
<1>2. g \in Frame /\ g.name = f.name /\ g.to = f.to /\ g.flag = f.flag /\ g.ino = i
      /\ g.dp = f.dp /\ g.ip = f.ip /\ g.cur = f.cur
  BY <1>1 DEF Frame
<1>5. NameiOf(r, g)
  BY <1>1, <1>2, NameiKept
<1>6. g.cur = 0 /\ g.flag = 2 /\ ~(g.flag = 0) /\ g.ino \in Ino
  BY <1>1, <1>2, <1>5
<1>3. r # <<>>
  BY <1>1, NameiSome
<1>4. Config(Head(r), Tail(r), g) /\ Plain(Head(r))
  BY <1>1, <1>2, <1>5, <1>6, NameiReturns
<1> QED BY <1>1, <1>2, <1>5, <1>6, <1>3, <1>4 DEF Shift, Weight, One, Owns, Holds, Last, Copies, Plain

LEMMA SearchFound ==
  ASSUME NEW r \in Seq(PC), NEW f \in Frame, NEW i \in Ino, NEW g, NEW t, Config("search", r, f), g = [[f
         EXCEPT !.ino = i] EXCEPT !.cur = f.dp, !.dp = 0], Pushed("child", r, t), f.flag # 2
  PROVE  g \in Frame /\ Shift("search", r, f, "iput", t, g) /\ ~Copies("iput")
<1>1. NameiOf(r, f) /\ f.cur = 0 /\ f.dp \in Slot
  BY DEF Config
<1>2. g \in Frame /\ g.name = f.name /\ g.to = f.to /\ g.flag = f.flag /\ g.ino = i
      /\ g.dp = 0 /\ g.ip = f.ip /\ g.cur = f.dp
  BY <1>1 DEF Frame
<1>3. IputOf(t, g)
  BY <1>1, <1>2, NameiSome, NameiKept DEF Pushed, IputOf, IputOf, NameiOf
<1>4. Config("iput", t, g)
  BY <1>1, <1>2, <1>3 DEF Config
<1> QED BY <1>1, <1>2, <1>4 DEF Pushed, Shift, Weight, One, Owns, Holds, Last, Copies

LEMMA SearchShifts == ASSUME TypeOK, Controlled, NEW p \in Proc, Search(p) PROVE Shifts(p)
<1>1. At(p, "search") /\ Config("search", ret[p], u[p]) /\ ret[p] \in Seq(PC) /\ u[p] \in Frame
  BY HereAt DEF Search
<1> DEFINE i == dir[u[p].name]
<1>2. i \in Ino \cup {0}
  BY <1>1 DEF Config, NameiOf, TypeOK
<1>3. "child" \in PC
  BY DEF PC
<1> HIDE DEF i
<1>4. CASE i = 0 /\ u[p].flag = 1 /\ Return(p) /\ UNCHANGED u
  BY <1>1, <1>4, SearchNone, ReturnShifts, Unset
<1>5. CASE i = 0 /\ u[p].flag # 1 /\ Goto(p, "iput") /\ Set(p, [u[p] EXCEPT !.err = TRUE, !.cur = u[p].dp, !.dp = 0])
  BY <1>1, <1>5, SearchFails, GotoShifts
<1>6. CASE i # 0 /\ u[p].flag = 2 /\ Return(p) /\ Set(p, [u[p] EXCEPT !.ino = i])
  BY <1>1, <1>2, <1>6, SearchDelete, ReturnShifts
<1>7. CASE i # 0 /\ u[p].flag # 2 /\ Call(p, "iput", "child")
           /\ Set(p, [[u[p] EXCEPT !.ino = i] EXCEPT !.cur = u[p].dp, !.dp = 0])
  BY <1>1, <1>2, <1>3, <1>7, SearchFound, CallShifts, PushSeq
<1> QED BY <1>4, <1>5, <1>6, <1>7 DEF Search, i

LEMMA IallocWait ==
  ASSUME NEW r \in Seq(PC), NEW f \in Frame, Config("ialloc", r, f)
  PROVE  Shift("ialloc", r, f, "ialloop", r, f) /\ ~Copies("ialloop")
<1>1. IallocOf(r, f) /\ f.cur = 0
  BY DEF Config
<1>3. Config("ialloop", r, f)
  BY <1>1 DEF Config
<1> QED BY <1>1, <1>3 DEF Shift, Weight, One, Owns, Holds, Last, Copies

LEMMA IallocShifts == ASSUME TypeOK, Controlled, NEW p \in Proc, Ialloc(p) PROVE Shifts(p)
<1>1. At(p, "ialloc") /\ Config("ialloc", ret[p], u[p]) /\ ret[p] \in Seq(PC) /\ u[p] \in Frame
  BY HereAt DEF Ialloc
<1>2. CASE Goto(p, "ialloop")
  BY <1>1, <1>2, IallocWait, GotoShifts, Unset DEF Ialloc
<1>3. CASE Sleep(p, SILOCK)
  BY <1>1, <1>3, SleepShifts, Unset DEF Ialloc, Copies
<1> QED BY <1>2, <1>3 DEF Ialloc

LEMMA IallocTakeShift ==
  ASSUME NEW r \in Seq(PC), NEW f \in Frame, NEW i \in Ino, NEW g, NEW t, Config("ialloop", r, f), g = [f
         EXCEPT !.ino = i], Pushed("ialgot", r, t)
  PROVE  g \in Frame /\ Shift("ialloop", r, f, "iget", t, g) /\ ~Copies("iget")
<1>1. IallocOf(r, f) /\ f.cur = 0
  BY DEF Config
<1>2. g \in Frame /\ g.name = f.name /\ g.to = f.to /\ g.flag = f.flag /\ g.ino = i
      /\ g.dp = f.dp /\ g.ip = f.ip /\ g.cur = f.cur
  BY <1>1 DEF Frame
<1>3. IgetOf(t, g)
  BY <1>1, <1>2, IallocKept DEF Pushed, IgetOf
<1>4. Config("iget", t, g)
  BY <1>1, <1>2, <1>3 DEF Config
<1> QED BY <1>1, <1>2, <1>4 DEF Pushed, Shift, Weight, One, Owns, Holds, Last, Copies

LEMMA IallocTakeShifts == ASSUME TypeOK, Controlled, NEW p \in Proc, IallocTake(p) PROVE Shifts(p)
<1> DEFINE i == super.list[super.n - 1]
<1>1. "ialgot" \in PC
  BY DEF PC
<1>2. i \in Ino
  <2>1. super.n > 0 /\ i # 0
    BY DEF IallocTake
  <2>2. super.n \in Nat /\ super.n <= NICINOD /\ NICINOD \in Nat
    BY SuperList, SizeAssumption
  <2>3. super.n - 1 \in 0..NICINOD-1
    BY <2>1, <2>2
  <2>4. i \in Ino \cup {0}
    BY <2>3, SuperList
  <2> QED BY <2>1, <2>4
<1>3. Set(p, [u[p] EXCEPT !.ino = i])
  BY DEF IallocTake
<1> HIDE DEF i
<1> QED BY <1>1, <1>2, <1>3, HereAt, IallocTakeShift, CallShifts, PushSeq DEF IallocTake

LEMMA IallocGotShift ==
  ASSUME NEW r \in Seq(PC), NEW f \in Frame, Config("ialgot", r, f)
  PROVE  r # <<>> /\ Shift("ialgot", r, f, Head(r), Tail(r), f) /\ ~Copies(Head(r))
<1>1. IallocOf(r, f)
  BY DEF Config
<1>3. r # <<>>
  BY <1>1, IallocReturns DEF Alike
<1>4. Config(Head(r), Tail(r), f) /\ Plain(Head(r))
  BY <1>1, IallocReturns DEF Alike
<1> QED BY <1>1, <1>3, <1>4 DEF Shift, Weight, One, Owns, Holds, Last, Copies, Plain

LEMMA IallocGotStale ==
  ASSUME NEW r \in Seq(PC), NEW f \in Frame, NEW t, Config("ialgot", r, f), Pushed("ialstale", r, t),
         f.cur # 0
  PROVE  Shift("ialgot", r, f, "iupdat", t, f) /\ ~Copies("iupdat")
<1>1. IallocOf(r, f)
  BY DEF Config
<1>3. IupdatOf(t, f)
  BY <1>1, Registers DEF Pushed, IupdatOf
<1>4. Config("iupdat", t, f)
  BY <1>1, <1>3, Registers DEF Config
<1> QED BY <1>1, <1>4 DEF Pushed, Shift, Weight, One, Owns, Holds, Last, Copies

LEMMA IallocGotShifts == ASSUME TypeOK, Controlled, NEW p \in Proc, IallocGot(p) PROVE Shifts(p)
<1>1. At(p, "ialgot") /\ Config("ialgot", ret[p], u[p]) /\ ret[p] \in Seq(PC) /\ u[p] \in Frame
  BY HereAt DEF IallocGot
<1>2. "ialstale" \in PC
  BY DEF PC
<1>3. CASE Return(p)
  BY <1>1, <1>3, IallocGotShift, ReturnShifts, Unset DEF IallocGot
<1>4. CASE u[p].cur # 0 /\ Call(p, "iupdat", "ialstale")
  BY <1>1, <1>2, <1>4, IallocGotStale, CallShifts, PushSeq, Unset DEF IallocGot
<1> QED BY <1>3, <1>4 DEF IallocGot

LEMMA IallocStaleShift ==
  ASSUME NEW r \in Seq(PC), NEW f \in Frame, NEW t, Config("ialstale", r, f), Pushed("ialloop", r, t)
  PROVE  Shift("ialstale", r, f, "iput", t, f) /\ ~Copies("iput")
<1>1. IallocOf(r, f) /\ f.cur \in Slot
  BY DEF Config
<1>3. IputOf(t, f)
  BY <1>1 DEF Pushed, IputOf
<1>4. Config("iput", t, f)
  BY <1>1, <1>3 DEF Config
<1> QED BY <1>1, <1>4 DEF Pushed, Shift, Weight, One, Owns, Holds, Last, Copies

LEMMA IallocStaleShifts == ASSUME TypeOK, Controlled, NEW p \in Proc, IallocStale(p) PROVE Shifts(p)
<1>1. "ialloop" \in PC
  BY DEF PC
<1> QED BY <1>1, HereAt, IallocStaleShift, CallShifts, PushSeq, Unset DEF IallocStale

LEMMA IallocSearchBegins ==
  ASSUME NEW r \in Seq(PC), NEW f \in Frame, NEW i \in Nat, NEW g, Config("ialloop", r, f), g = [f EXCEPT
         !.scan = i]
  PROVE  g \in Frame /\ Shift("ialloop", r, f, "iscan", r, g) /\ ~Copies("iscan")
<1>1. IallocOf(r, f) /\ f.cur = 0
  BY DEF Config
<1>2. g \in Frame /\ g.name = f.name /\ g.to = f.to /\ g.flag = f.flag /\ g.ino = f.ino
      /\ g.dp = f.dp /\ g.ip = f.ip /\ g.cur = f.cur
  BY <1>1 DEF Frame
<1>3. Config("iscan", r, g)
  BY <1>1, <1>2, IallocKept DEF Config
<1> QED BY <1>1, <1>2, <1>3 DEF Shift, Weight, One, Owns, Holds, Last, Copies

LEMMA IallocSearchEmpty ==
  ASSUME NEW r \in Seq(PC), NEW f \in Frame, NEW i \in Nat, NEW g, Config("ialloop", r, f), g = [f EXCEPT
         !.scan = i]
  PROVE  g \in Frame /\ Shift("ialloop", r, f, "iscanned", r, g) /\ ~Copies("iscanned")
<1>1. IallocOf(r, f) /\ f.cur = 0
  BY DEF Config
<1>2. g \in Frame /\ g.name = f.name /\ g.to = f.to /\ g.flag = f.flag /\ g.ino = f.ino
      /\ g.dp = f.dp /\ g.ip = f.ip /\ g.cur = f.cur
  BY <1>1 DEF Frame
<1>3. Config("iscanned", r, g)
  BY <1>1, <1>2, IallocKept DEF Config
<1> QED BY <1>1, <1>2, <1>3 DEF Shift, Weight, One, Owns, Holds, Last, Copies

LEMMA IscanMore ==
  ASSUME NEW r \in Seq(PC), NEW f \in Frame, NEW i \in Nat, NEW b \in BOOLEAN, NEW g, Config("iscan", r,
         f), g = [f EXCEPT !.scan = i, !.err = b]
  PROVE  g \in Frame /\ Shift("iscan", r, f, "iscan", r, g) /\ ~Copies("iscan")
<1>1. IallocOf(r, f) /\ f.cur = 0
  BY DEF Config
<1>2. g \in Frame /\ g.name = f.name /\ g.to = f.to /\ g.flag = f.flag /\ g.ino = f.ino
      /\ g.dp = f.dp /\ g.ip = f.ip /\ g.cur = f.cur
  BY <1>1 DEF Frame
<1>3. Config("iscan", r, g)
  BY <1>1, <1>2, IallocKept DEF Config
<1> QED BY <1>1, <1>2, <1>3 DEF Shift, Weight, One, Owns, Holds, Last, Copies

LEMMA IscanLast ==
  ASSUME NEW r \in Seq(PC), NEW f \in Frame, NEW i \in Nat, NEW b \in BOOLEAN, NEW g, Config("iscan", r,
         f), g = [f EXCEPT !.scan = i, !.err = b]
  PROVE  g \in Frame /\ Shift("iscan", r, f, "iscanned", r, g) /\ ~Copies("iscanned")
<1>1. IallocOf(r, f) /\ f.cur = 0
  BY DEF Config
<1>2. g \in Frame /\ g.name = f.name /\ g.to = f.to /\ g.flag = f.flag /\ g.ino = f.ino
      /\ g.dp = f.dp /\ g.ip = f.ip /\ g.cur = f.cur
  BY <1>1 DEF Frame
<1>3. Config("iscanned", r, g)
  BY <1>1, <1>2, IallocKept DEF Config
<1> QED BY <1>1, <1>2, <1>3 DEF Shift, Weight, One, Owns, Holds, Last, Copies

LEMMA IallocSearchShifts == ASSUME TypeOK, Controlled, NEW p \in Proc, IallocSearch(p) PROVE Shifts(p)
<1> DEFINE i == FirstOfBlock(super.list[0])
<1>1. At(p, "ialloop") /\ Config("ialloop", ret[p], u[p]) /\ ret[p] \in Seq(PC) /\ u[p] \in Frame
  BY HereAt DEF IallocSearch
<1>2. i \in Nat
  BY SuperList, BlockStart
<1>3. Set(p, [u[p] EXCEPT !.scan = i]) /\ (Goto(p, "iscan") \/ Goto(p, "iscanned"))
  BY DEF IallocSearch
<1> HIDE DEF i
<1> QED BY <1>1, <1>2, <1>3, IallocSearchBegins, IallocSearchEmpty, GotoShifts

LEMMA IscanShifts == ASSUME TypeOK, Controlled, NEW p \in Proc, Iscan(p) PROVE Shifts(p)
<1>1. At(p, "iscan") /\ Config("iscan", ret[p], u[p]) /\ ret[p] \in Seq(PC) /\ u[p] \in Frame
  BY HereAt DEF Iscan
<1>2. PICK b \in BOOLEAN : /\ Set(p, [u[p] EXCEPT !.scan = u[p].scan + INOPB, !.err = b])
                           /\ Goto(p, "iscan") \/ Goto(p, "iscanned")
  BY <1>1, Registers DEF Iscan
<1> DEFINE i == u[p].scan + INOPB
<1>3. i \in Nat /\ Set(p, [u[p] EXCEPT !.scan = i, !.err = b])
  BY <1>1, <1>2, Registers, SizeAssumption
<1> HIDE DEF i
<1> QED BY <1>1, <1>2, <1>3, IscanMore, IscanLast, GotoShifts

LEMMA IscanAgain ==
  ASSUME NEW r \in Seq(PC), NEW f \in Frame, Config("iscanned", r, f)
  PROVE  Shift("iscanned", r, f, "ialloop", r, f) /\ ~Copies("ialloop")
<1>1. IallocOf(r, f) /\ f.cur = 0
  BY DEF Config
<1>3. Config("ialloop", r, f)
  BY <1>1 DEF Config
<1> QED BY <1>1, <1>3 DEF Shift, Weight, One, Owns, Holds, Last, Copies

LEMMA IscanFails ==
  ASSUME NEW r \in Seq(PC), NEW f \in Frame, NEW g, Config("iscanned", r, f), g = [f EXCEPT !.cur = 0,
         !.err = TRUE]
  PROVE  r # <<>> /\ g \in Frame /\ Shift("iscanned", r, f, Head(r), Tail(r), g) /\ ~Copies(Head(r))
<1>1. IallocOf(r, f) /\ f.cur = 0
  BY DEF Config
<1>2. g \in Frame /\ g.name = f.name /\ g.to = f.to /\ g.flag = f.flag /\ g.ino = f.ino
      /\ g.dp = f.dp /\ g.ip = f.ip /\ g.cur = 0
  BY <1>1 DEF Frame
<1>3. r # <<>>
  BY <1>1, IallocReturns DEF Alike
<1>4. Config(Head(r), Tail(r), g) /\ Plain(Head(r))
  BY <1>1, <1>2, IallocReturns DEF Alike
<1> QED BY <1>1, <1>2, <1>3, <1>4 DEF Shift, Weight, One, Owns, Holds, Last, Copies, Plain

LEMMA IscanEndShifts == ASSUME TypeOK, Controlled, NEW p \in Proc, IscanEnd(p) PROVE Shifts(p)
<1>1. At(p, "iscanned") /\ Config("iscanned", ret[p], u[p]) /\ ret[p] \in Seq(PC) /\ u[p] \in Frame
  BY HereAt DEF IscanEnd
<1>2. CASE Goto(p, "ialloop") /\ UNCHANGED u
  BY <1>1, <1>2, IscanAgain, GotoShifts, Unset
<1>3. CASE Return(p) /\ Set(p, [u[p] EXCEPT !.cur = 0, !.err = TRUE])
  BY <1>1, <1>3, IscanFails, ReturnShifts
<1> QED BY <1>2, <1>3 DEF IscanEnd

LEMMA IgetFullShift ==
  ASSUME NEW r \in Seq(PC), NEW f \in Frame, NEW g, Config("iget", r, f), g = [f EXCEPT !.cur = 0, !.err
         = TRUE], Head(r) # "lookup"
  PROVE  r # <<>> /\ g \in Frame /\ Shift("iget", r, f, Head(r), Tail(r), g) /\ ~Copies(Head(r))
<1>1. IgetOf(r, f) /\ f.cur = 0
  BY DEF Config
<1>2. g \in Frame /\ g.name = f.name /\ g.to = f.to /\ g.flag = f.flag /\ g.ino = f.ino
      /\ g.dp = f.dp /\ g.ip = f.ip /\ g.cur = 0
  BY <1>1 DEF Frame
<1>3. r # <<>>
  BY <1>1 DEF IgetOf
<1>4. Config(Head(r), Tail(r), g) /\ Plain(Head(r))
  BY <1>1, <1>2, IgetReturns DEF Alike
<1> QED BY <1>1, <1>2, <1>3, <1>4 DEF Shift, Weight, One, Owns, Holds, Last, Copies, Plain

LEMMA IgetFullShifts == ASSUME TypeOK, Controlled, RootKept, NEW p \in Proc, IgetFull(p) PROVE Shifts(p)
<1>1. At(p, "iget") /\ Config("iget", ret[p], u[p]) /\ ret[p] \in Seq(PC) /\ u[p] \in Frame
  BY HereAt DEF IgetFull
<1>2. Head(ret[p]) # "lookup"
  <2>1. 1 \notin Holding(u[p].ino)
    BY DEF IgetFull
  <2>2. u[p].ino # ROOTINO
    BY <2>1, SizeAssumption DEF RootKept, Holding, Slot
  <2> QED BY <1>1, <2>2, IgetLookup DEF Config
<1> QED BY <1>1, <1>2, IgetFullShift, ReturnShifts DEF IgetFull

LEMMA IreadFails ==
  ASSUME NEW r \in Seq(PC), NEW f \in Frame, NEW g, Config("iread", r, f), g = [f EXCEPT !.err = TRUE]
  PROVE  g \in Frame /\ Shift("iread", r, f, "iput", r, g) /\ ~Copies("iput")
<1>1. IgetOf(r, f) /\ f.cur \in Slot /\ Head(r) # "lookup"
  BY DEF Config
<1>2. g \in Frame /\ g.name = f.name /\ g.to = f.to /\ g.flag = f.flag /\ g.ino = f.ino
      /\ g.dp = f.dp /\ g.ip = f.ip /\ g.cur = f.cur
  BY <1>1 DEF Frame
<1>3. IputOf(r, g)
  BY <1>1, <1>2, NameiKept, IallocKept DEF IputOf, IgetOf, Unlinking
<1>4. Config("iput", r, g)
  BY <1>1, <1>2, <1>3 DEF Config
<1> QED BY <1>1, <1>2, <1>4 DEF Shift, Weight, One, Owns, Holds, Last, Copies

LEMMA IreadDone ==
  ASSUME NEW r \in Seq(PC), NEW f \in Frame, Config("iread", r, f)
  PROVE  r # <<>> /\ Shift("iread", r, f, Head(r), Tail(r), f) /\ ~Copies(Head(r))
<1>1. IgetOf(r, f) /\ f.cur \in Slot /\ Head(r) # "lookup"
  BY DEF Config
<1>3. r # <<>>
  BY <1>1 DEF IgetOf
<1>4. Config(Head(r), Tail(r), f) /\ Plain(Head(r))
  BY <1>1, IgetReturns DEF Alike
<1> QED BY <1>1, <1>3, <1>4 DEF Shift, Weight, One, Owns, Holds, Last, Copies, Plain

LEMMA IreadShifts == ASSUME TypeOK, Controlled, NEW p \in Proc, Iread(p) PROVE Shifts(p)
<1>1. At(p, "iread") /\ Config("iread", ret[p], u[p]) /\ ret[p] \in Seq(PC) /\ u[p] \in Frame
  BY HereAt DEF Iread
<1>2. CASE Set(p, [u[p] EXCEPT !.err = TRUE]) /\ Goto(p, "iput")
  BY <1>1, <1>2, IreadFails, GotoShifts
<1>3. CASE Return(p) /\ UNCHANGED u
  BY <1>1, <1>3, IreadDone, ReturnShifts, Unset
<1> QED BY <1>2, <1>3 DEF Iread

LEMMA Ifree_itrunc ==
  ASSUME NEW r \in Seq(PC), NEW f \in Frame, NEW t, Config("itrunc", r, f), Pushed("idrop", r, t)
  PROVE  Shift("itrunc", r, f, "iupdat", t, f) /\ ~Copies("iupdat")
<1>1. IputOf(r, f) /\ f.cur \in Slot
  BY DEF Config
<1>3. IupdatOf(t, f)
  BY <1>1 DEF Pushed, IupdatOf
<1>4. Config("iupdat", t, f)
  BY <1>1, <1>3 DEF Config
<1> QED BY <1>1, <1>4 DEF Pushed, Shift, Weight, One, Owns, Holds, Last, Copies

LEMMA Ifree_ifree ==
  ASSUME NEW r \in Seq(PC), NEW f \in Frame, NEW t, Config("ifree", r, f), Pushed("idrop", r, t)
  PROVE  Shift("ifree", r, f, "iupdat", t, f) /\ ~Copies("iupdat")
<1>1. IputOf(r, f) /\ f.cur \in Slot
  BY DEF Config
<1>3. IupdatOf(t, f)
  BY <1>1 DEF Pushed, IupdatOf
<1>4. Config("iupdat", t, f)
  BY <1>1, <1>3 DEF Config
<1> QED BY <1>1, <1>4 DEF Pushed, Shift, Weight, One, Owns, Holds, Last, Copies

LEMMA IfreeShifts == ASSUME TypeOK, Controlled, NEW p \in Proc, Ifree(p) PROVE Shifts(p)
<1>1. "idrop" \in PC
  BY DEF PC
<1>2. Call(p, "iupdat", "idrop") /\ UNCHANGED u
  BY DEF Ifree
<1>3. CASE At(p, "itrunc")
  BY <1>1, <1>2, <1>3, HereAt, Ifree_itrunc, CallShifts, PushSeq, Unset
<1>4. CASE At(p, "ifree")
  BY <1>1, <1>2, <1>4, HereAt, Ifree_ifree, CallShifts, PushSeq, Unset
<1> QED BY <1>3, <1>4 DEF Ifree

LEMMA IupdatFails ==
  ASSUME NEW r \in Seq(PC), NEW f \in Frame, NEW g, Config("iupdat", r, f), g = [f EXCEPT !.err = TRUE]
  PROVE  r # <<>> /\ g \in Frame /\ Shift("iupdat", r, f, Head(r), Tail(r), g) /\ ~Copies(Head(r))
<1>1. IupdatOf(r, f) /\ f.cur \in Slot
  BY DEF Config
<1>2. g \in Frame /\ g.name = f.name /\ g.to = f.to /\ g.flag = f.flag /\ g.ino = f.ino
      /\ g.dp = f.dp /\ g.ip = f.ip /\ g.cur = f.cur
  BY <1>1 DEF Frame
<1>3. r # <<>>
  BY <1>1 DEF IupdatOf
<1>4. /\ Config(Head(r), Tail(r), g) /\ Head(r) \in {"idrop", "ialstale", "wdir", "update1", "end"}
      /\ (Head(r) = "end" => r = <<"end">>)
  BY <1>1, <1>2, IupdatReturns DEF Alike
<1>5. Owns(Head(r), Tail(r)) <=> Owns("iupdat", r)
  BY <1>4 DEF Owns
<1>6. \A s \in Slot : Weight(Head(r), Tail(r), g, s) = Weight("iupdat", r, f, s)
  BY <1>1, <1>2, <1>5 DEF Weight, One
<1>7. r = <<"end">> => Head(r) = "end"
  BY Short
<1>8. \A s \in Slot : Holds(Head(r), Tail(r), g, s) <=> Holds("iupdat", r, f, s)
  BY <1>1, <1>2, <1>4, <1>7 DEF Holds
<1>9. (Last(Head(r), Tail(r)) => Last("iupdat", r) /\ g.cur = f.cur) /\ ~Copies(Head(r))
  BY <1>1, <1>2, <1>4 DEF Last, Copies
<1> QED BY <1>1, <1>2, <1>3, <1>4, <1>6, <1>8, <1>9 DEF Shift

LEMMA IupdatDone ==
  ASSUME NEW r \in Seq(PC), NEW f \in Frame, Config("iupdat", r, f)
  PROVE  r # <<>> /\ Shift("iupdat", r, f, Head(r), Tail(r), f) /\ ~Copies(Head(r))
<1>1. IupdatOf(r, f) /\ f.cur \in Slot
  BY DEF Config
<1>3. r # <<>>
  BY <1>1 DEF IupdatOf
<1>4. /\ Config(Head(r), Tail(r), f) /\ Head(r) \in {"idrop", "ialstale", "wdir", "update1", "end"}
      /\ (Head(r) = "end" => r = <<"end">>)
  BY <1>1, IupdatReturns DEF Alike
<1>5. Owns(Head(r), Tail(r)) <=> Owns("iupdat", r)
  BY <1>4 DEF Owns
<1>6. \A s \in Slot : Weight(Head(r), Tail(r), f, s) = Weight("iupdat", r, f, s)
  BY <1>1, <1>5 DEF Weight, One
<1>7. r = <<"end">> => Head(r) = "end"
  BY Short
<1>8. \A s \in Slot : Holds(Head(r), Tail(r), f, s) <=> Holds("iupdat", r, f, s)
  BY <1>1, <1>4, <1>7 DEF Holds
<1>9. (Last(Head(r), Tail(r)) => Last("iupdat", r) /\ f.cur = f.cur) /\ ~Copies(Head(r))
  BY <1>1, <1>4 DEF Last, Copies
<1> QED BY <1>1, <1>3, <1>4, <1>6, <1>8, <1>9 DEF Shift

LEMMA IupdatShifts == ASSUME TypeOK, Controlled, NEW p \in Proc, Iupdat(p) PROVE Shifts(p)
<1>1. At(p, "iupdat") /\ Config("iupdat", ret[p], u[p]) /\ ret[p] \in Seq(PC) /\ u[p] \in Frame
  BY HereAt DEF Iupdat
<1>2. CASE Set(p, [u[p] EXCEPT !.err = TRUE])
  BY <1>1, <1>2, IupdatFails, ReturnShifts DEF Iupdat
<1>3. CASE UNCHANGED u
  BY <1>1, <1>3, IupdatDone, ReturnShifts, Unset DEF Iupdat
<1> QED BY <1>2, <1>3 DEF Iupdat

LEMMA OpenShift ==
  ASSUME NEW r \in Seq(PC), NEW f \in Frame, NEW n \in Name, NEW g, NEW t, Config("idle", r, f), g =
         [NoCall EXCEPT !.name = n], Pushed("opened", r, t), ByName
  PROVE  g \in Frame /\ Shift("idle", r, f, "namei", t, g) /\ ~Copies("namei")
<1>1. r = <<>> /\ f.dp = 0 /\ f.ip = 0 /\ f.cur = 0
  BY DEF Config, NoCall
<1>2. g \in Frame /\ g.name = n /\ g.to = "none" /\ g.flag = 0 /\ g.ino = 0
      /\ g.dp = 0 /\ g.ip = 0 /\ g.cur = 0
  BY <1>1, NoCallIs DEF Frame
<1>3. Config("namei", t, g)
  BY <1>1, <1>2 DEF Pushed, Config, NameiOf
<1> QED BY <1>1, <1>2, <1>3 DEF Pushed, Shift, Weight, One, Owns, Holds, Last, Copies

LEMMA CreatShift ==
  ASSUME NEW r \in Seq(PC), NEW f \in Frame, NEW n \in Name, NEW g, NEW t, Config("idle", r, f), g =
         [NoCall EXCEPT !.name = n, !.flag = 1], Pushed("opened", r, t), ByName
  PROVE  g \in Frame /\ Shift("idle", r, f, "namei", t, g) /\ ~Copies("namei")
<1>1. r = <<>> /\ f.dp = 0 /\ f.ip = 0 /\ f.cur = 0
  BY DEF Config, NoCall
<1>2. g \in Frame /\ g.name = n /\ g.to = "none" /\ g.flag = 1 /\ g.ino = 0
      /\ g.dp = 0 /\ g.ip = 0 /\ g.cur = 0
  BY <1>1, NoCallIs, Flags DEF Frame
<1>3. Config("namei", t, g)
  BY <1>1, <1>2 DEF Pushed, Config, NameiOf
<1> QED BY <1>1, <1>2, <1>3 DEF Pushed, Shift, Weight, One, Owns, Holds, Last, Copies

LEMMA LinkShift ==
  ASSUME NEW r \in Seq(PC), NEW f \in Frame, NEW n \in Name, NEW d \in Name, NEW g, NEW t, Config("idle",
         r, f), g = [NoCall EXCEPT !.name = n, !.to = d], Pushed("link1", r, t), "link" \in Calls, ByName
  PROVE  g \in Frame /\ Shift("idle", r, f, "namei", t, g) /\ ~Copies("namei")
<1>1. r = <<>> /\ f.dp = 0 /\ f.ip = 0 /\ f.cur = 0
  BY DEF Config, NoCall
<1>2. g \in Frame /\ g.name = n /\ g.to = d /\ g.flag = 0 /\ g.ino = 0
      /\ g.dp = 0 /\ g.ip = 0 /\ g.cur = 0
  BY <1>1, NoCallIs DEF Frame
<1>3. Config("namei", t, g)
  BY <1>1, <1>2 DEF Pushed, Config, NameiOf
<1> QED BY <1>1, <1>2, <1>3 DEF Pushed, Shift, Weight, One, Owns, Holds, Last, Copies

LEMMA UnlinkShift ==
  ASSUME NEW r \in Seq(PC), NEW f \in Frame, NEW n \in Name, NEW g, NEW t, Config("idle", r, f), g =
         [NoCall EXCEPT !.name = n, !.flag = 2], Pushed("unlink1", r, t), ByName
  PROVE  g \in Frame /\ Shift("idle", r, f, "namei", t, g) /\ ~Copies("namei")
<1>1. r = <<>> /\ f.dp = 0 /\ f.ip = 0 /\ f.cur = 0
  BY DEF Config, NoCall
<1>2. g \in Frame /\ g.name = n /\ g.to = "none" /\ g.flag = 2 /\ g.ino = 0
      /\ g.dp = 0 /\ g.ip = 0 /\ g.cur = 0
  BY <1>1, NoCallIs, Flags DEF Frame
<1>3. Config("namei", t, g)
  BY <1>1, <1>2 DEF Pushed, Config, NameiOf
<1> QED BY <1>1, <1>2, <1>3 DEF Pushed, Shift, Weight, One, Owns, Holds, Last, Copies

LEMMA CloseShift ==
  ASSUME NEW r \in Seq(PC), NEW f \in Frame, NEW s \in Slot, NEW g, NEW t, Config("idle", r, f), g =
         [NoCall EXCEPT !.cur = s], Pushed("close1", r, t)
  PROVE  g \in Frame /\ Shift("idle", r, f, "plock", t, g)
<1>1. r = <<>> /\ f.dp = 0 /\ f.ip = 0 /\ f.cur = 0
  BY DEF Config, NoCall
<1>2. g \in Frame /\ g.name = "none" /\ g.to = "none" /\ g.flag = 0 /\ g.ino = 0
      /\ g.dp = 0 /\ g.ip = 0 /\ g.cur = s
  BY <1>1, NoCallIs DEF Frame
<1>3. Config("plock", t, g)
  BY <1>1, <1>2 DEF Pushed, Config
<1> QED BY <1>1, <1>2, <1>3 DEF Pushed, Shift, Weight, One, Owns, Holds, Last, Copies, Slot

LEMMA RdwrShift ==
  ASSUME NEW r \in Seq(PC), NEW f \in Frame, NEW s \in Slot, NEW g, NEW t, Config("idle", r, f), g =
         [NoCall EXCEPT !.cur = s], Pushed("rdwr1", r, t)
  PROVE  g \in Frame /\ Shift("idle", r, f, "plock", t, g)
<1>1. r = <<>> /\ f.dp = 0 /\ f.ip = 0 /\ f.cur = 0
  BY DEF Config, NoCall
<1>2. g \in Frame /\ g.name = "none" /\ g.to = "none" /\ g.flag = 0 /\ g.ino = 0
      /\ g.dp = 0 /\ g.ip = 0 /\ g.cur = s
  BY <1>1, NoCallIs DEF Frame
<1>3. Config("plock", t, g)
  BY <1>1, <1>2 DEF Pushed, Config
<1> QED BY <1>1, <1>2, <1>3 DEF Pushed, Shift, Weight, One, Owns, Holds, Last, Copies, Slot

LEMMA SyncShift ==
  ASSUME NEW r \in Seq(PC), NEW f \in Frame, NEW g, NEW t, Config("idle", r, f), g = [NoCall EXCEPT
         !.scan = 1], Pushed("end", r, t)
  PROVE  g \in Frame /\ Shift("idle", r, f, "update", t, g) /\ ~Copies("update")
<1>1. r = <<>> /\ f.dp = 0 /\ f.ip = 0 /\ f.cur = 0
  BY DEF Config, NoCall
<1>2. g \in Frame /\ g.name = "none" /\ g.to = "none" /\ g.flag = 0 /\ g.ino = 0
      /\ g.dp = 0 /\ g.ip = 0 /\ g.cur = 0
  BY <1>1, NoCallIs DEF Frame
<1>3. Config("update", t, g)
  BY <1>1, <1>2 DEF Pushed, Config
<1> QED BY <1>1, <1>2, <1>3 DEF Pushed, Shift, Weight, One, Owns, Holds, Last, Copies

LEMMA EndShift ==
  ASSUME NEW r \in Seq(PC), NEW f \in Frame, NEW g, Config("end", r, f), g = NoCall
  PROVE  g \in Frame /\ Shift("end", r, f, "idle", r, g) /\ ~Copies("idle")
<1>1. r = <<>> /\ f.dp = 0 /\ f.ip = 0
  BY DEF Config
<1>2. g \in Frame /\ g.name = "none" /\ g.to = "none" /\ g.flag = 0 /\ g.ino = 0
      /\ g.dp = 0 /\ g.ip = 0 /\ g.cur = 0
  BY <1>1, NoCallIs DEF Frame
<1>3. Config("idle", r, g)
  BY <1>1, <1>2 DEF Config
<1> QED BY <1>1, <1>2, <1>3 DEF Shift, Weight, One, Owns, Holds, Last, Copies, Slot

LEMMA SyncShifts == ASSUME TypeOK, Controlled, NEW p \in Proc, Sync(p) PROVE Shifts(p)
<1>1. "end" \in PC
  BY DEF PC
<1> QED BY <1>1, HereAt, SyncShift, CallShifts, PushSeq DEF Sync, Begin

LEMMA OpenShifts == ASSUME PipesApart, TypeOK, Controlled, NEW p \in Proc, Open(p) PROVE Shifts(p)
<1>1. PICK n \in Name : Begin(p, "open", [NoCall EXCEPT !.name = n], "namei", "opened")
  BY DEF Open
<1> DEFINE g == [NoCall EXCEPT !.name = n]
<1>2. At(p, "idle") /\ Set(p, g) /\ Call(p, "namei", "opened")
  BY <1>1 DEF Begin
<1>3. "opened" \in PC
  BY DEF PC
<1>4. Config("idle", ret[p], u[p]) /\ ret[p] \in Seq(PC) /\ u[p] \in Frame
  BY <1>2, HereAt
<1>5. ByName
  BY <1>1 DEF Begin, PipesApart
<1>6. g \in Frame /\ Shift("idle", ret[p], u[p], "namei", <<"opened">> \o ret[p], g) /\ ~Copies("namei")
  BY <1>2, <1>3, <1>4, <1>5, OpenShift, PushSeq
<1> HIDE DEF g
<1> QED BY <1>2, <1>3, <1>6, CallShifts

LEMMA CreatShifts == ASSUME PipesApart, TypeOK, Controlled, NEW p \in Proc, Creat(p) PROVE Shifts(p)
<1>1. PICK n \in Name : Begin(p, "creat", [NoCall EXCEPT !.name = n, !.flag = 1], "namei", "opened")
  BY DEF Creat
<1> DEFINE g == [NoCall EXCEPT !.name = n, !.flag = 1]
<1>2. At(p, "idle") /\ Set(p, g) /\ Call(p, "namei", "opened")
  BY <1>1 DEF Begin
<1>3. "opened" \in PC
  BY DEF PC
<1>4. Config("idle", ret[p], u[p]) /\ ret[p] \in Seq(PC) /\ u[p] \in Frame
  BY <1>2, HereAt
<1>5. ByName
  BY <1>1 DEF Begin, PipesApart
<1>6. g \in Frame /\ Shift("idle", ret[p], u[p], "namei", <<"opened">> \o ret[p], g) /\ ~Copies("namei")
  BY <1>2, <1>3, <1>4, <1>5, CreatShift, PushSeq
<1> HIDE DEF g
<1> QED BY <1>2, <1>3, <1>6, CallShifts

LEMMA LinkShifts == ASSUME PipesApart, TypeOK, Controlled, NEW p \in Proc, Link(p) PROVE Shifts(p)
<1>1. PICK n \in Name, d \in Name : Begin(p, "link", [NoCall EXCEPT !.name = n, !.to = d], "namei", "link1")
  BY DEF Link
<1> DEFINE g == [NoCall EXCEPT !.name = n, !.to = d]
<1>2. At(p, "idle") /\ Set(p, g) /\ Call(p, "namei", "link1") /\ "link" \in Calls
  BY <1>1 DEF Begin
<1>3. "link1" \in PC
  BY DEF PC
<1>4. Config("idle", ret[p], u[p]) /\ ret[p] \in Seq(PC) /\ u[p] \in Frame
  BY <1>2, HereAt
<1>5. ByName
  BY <1>1 DEF Begin, PipesApart
<1>6. g \in Frame /\ Shift("idle", ret[p], u[p], "namei", <<"link1">> \o ret[p], g) /\ ~Copies("namei")
  BY <1>2, <1>3, <1>4, <1>5, LinkShift, PushSeq
<1> HIDE DEF g
<1> QED BY <1>2, <1>3, <1>6, CallShifts

LEMMA UnlinkShifts == ASSUME PipesApart, TypeOK, Controlled, NEW p \in Proc, Unlink(p) PROVE Shifts(p)
<1>1. PICK n \in Name : Begin(p, "unlink", [NoCall EXCEPT !.name = n, !.flag = 2], "namei", "unlink1")
  BY DEF Unlink
<1> DEFINE g == [NoCall EXCEPT !.name = n, !.flag = 2]
<1>2. At(p, "idle") /\ Set(p, g) /\ Call(p, "namei", "unlink1")
  BY <1>1 DEF Begin
<1>3. "unlink1" \in PC
  BY DEF PC
<1>4. Config("idle", ret[p], u[p]) /\ ret[p] \in Seq(PC) /\ u[p] \in Frame
  BY <1>2, HereAt
<1>5. ByName
  BY <1>1 DEF Begin, PipesApart
<1>6. g \in Frame /\ Shift("idle", ret[p], u[p], "namei", <<"unlink1">> \o ret[p], g) /\ ~Copies("namei")
  BY <1>2, <1>3, <1>4, <1>5, UnlinkShift, PushSeq
<1> HIDE DEF g
<1> QED BY <1>2, <1>3, <1>6, CallShifts

LEMMA CloseShifts == ASSUME TypeOK, Controlled, NEW p \in Proc, Close(p) PROVE Shifts(p)
<1>1. PICK s \in Slot : file[p][s] > 0 /\ Begin(p, "close", [NoCall EXCEPT !.cur = s], "plock", "close1")
  BY DEF Close
<1> DEFINE g == [NoCall EXCEPT !.cur = s]
<1>2. At(p, "idle") /\ Set(p, g) /\ Call(p, "plock", "close1")
  BY <1>1 DEF Begin
<1>3. "close1" \in PC
  BY DEF PC
<1>4. g.cur = s
  BY DEF NoCall
<1>5. Config("idle", ret[p], u[p]) /\ ret[p] \in Seq(PC) /\ u[p] \in Frame
  BY <1>2, HereAt
<1>6. g \in Frame /\ Shift("idle", ret[p], u[p], "plock", <<"close1">> \o ret[p], g)
  BY <1>3, <1>5, CloseShift, PushSeq
<1> HIDE DEF g
<1> QED BY <1>1, <1>2, <1>3, <1>4, <1>6, CallShifts

LEMMA RdwrShifts == ASSUME TypeOK, Controlled, NEW p \in Proc, Rdwr(p) PROVE Shifts(p)
<1>1. PICK s \in Slot : file[p][s] > 0 /\ Begin(p, "rdwr", [NoCall EXCEPT !.cur = s], "plock", "rdwr1")
  BY DEF Rdwr
<1> DEFINE g == [NoCall EXCEPT !.cur = s]
<1>2. At(p, "idle") /\ Set(p, g) /\ Call(p, "plock", "rdwr1")
  BY <1>1 DEF Begin
<1>3. "rdwr1" \in PC
  BY DEF PC
<1>4. g.cur = s
  BY DEF NoCall
<1>5. Config("idle", ret[p], u[p]) /\ ret[p] \in Seq(PC) /\ u[p] \in Frame
  BY <1>2, HereAt
<1>6. g \in Frame /\ Shift("idle", ret[p], u[p], "plock", <<"rdwr1">> \o ret[p], g)
  BY <1>3, <1>5, RdwrShift, PushSeq
<1> HIDE DEF g
<1> QED BY <1>1, <1>2, <1>3, <1>4, <1>6, CallShifts

LEMMA EndShifts == ASSUME TypeOK, Controlled, NEW p \in Proc, End(p) PROVE Shifts(p)
BY HereAt, EndShift, GotoShifts DEF End

LEMMA OpenedNone ==
  ASSUME NEW r \in Seq(PC), NEW f \in Frame, Config("opened", r, f), f.cur = 0, f.dp = 0
  PROVE  Shift("opened", r, f, "end", r, f) /\ ~Copies("end")
<1>1. r = <<>> /\ (f.cur = 0 \/ f.dp = 0) /\ f.ip = 0 /\ f.to = "none" /\ f.name \in Name
  BY DEF Config
<1>3. Config("end", r, f)
  BY <1>1 DEF Config
<1> QED BY <1>1, <1>3 DEF Shift, Weight, One, Owns, Holds, Last, Copies, Slot

LEMMA OpenedNew ==
  ASSUME NEW r \in Seq(PC), NEW f \in Frame, NEW t, Config("opened", r, f), Pushed("maknode", r, t),
         f.cur = 0, f.dp # 0
  PROVE  Shift("opened", r, f, "ialloc", t, f) /\ ~Copies("ialloc")
<1>1. r = <<>> /\ (f.cur = 0 \/ f.dp = 0) /\ f.ip = 0 /\ f.to = "none" /\ f.name \in Name
  BY DEF Config
<1>3. Config("ialloc", t, f)
  BY <1>1, Registers DEF Pushed, Config, IallocOf
<1> QED BY <1>1, <1>3 DEF Pushed, Shift, Weight, One, Owns, Holds, Last, Copies

LEMMA OpenedOld ==
  ASSUME NEW r \in Seq(PC), NEW f \in Frame, NEW g, Config("opened", r, f), g = [f EXCEPT !.ip = f.cur,
         !.cur = 0], f.cur # 0
  PROVE  g \in Frame /\ Shift("opened", r, f, "grant", r, g) /\ ~Copies("grant")
<1>1. r = <<>> /\ (f.cur = 0 \/ f.dp = 0) /\ f.ip = 0 /\ f.to = "none" /\ f.name \in Name
  BY DEF Config
<1>2. g \in Frame /\ g.name = f.name /\ g.to = f.to /\ g.flag = f.flag /\ g.ino = f.ino
      /\ g.dp = f.dp /\ g.ip = f.cur /\ g.cur = 0
  BY <1>1, Registers, ZenonT(60) DEF Frame
<1>3. Config("grant", r, g)
  BY <1>1, <1>2, Registers DEF Config
<1> QED BY <1>1, <1>2, <1>3 DEF Shift, Weight, One, Owns, Holds, Last, Copies, Slot

LEMMA OpenedShifts == ASSUME TypeOK, Controlled, NEW p \in Proc, Opened(p) PROVE Shifts(p)
<1>1. At(p, "opened") /\ Config("opened", ret[p], u[p]) /\ ret[p] \in Seq(PC) /\ u[p] \in Frame
  BY HereAt DEF Opened
<1>2. "maknode" \in PC
  BY DEF PC
<1>3. CASE u[p].cur = 0 /\ u[p].dp = 0 /\ Goto(p, "end") /\ UNCHANGED u
  BY <1>1, <1>3, OpenedNone, GotoShifts, Unset
<1>4. CASE u[p].cur = 0 /\ u[p].dp # 0 /\ Call(p, "ialloc", "maknode") /\ UNCHANGED u
  BY <1>1, <1>2, <1>4, OpenedNew, CallShifts, PushSeq, Unset
<1>5. CASE u[p].cur # 0 /\ Set(p, [u[p] EXCEPT !.ip = u[p].cur, !.cur = 0]) /\ Goto(p, "grant")
  BY <1>1, <1>5, OpenedOld, GotoShifts
<1> QED BY <1>3, <1>4, <1>5 DEF Opened

LEMMA DenyShift ==
  ASSUME NEW r \in Seq(PC), NEW f \in Frame, NEW g, NEW t, Config("grant", r, f), g = [[f EXCEPT !.ip =
         0] EXCEPT !.cur = f.ip], Pushed("end", r, t)
  PROVE  g \in Frame /\ Shift("grant", r, f, "iput", t, g) /\ ~Copies("iput")
<1>1. r = <<>> /\ f.dp = 0 /\ f.ip \in Slot /\ f.cur = 0 /\ f.to = "none"
  BY DEF Config
<1>2. g \in Frame /\ g.name = f.name /\ g.to = f.to /\ g.flag = f.flag /\ g.ino = f.ino
      /\ g.dp = f.dp /\ g.ip = 0 /\ g.cur = f.ip
  BY <1>1 DEF Frame
<1>3. IputOf(t, g)
  BY <1>1, <1>2 DEF Pushed, IputOf
<1>4. Config("iput", t, g)
  BY <1>1, <1>2, <1>3 DEF Config
<1> QED BY <1>1, <1>2, <1>4 DEF Pushed, Shift, Weight, One, Owns, Holds, Last, Copies

LEMMA DenyShifts == ASSUME TypeOK, Controlled, NEW p \in Proc, Deny(p) PROVE Shifts(p)
<1>1. At(p, "grant") /\ Config("grant", ret[p], u[p]) /\ ret[p] \in Seq(PC) /\ u[p] \in Frame
  BY HereAt DEF Deny
<1>2. "end" \in PC
  BY DEF PC
<1> DEFINE g == [[u[p] EXCEPT !.ip = 0] EXCEPT !.cur = u[p].ip]
<1>3. Set(p, g) /\ Call(p, "iput", "end")
  BY DEF Deny, DropIp, Drop
<1>4. g \in Frame /\ Shift("grant", ret[p], u[p], "iput", <<"end">> \o ret[p], g) /\ ~Copies("iput")
  BY <1>1, <1>2, DenyShift, PushSeq
<1> HIDE DEF g
<1> QED BY <1>1, <1>2, <1>3, <1>4, CallShifts

LEMMA TruncShift ==
  ASSUME NEW r \in Seq(PC), NEW f \in Frame, Config("grant", r, f)
  PROVE  Shift("grant", r, f, "trunc", r, f) /\ ~Copies("trunc")
<1>1. r = <<>> /\ f.dp = 0 /\ f.ip \in Slot /\ f.cur = 0 /\ f.to = "none"
  BY DEF Config
<1>3. Config("trunc", r, f)
  BY <1>1 DEF Config
<1> QED BY <1>1, <1>3 DEF Shift, Weight, One, Owns, Holds, Last, Copies

LEMMA TruncShifts == ASSUME TypeOK, Controlled, NEW p \in Proc, Trunc(p) PROVE Shifts(p)
BY HereAt, TruncShift, GotoShifts, Unset DEF Trunc

LEMMA TruncatedShift ==
  ASSUME NEW r \in Seq(PC), NEW f \in Frame, Config("trunc", r, f)
  PROVE  Shift("trunc", r, f, "granted", r, f) /\ ~Copies("granted")
<1>1. r = <<>> /\ f.dp = 0 /\ f.ip \in Slot /\ f.cur = 0 /\ f.to = "none"
  BY DEF Config
<1>3. Config("granted", r, f)
  BY <1>1 DEF Config
<1> QED BY <1>1, <1>3 DEF Shift, Weight, One, Owns, Holds, Last, Copies

LEMMA TruncatedShifts == ASSUME TypeOK, Controlled, NEW p \in Proc, Truncated(p) PROVE Shifts(p)
BY HereAt, TruncatedShift, GotoShifts, Unset DEF Truncated

LEMMA MaknodeFails ==
  ASSUME NEW r \in Seq(PC), NEW f \in Frame, NEW g, NEW t, Config("maknode", r, f), g = [[f EXCEPT !.dp =
         0] EXCEPT !.cur = f.dp], Pushed("end", r, t), f.cur = 0
  PROVE  g \in Frame /\ Shift("maknode", r, f, "iput", t, g) /\ ~Copies("iput")
<1>1. r = <<>> /\ f.dp \in Slot /\ f.ip = 0 /\ f.to = "none" /\ f.name \in Name
  BY DEF Config
<1>2. g \in Frame /\ g.name = f.name /\ g.to = f.to /\ g.flag = f.flag /\ g.ino = f.ino
      /\ g.dp = 0 /\ g.ip = f.ip /\ g.cur = f.dp
  BY <1>1 DEF Frame
<1>3. IputOf(t, g)
  BY <1>1, <1>2 DEF Pushed, IputOf
<1>4. Config("iput", t, g)
  BY <1>1, <1>2, <1>3 DEF Config, Slot
<1> QED BY <1>1, <1>2, <1>4 DEF Pushed, Shift, Weight, One, Owns, Holds, Last, Copies, Slot

LEMMA MaknodeNew ==
  ASSUME NEW r \in Seq(PC), NEW f \in Frame, NEW g, NEW t, Config("maknode", r, f), g = [f EXCEPT !.ip =
         f.cur, !.flag = 0], Pushed("wdir", r, t), f.cur # 0
  PROVE  g \in Frame /\ Shift("maknode", r, f, "iupdat", t, g) /\ ~Copies("iupdat")
<1>1. r = <<>> /\ f.dp \in Slot /\ f.ip = 0 /\ f.to = "none" /\ f.name \in Name /\ ByName
  BY DEF Config
<1>2. g \in Frame /\ g.name = f.name /\ g.to = f.to /\ g.flag = 0 /\ g.ino = f.ino
      /\ g.dp = f.dp /\ g.ip = f.cur /\ g.cur = f.cur
  BY <1>1, Registers, Flags, ZenonT(60) DEF Frame
<1>3. IupdatOf(t, g)
  BY <1>1, <1>2, Registers, Short DEF Pushed, IupdatOf
<1>4. Config("iupdat", t, g)
  BY <1>1, <1>2, <1>3, Registers, Short DEF Config, Slot
<1> QED BY <1>1, <1>2, <1>4 DEF Pushed, Shift, Weight, One, Owns, Holds, Last, Copies, Slot

LEMMA MaknodeShifts == ASSUME TypeOK, Controlled, NEW p \in Proc, Maknode(p) PROVE Shifts(p)
<1>1. At(p, "maknode") /\ Config("maknode", ret[p], u[p]) /\ ret[p] \in Seq(PC) /\ u[p] \in Frame
  BY HereAt DEF Maknode
<1>2. "end" \in PC /\ "wdir" \in PC
  BY DEF PC
<1>3. CASE u[p].cur = 0 /\ DropDp(p, "end")
  BY <1>1, <1>2, <1>3, MaknodeFails, CallShifts, PushSeq DEF DropDp, Drop
<1>4. CASE u[p].cur # 0 /\ Set(p, [u[p] EXCEPT !.ip = u[p].cur, !.flag = 0]) /\ Call(p, "iupdat", "wdir")
  BY <1>1, <1>2, <1>4, MaknodeNew, CallShifts, PushSeq
<1> QED BY <1>3, <1>4 DEF Maknode

LEMMA WdirFails ==
  ASSUME NEW r \in Seq(PC), NEW f \in Frame, NEW g, NEW t, Config("wdir", r, f), g = [[f EXCEPT !.dp = 0]
         EXCEPT !.cur = f.dp], Pushed("grant", r, t)
  PROVE  g \in Frame /\ Shift("wdir", r, f, "iput", t, g) /\ ~Copies("iput")
<1>1. r = <<>> /\ f.dp \in Slot /\ f.ip \in Slot /\ f.cur = f.ip /\ f.to = "none" /\ f.name \in Name /\ ByName
  BY DEF Config
<1>2. g \in Frame /\ g.name = f.name /\ g.to = f.to /\ g.flag = f.flag /\ g.ino = f.ino
      /\ g.dp = 0 /\ g.ip = f.ip /\ g.cur = f.dp
  BY <1>1 DEF Frame
<1>3. IputOf(t, g)
  BY <1>1, <1>2 DEF Pushed, IputOf
<1>4. Config("iput", t, g)
  BY <1>1, <1>2, <1>3 DEF Config, Slot
<1> QED BY <1>1, <1>2, <1>4 DEF Pushed, Shift, Weight, One, Owns, Holds, Last, Copies, Slot

LEMMA WdirWrites ==
  ASSUME NEW r \in Seq(PC), NEW f \in Frame, NEW g, Config("wdir", r, f), g = [f EXCEPT !.cur = 0]
  PROVE  g \in Frame /\ Shift("wdir", r, f, "wentry", r, g) /\ ~Copies("wentry")
<1>1. r = <<>> /\ f.dp \in Slot /\ f.ip \in Slot /\ f.cur = f.ip /\ f.to = "none" /\ f.name \in Name
  BY DEF Config
<1>2. g \in Frame /\ g.name = f.name /\ g.to = f.to /\ g.flag = f.flag /\ g.ino = f.ino
      /\ g.dp = f.dp /\ g.ip = f.ip /\ g.cur = 0
  BY <1>1 DEF Frame
<1>3. Config("wentry", r, g)
  BY <1>1, <1>2 DEF Config
<1> QED BY <1>1, <1>2, <1>3 DEF Shift, Weight, One, Owns, Holds, Last, Copies, Slot

LEMMA WdirShifts == ASSUME TypeOK, Controlled, NEW p \in Proc, Wdir(p) PROVE Shifts(p)
<1>1. At(p, "wdir") /\ Config("wdir", ret[p], u[p]) /\ ret[p] \in Seq(PC) /\ u[p] \in Frame
  BY HereAt DEF Wdir
<1>2. "grant" \in PC
  BY DEF PC
<1>3. CASE DropDp(p, "grant")
  BY <1>1, <1>2, <1>3, WdirFails, CallShifts, PushSeq DEF DropDp, Drop
<1>4. CASE Set(p, [u[p] EXCEPT !.cur = 0]) /\ Goto(p, "wentry")
  BY <1>1, <1>4, WdirWrites, GotoShifts
<1> QED BY <1>3, <1>4 DEF Wdir

LEMMA WdirEndShift ==
  ASSUME NEW r \in Seq(PC), NEW f \in Frame, NEW g, NEW t, Config("wentry", r, f), g = [[f EXCEPT !.dp =
         0] EXCEPT !.cur = f.dp], Pushed("grant", r, t)
  PROVE  g \in Frame /\ Shift("wentry", r, f, "iput", t, g) /\ ~Copies("iput")
<1>1. r = <<>> /\ f.dp \in Slot /\ f.ip \in Slot /\ f.cur = 0 /\ f.to = "none" /\ f.name \in Name /\ ByName
  BY DEF Config
<1>2. g \in Frame /\ g.name = f.name /\ g.to = f.to /\ g.flag = f.flag /\ g.ino = f.ino
      /\ g.dp = 0 /\ g.ip = f.ip /\ g.cur = f.dp
  BY <1>1 DEF Frame
<1>3. IputOf(t, g)
  BY <1>1, <1>2 DEF Pushed, IputOf
<1>4. Config("iput", t, g)
  BY <1>1, <1>2, <1>3 DEF Config
<1> QED BY <1>1, <1>2, <1>4 DEF Pushed, Shift, Weight, One, Owns, Holds, Last, Copies

LEMMA WdirEndShifts == ASSUME TypeOK, Controlled, NEW p \in Proc, WdirEnd(p) PROVE Shifts(p)
<1>1. At(p, "wentry") /\ Config("wentry", ret[p], u[p]) /\ ret[p] \in Seq(PC) /\ u[p] \in Frame
  BY HereAt DEF WdirEnd
<1>2. "grant" \in PC
  BY DEF PC
<1> DEFINE g == [[u[p] EXCEPT !.dp = 0] EXCEPT !.cur = u[p].dp]
<1>3. Set(p, g) /\ Call(p, "iput", "grant")
  BY DEF WdirEnd, DropDp, Drop
<1>4. g \in Frame /\ Shift("wentry", ret[p], u[p], "iput", <<"grant">> \o ret[p], g) /\ ~Copies("iput")
  BY <1>1, <1>2, WdirEndShift, PushSeq
<1> HIDE DEF g
<1> QED BY <1>1, <1>2, <1>3, <1>4, CallShifts

LEMMA Link1None ==
  ASSUME NEW r \in Seq(PC), NEW f \in Frame, Config("link1", r, f), f.cur = 0
  PROVE  Shift("link1", r, f, "end", r, f) /\ ~Copies("end")
<1>1. r = <<>> /\ "link" \in Calls /\ f.dp = 0 /\ f.ip = 0 /\ f.to \in Name
  BY DEF Config
<1>3. Config("end", r, f)
  BY <1>1 DEF Config
<1> QED BY <1>1, <1>3 DEF Shift, Weight, One, Owns, Holds, Last, Copies, Slot

LEMMA Link1Many ==
  ASSUME NEW r \in Seq(PC), NEW f \in Frame, NEW t, Config("link1", r, f), Pushed("end", r, t), f.cur # 0
  PROVE  Shift("link1", r, f, "iput", t, f) /\ ~Copies("iput")
<1>1. r = <<>> /\ "link" \in Calls /\ f.dp = 0 /\ f.ip = 0 /\ f.to \in Name
  BY DEF Config
<1>3. IputOf(t, f)
  BY <1>1, Registers DEF Pushed, IputOf
<1>4. Config("iput", t, f)
  BY <1>1, <1>3, Registers DEF Config
<1> QED BY <1>1, <1>4 DEF Pushed, Shift, Weight, One, Owns, Holds, Last, Copies

LEMMA Link1Shifts == ASSUME TypeOK, Controlled, UNCHANGED u, NEW p \in Proc, Link1(p) PROVE Shifts(p)
<1>1. At(p, "link1") /\ Config("link1", ret[p], u[p]) /\ ret[p] \in Seq(PC) /\ u[p] \in Frame
  BY HereAt DEF Link1
<1>2. "end" \in PC
  BY DEF PC
<1>3. CASE u[p].cur = 0 /\ Goto(p, "end")
  BY <1>1, <1>3, Link1None, GotoShifts, Unset
<1>4. CASE u[p].cur # 0 /\ Call(p, "iput", "end")
  BY <1>1, <1>2, <1>4, Link1Many, CallShifts, PushSeq, Unset
<1>5. CASE u[p].cur # 0 /\ Set(p, [u[p] EXCEPT !.ip = u[p].cur, !.cur = 0, !.flag = 1, !.name = u[p].to])
  <2>1. u[p].cur = 0
    BY <1>1, <1>5 DEF Set, TypeOK, Frame
  <2> QED BY <1>5, <2>1
<1> QED BY <1>3, <1>4, <1>5 DEF Link1

LEMMA Link2Old ==
  ASSUME NEW r \in Seq(PC), NEW f \in Frame, NEW t, Config("link2", r, f), Pushed("linkout", r, t), f.cur
         # 0
  PROVE  Shift("link2", r, f, "iput", t, f) /\ ~Copies("iput")
<1>1. r = <<>> /\ "link" \in Calls /\ (f.cur = 0 \/ f.dp = 0) /\ f.ip \in Slot /\ f.to \in Name /\ f.name \in Name
  BY DEF Config
<1>3. IputOf(t, f)
  BY <1>1, Registers DEF Pushed, IputOf
<1>4. Config("iput", t, f)
  BY <1>1, <1>3, Registers DEF Config
<1> QED BY <1>1, <1>4 DEF Pushed, Shift, Weight, One, Owns, Holds, Last, Copies

LEMMA Link2Fails ==
  ASSUME NEW r \in Seq(PC), NEW f \in Frame, Config("link2", r, f), f.cur = 0, f.dp = 0
  PROVE  Shift("link2", r, f, "linkout", r, f) /\ ~Copies("linkout")
<1>1. r = <<>> /\ "link" \in Calls /\ (f.cur = 0 \/ f.dp = 0) /\ f.ip \in Slot /\ f.to \in Name /\ f.name \in Name
  BY DEF Config
<1>3. Config("linkout", r, f)
  BY <1>1 DEF Config
<1> QED BY <1>1, <1>3 DEF Shift, Weight, One, Owns, Holds, Last, Copies

LEMMA Link2New ==
  ASSUME NEW r \in Seq(PC), NEW f \in Frame, Config("link2", r, f), f.cur = 0, f.dp # 0
  PROVE  Shift("link2", r, f, "lentry", r, f) /\ ~Copies("lentry")
<1>1. r = <<>> /\ "link" \in Calls /\ (f.cur = 0 \/ f.dp = 0) /\ f.ip \in Slot /\ f.to \in Name /\ f.name \in Name
  BY DEF Config
<1>3. Config("lentry", r, f)
  BY <1>1, Registers DEF Config
<1> QED BY <1>1, <1>3 DEF Shift, Weight, One, Owns, Holds, Last, Copies

LEMMA Link2Shifts == ASSUME TypeOK, Controlled, NEW p \in Proc, Link2(p) PROVE Shifts(p)
<1>1. At(p, "link2") /\ Config("link2", ret[p], u[p]) /\ ret[p] \in Seq(PC) /\ u[p] \in Frame
  BY HereAt DEF Link2
<1>2. "linkout" \in PC
  BY DEF PC
<1>3. UNCHANGED u
  BY DEF Link2
<1>4. CASE u[p].cur # 0 /\ Call(p, "iput", "linkout")
  BY <1>1, <1>2, <1>3, <1>4, Link2Old, CallShifts, PushSeq, Unset
<1>5. CASE u[p].cur = 0 /\ u[p].dp = 0 /\ Goto(p, "linkout")
  BY <1>1, <1>3, <1>5, Link2Fails, GotoShifts, Unset
<1>6. CASE u[p].cur = 0 /\ u[p].dp # 0 /\ Goto(p, "lentry")
  BY <1>1, <1>3, <1>6, Link2New, GotoShifts, Unset
<1> QED BY <1>4, <1>5, <1>6 DEF Link2

LEMMA LinkEntryShift ==
  ASSUME NEW r \in Seq(PC), NEW f \in Frame, NEW g, NEW t, Config("lentry", r, f), g = [[f EXCEPT !.dp =
         0] EXCEPT !.cur = f.dp], Pushed("linked", r, t)
  PROVE  g \in Frame /\ Shift("lentry", r, f, "iput", t, g) /\ ~Copies("iput")
<1>1. r = <<>> /\ "link" \in Calls /\ f.cur = 0 /\ f.dp \in Slot /\ f.ip \in Slot /\ f.to \in Name /\ f.name \in Name
  BY DEF Config
<1>2. g \in Frame /\ g.name = f.name /\ g.to = f.to /\ g.flag = f.flag /\ g.ino = f.ino
      /\ g.dp = 0 /\ g.ip = f.ip /\ g.cur = f.dp
  BY <1>1 DEF Frame
<1>3. IputOf(t, g)
  BY <1>1, <1>2 DEF Pushed, IputOf
<1>4. Config("iput", t, g)
  BY <1>1, <1>2, <1>3 DEF Config
<1> QED BY <1>1, <1>2, <1>4 DEF Pushed, Shift, Weight, One, Owns, Holds, Last, Copies

LEMMA LinkEntryShifts == ASSUME TypeOK, Controlled, NEW p \in Proc, LinkEntry(p) PROVE Shifts(p)
<1>1. At(p, "lentry") /\ Config("lentry", ret[p], u[p]) /\ ret[p] \in Seq(PC) /\ u[p] \in Frame
  BY HereAt DEF LinkEntry
<1>2. "linked" \in PC
  BY DEF PC
<1> DEFINE g == [[u[p] EXCEPT !.dp = 0] EXCEPT !.cur = u[p].dp]
<1>3. Set(p, g) /\ Call(p, "iput", "linked")
  BY DEF LinkEntry, DropDp, Drop
<1>4. g \in Frame /\ Shift("lentry", ret[p], u[p], "iput", <<"linked">> \o ret[p], g) /\ ~Copies("iput")
  BY <1>1, <1>2, LinkEntryShift, PushSeq
<1> HIDE DEF g
<1> QED BY <1>1, <1>2, <1>3, <1>4, CallShifts

LEMMA LinkedShift ==
  ASSUME NEW r \in Seq(PC), NEW f \in Frame, Config("linked", r, f)
  PROVE  Shift("linked", r, f, "linkout", r, f) /\ ~Copies("linkout")
<1>1. r = <<>> /\ "link" \in Calls /\ f.cur = 0 /\ f.dp = 0 /\ f.ip \in Slot /\ f.to \in Name
  BY DEF Config
<1>3. Config("linkout", r, f)
  BY <1>1 DEF Config
<1> QED BY <1>1, <1>3 DEF Shift, Weight, One, Owns, Holds, Last, Copies

LEMMA LinkedShifts == ASSUME TypeOK, Controlled, NEW p \in Proc, Linked(p) PROVE Shifts(p)
BY HereAt, LinkedShift, GotoShifts, Unset DEF Linked

LEMMA LinkOutShift ==
  ASSUME NEW r \in Seq(PC), NEW f \in Frame, NEW g, NEW t, Config("linkout", r, f), g = [[f EXCEPT !.ip =
         0] EXCEPT !.cur = f.ip], Pushed("end", r, t)
  PROVE  g \in Frame /\ Shift("linkout", r, f, "iput", t, g) /\ ~Copies("iput")
<1>1. r = <<>> /\ "link" \in Calls /\ f.cur = 0 /\ f.dp = 0 /\ f.ip \in Slot /\ f.to \in Name
  BY DEF Config
<1>2. g \in Frame /\ g.name = f.name /\ g.to = f.to /\ g.flag = f.flag /\ g.ino = f.ino
      /\ g.dp = f.dp /\ g.ip = 0 /\ g.cur = f.ip
  BY <1>1 DEF Frame
<1>3. IputOf(t, g)
  BY <1>1, <1>2 DEF Pushed, IputOf
<1>4. Config("iput", t, g)
  BY <1>1, <1>2, <1>3 DEF Config
<1> QED BY <1>1, <1>2, <1>4 DEF Pushed, Shift, Weight, One, Owns, Holds, Last, Copies

LEMMA LinkOutShifts == ASSUME TypeOK, Controlled, NEW p \in Proc, LinkOut(p) PROVE Shifts(p)
<1>1. At(p, "linkout") /\ Config("linkout", ret[p], u[p]) /\ ret[p] \in Seq(PC) /\ u[p] \in Frame
  BY HereAt DEF LinkOut
<1>2. "end" \in PC
  BY DEF PC
<1> DEFINE g == [[u[p] EXCEPT !.ip = 0] EXCEPT !.cur = u[p].ip]
<1>3. Set(p, g) /\ Call(p, "iput", "end")
  BY DEF LinkOut, DropIp, Drop
<1>4. g \in Frame /\ Shift("linkout", ret[p], u[p], "iput", <<"end">> \o ret[p], g) /\ ~Copies("iput")
  BY <1>1, <1>2, LinkOutShift, PushSeq
<1> HIDE DEF g
<1> QED BY <1>1, <1>2, <1>3, <1>4, CallShifts

LEMMA Unlink1None ==
  ASSUME NEW r \in Seq(PC), NEW f \in Frame, Config("unlink1", r, f), f.dp = 0
  PROVE  Shift("unlink1", r, f, "end", r, f) /\ ~Copies("end")
<1>1. r = <<>> /\ f.cur = 0 /\ f.ip = 0 /\ f.to = "none" /\ f.name \in Name /\ (f.dp # 0 => f.ino \in Ino)
  BY DEF Config
<1>3. Config("end", r, f)
  BY <1>1 DEF Config
<1> QED BY <1>1, <1>3 DEF Shift, Weight, One, Owns, Holds, Last, Copies, Slot

LEMMA Unlink1Found ==
  ASSUME NEW r \in Seq(PC), NEW f \in Frame, NEW t, Config("unlink1", r, f), Pushed("unlink2", r, t),
         f.dp # 0
  PROVE  Shift("unlink1", r, f, "iget", t, f) /\ ~Copies("iget")
<1>1. r = <<>> /\ f.cur = 0 /\ f.ip = 0 /\ f.to = "none" /\ f.name \in Name /\ (f.dp # 0 => f.ino \in Ino) /\ ByName
  BY DEF Config
<1>3. IgetOf(t, f)
  BY <1>1, Registers DEF Pushed, IgetOf, Unlinking
<1>4. Config("iget", t, f)
  BY <1>1, <1>3, Registers DEF Config
<1> QED BY <1>1, <1>4 DEF Pushed, Shift, Weight, One, Owns, Holds, Last, Copies

LEMMA Unlink1Shifts == ASSUME TypeOK, Controlled, NEW p \in Proc, Unlink1(p) PROVE Shifts(p)
<1>1. At(p, "unlink1") /\ Config("unlink1", ret[p], u[p]) /\ ret[p] \in Seq(PC) /\ u[p] \in Frame
  BY HereAt DEF Unlink1
<1>2. "unlink2" \in PC
  BY DEF PC
<1>3. UNCHANGED u
  BY DEF Unlink1
<1>4. CASE u[p].dp = 0 /\ Goto(p, "end")
  BY <1>1, <1>3, <1>4, Unlink1None, GotoShifts, Unset
<1>5. CASE u[p].dp # 0 /\ Call(p, "iget", "unlink2")
  BY <1>1, <1>2, <1>3, <1>5, Unlink1Found, CallShifts, PushSeq, Unset
<1> QED BY <1>4, <1>5 DEF Unlink1

LEMMA Unlink2None ==
  ASSUME NEW r \in Seq(PC), NEW f \in Frame, Config("unlink2", r, f), f.cur = 0
  PROVE  Shift("unlink2", r, f, "unlink3", r, f) /\ ~Copies("unlink3")
<1>1. r = <<>> /\ Unlinking(f)
  BY DEF Config
<1>3. Config("unlink3", r, f)
  BY <1>1 DEF Config, Unlinking
<1> QED BY <1>1, <1>3 DEF Shift, Weight, One, Owns, Holds, Last, Copies

LEMMA Unlink2Found ==
  ASSUME NEW r \in Seq(PC), NEW f \in Frame, NEW g, Config("unlink2", r, f), g = [f EXCEPT !.ip = f.cur,
         !.cur = 0], f.cur # 0
  PROVE  g \in Frame /\ Shift("unlink2", r, f, "uentry", r, g) /\ ~Copies("uentry")
<1>1. r = <<>> /\ Unlinking(f)
  BY DEF Config
<1>2. g \in Frame /\ g.name = f.name /\ g.to = f.to /\ g.flag = f.flag /\ g.ino = f.ino
      /\ g.dp = f.dp /\ g.ip = f.cur /\ g.cur = 0
  BY <1>1, Registers DEF Frame
<1>3. Config("uentry", r, g)
  BY <1>1, <1>2, Registers DEF Config, Unlinking
<1> QED BY <1>1, <1>2, <1>3 DEF Shift, Weight, One, Owns, Holds, Last, Copies, Slot, Unlinking

LEMMA Unlink2Shifts == ASSUME TypeOK, Controlled, NEW p \in Proc, Unlink2(p) PROVE Shifts(p)
<1>1. At(p, "unlink2") /\ Config("unlink2", ret[p], u[p]) /\ ret[p] \in Seq(PC) /\ u[p] \in Frame
  BY HereAt DEF Unlink2
<1>3. CASE u[p].cur = 0 /\ Goto(p, "unlink3") /\ UNCHANGED u
  BY <1>1, <1>3, Unlink2None, GotoShifts, Unset
<1>4. CASE u[p].cur # 0 /\ Set(p, [u[p] EXCEPT !.ip = u[p].cur, !.cur = 0]) /\ Goto(p, "uentry")
  BY <1>1, <1>4, Unlink2Found, GotoShifts
<1> QED BY <1>3, <1>4 DEF Unlink2

LEMMA UnlinkEntryShift ==
  ASSUME NEW r \in Seq(PC), NEW f \in Frame, NEW g, NEW t, Config("uentry", r, f), g = [[f EXCEPT !.ip =
         0] EXCEPT !.cur = f.ip], Pushed("unlink3", r, t)
  PROVE  g \in Frame /\ Shift("uentry", r, f, "iput", t, g) /\ ~Copies("iput")
<1>1. r = <<>> /\ f.cur = 0 /\ f.dp \in Slot /\ f.ip \in Slot /\ f.to = "none" /\ f.name \in Name /\ ByName
  BY DEF Config
<1>2. g \in Frame /\ g.name = f.name /\ g.to = f.to /\ g.flag = f.flag /\ g.ino = f.ino
      /\ g.dp = f.dp /\ g.ip = 0 /\ g.cur = f.ip
  BY <1>1 DEF Frame
<1>3. IputOf(t, g)
  BY <1>1, <1>2 DEF Pushed, IputOf, Unlinking
<1>4. Config("iput", t, g)
  BY <1>1, <1>2, <1>3 DEF Config
<1> QED BY <1>1, <1>2, <1>4 DEF Pushed, Shift, Weight, One, Owns, Holds, Last, Copies

LEMMA UnlinkEntryShifts == ASSUME TypeOK, Controlled, NEW p \in Proc, UnlinkEntry(p) PROVE Shifts(p)
<1>1. At(p, "uentry") /\ Config("uentry", ret[p], u[p]) /\ ret[p] \in Seq(PC) /\ u[p] \in Frame
  BY HereAt DEF UnlinkEntry
<1>2. "unlink3" \in PC
  BY DEF PC
<1> DEFINE g == [[u[p] EXCEPT !.ip = 0] EXCEPT !.cur = u[p].ip]
<1>3. Set(p, g) /\ Call(p, "iput", "unlink3")
  BY DEF UnlinkEntry, DropIp, Drop
<1>4. g \in Frame /\ Shift("uentry", ret[p], u[p], "iput", <<"unlink3">> \o ret[p], g) /\ ~Copies("iput")
  BY <1>1, <1>2, UnlinkEntryShift, PushSeq
<1> HIDE DEF g
<1> QED BY <1>1, <1>2, <1>3, <1>4, CallShifts

LEMMA UnlinkEndShift ==
  ASSUME NEW r \in Seq(PC), NEW f \in Frame, NEW g, NEW t, Config("unlink3", r, f), g = [[f EXCEPT !.dp =
         0] EXCEPT !.cur = f.dp], Pushed("end", r, t)
  PROVE  g \in Frame /\ Shift("unlink3", r, f, "iput", t, g) /\ ~Copies("iput")
<1>1. r = <<>> /\ f.cur = 0 /\ f.dp \in Slot /\ f.ip = 0 /\ f.to = "none"
  BY DEF Config
<1>2. g \in Frame /\ g.name = f.name /\ g.to = f.to /\ g.flag = f.flag /\ g.ino = f.ino
      /\ g.dp = 0 /\ g.ip = f.ip /\ g.cur = f.dp
  BY <1>1 DEF Frame
<1>3. IputOf(t, g)
  BY <1>1, <1>2 DEF Pushed, IputOf
<1>4. Config("iput", t, g)
  BY <1>1, <1>2, <1>3 DEF Config
<1> QED BY <1>1, <1>2, <1>4 DEF Pushed, Shift, Weight, One, Owns, Holds, Last, Copies

LEMMA UnlinkEndShifts == ASSUME TypeOK, Controlled, NEW p \in Proc, UnlinkEnd(p) PROVE Shifts(p)
<1>1. At(p, "unlink3") /\ Config("unlink3", ret[p], u[p]) /\ ret[p] \in Seq(PC) /\ u[p] \in Frame
  BY HereAt DEF UnlinkEnd
<1>2. "end" \in PC
  BY DEF PC
<1> DEFINE g == [[u[p] EXCEPT !.dp = 0] EXCEPT !.cur = u[p].dp]
<1>3. Set(p, g) /\ Call(p, "iput", "end")
  BY DEF UnlinkEnd, DropDp, Drop
<1>4. g \in Frame /\ Shift("unlink3", ret[p], u[p], "iput", <<"end">> \o ret[p], g) /\ ~Copies("iput")
  BY <1>1, <1>2, UnlinkEndShift, PushSeq
<1> HIDE DEF g
<1> QED BY <1>1, <1>2, <1>3, <1>4, CallShifts

LEMMA Rdwr1Shift ==
  ASSUME NEW r \in Seq(PC), NEW f \in Frame, Config("rdwr1", r, f)
  PROVE  Shift("rdwr1", r, f, "rdwr", r, f)
<1>1. r = <<>> /\ f.cur \in Slot /\ f.dp = 0 /\ f.ip = 0
  BY DEF Config
<1>3. Config("rdwr", r, f)
  BY <1>1 DEF Config
<1> QED BY <1>1, <1>3 DEF Shift, Weight, One, Owns, Holds, Last, Copies

LEMMA Rdwr1Shifts == ASSUME TypeOK, Controlled, CopyKept, NEW p \in Proc, Rdwr1(p) PROVE Shifts(p)
<1>1. At(p, "rdwr1") /\ Config("rdwr1", ret[p], u[p]) /\ pc[p] = "rdwr1" /\ ret[p] \in Seq(PC) /\ u[p] \in Frame
  BY HereAt DEF Rdwr1
<1>2. file[p][u[p].cur] > 0
  BY <1>1 DEF CopyKept
<1> QED BY <1>1, <1>2, Rdwr1Shift, GotoShifts, Unset DEF Rdwr1

LEMMA Update1Shift ==
  ASSUME NEW r \in Seq(PC), NEW f \in Frame, NEW t, Config("update1", r, f), Pushed("update", r, t)
  PROVE  Shift("update1", r, f, "iput", t, f) /\ ~Copies("iput")
<1>1. r = <<"end">> /\ f.cur \in Slot /\ f.dp = 0 /\ f.ip = 0
  BY DEF Config
<1>3. IputOf(t, f)
  BY <1>1 DEF Pushed, IputOf
<1>4. Config("iput", t, f)
  BY <1>1, <1>3 DEF Config
<1> QED BY <1>1, <1>4 DEF Pushed, Shift, Weight, One, Owns, Holds, Last, Copies

LEMMA Update1Shifts == ASSUME TypeOK, Controlled, NEW p \in Proc, Update1(p) PROVE Shifts(p)
<1>1. "update" \in PC
  BY DEF PC
<1> QED BY <1>1, HereAt, Update1Shift, CallShifts, PushSeq, Unset DEF Update1

LEMMA UpdateNone ==
  ASSUME NEW r \in Seq(PC), NEW f \in Frame, Config("update", r, f)
  PROVE  r # <<>> /\ Shift("update", r, f, Head(r), Tail(r), f) /\ ~Copies(Head(r))
<1>1. r = <<"end">> /\ f.cur = 0 /\ f.dp = 0 /\ f.ip = 0
  BY DEF Config
<1>2. r # <<>> /\ Head(r) = "end" /\ Tail(r) = <<>>
  BY <1>1, Short
<1>3. Config("end", <<>>, f)
  BY <1>1 DEF Config
<1> QED BY <1>1, <1>2, <1>3 DEF Shift, Weight, One, Owns, Holds, Last, Copies, Slot

LEMMA UpdateNoneShifts == ASSUME TypeOK, Controlled, NEW p \in Proc, At(p, "update"), Return(p), UNCHANGED u PROVE Shifts(p)
BY HereAt, UpdateNone, ReturnShifts, Unset

LEMMA PipeShift ==
  ASSUME NEW r \in Seq(PC), NEW f \in Frame, NEW t, Config("idle", r, f), Pushed("pipe", r, t), ~ByName
  PROVE  Shift("idle", r, f, "ialloc", t, NoCall) /\ ~Copies("ialloc")
<1>1. r = <<>> /\ f = NoCall
  BY DEF Config
<1>2. NoCall.dp = 0 /\ NoCall.ip = 0 /\ NoCall.cur = 0
  BY DEF NoCall
<1>3. Config("ialloc", t, NoCall)
  BY <1>1, <1>2 DEF Pushed, Config, IallocOf
<1> QED BY <1>1, <1>2, <1>3 DEF Shift, Weight, One, Owns, Holds, Last, Copies, Slot

LEMMA PipeShifts == ASSUME TypeOK, Controlled, NEW p \in Proc, Pipe(p) PROVE Shifts(p)
<1>1. "pipe" \in PC /\ ~ByName
  BY DEF PC, ByName, Pipe, Begin
<1>2. NoCall \in Frame
  BY NoCallIs
<1> QED BY <1>1, <1>2, HereAt, PipeShift, CallShifts, PushSeq DEF Pipe, Begin

LEMMA PipeNone ==
  ASSUME NEW r \in Seq(PC), NEW f \in Frame, Config("pipe", r, f), f.cur = 0
  PROVE  Shift("pipe", r, f, "end", r, f) /\ ~Copies("end")
<1>1. r = <<>> /\ f.dp = 0 /\ f.ip = 0
  BY DEF Config
<1>2. Config("end", r, f)
  BY <1>1 DEF Config
<1> QED BY <1>1, <1>2 DEF Shift, Weight, One, Owns, Holds, Last, Copies, Slot

LEMMA PipeDrops ==
  ASSUME NEW r \in Seq(PC), NEW f \in Frame, NEW t, Config("pipe", r, f), Pushed("end", r, t), f.cur # 0
  PROVE  Shift("pipe", r, f, "iput", t, f) /\ ~Copies("iput")
<1>1. r = <<>> /\ f.dp = 0 /\ f.ip = 0 /\ f.cur \in Slot
  BY Registers DEF Config
<1>2. IputOf(t, f)
  BY <1>1 DEF Pushed, IputOf
<1>3. Config("iput", t, f)
  BY <1>1, <1>2 DEF Config
<1> QED BY <1>1, <1>3 DEF Shift, Weight, One, Owns, Holds, Last, Copies

LEMMA PipeFailsShifts == ASSUME TypeOK, Controlled, NEW p \in Proc, PipeFails(p) PROVE Shifts(p)
<1>1. "end" \in PC
  BY DEF PC
<1>2. CASE u[p].cur = 0
  BY <1>2, HereAt, PipeNone, GotoShifts, Unset DEF PipeFails
<1>3. CASE u[p].cur # 0
  BY <1>1, <1>3, HereAt, PipeDrops, CallShifts, PushSeq, Unset DEF PipeFails
<1> QED BY <1>2, <1>3

(* pipe() goes on to write the inode, and no longer needs its reference.   *)
LEMMA PipeWrites ==
  ASSUME NEW r \in Seq(PC), NEW f \in Frame, NEW t, Config("pipe", r, f), Pushed("end", r, t), f.cur # 0
  PROVE  /\ Config("iupdat", t, f) /\ f.cur \in Slot
         /\ \A s \in Slot : Weight("iupdat", t, f, s) = 0 /\ Weight("pipe", r, f, s) = One(f.cur = s)
         /\ \A s \in Slot : ~Holds("iupdat", t, f, s) /\ (Holds("pipe", r, f, s) <=> f.cur = s)
         /\ ~Last("iupdat", t) /\ ~Copies("iupdat")
<1>1. r = <<>> /\ ~ByName /\ f.dp = 0 /\ f.ip = 0 /\ f.cur \in Slot
  BY Registers DEF Config
<1>2. t = <<"end">> /\ t # <<>> /\ Head(t) = "end"
  BY <1>1 DEF Pushed
<1>3. Config("iupdat", t, f)
  BY <1>1, <1>2 DEF Config, IupdatOf
<1>4. ~Owns("iupdat", t) /\ Owns("pipe", r) /\ ~Last("iupdat", t) /\ ~Copies("iupdat")
  BY <1>2 DEF Owns, Last, Copies
<1> QED BY <1>1, <1>2, <1>3, <1>4 DEF Weight, One, Holds, Slot

(* Where pipe() is called, no process is in a call by name.                *)
LEMMA PipeLabels ==
  ASSUME PipesApart, ~ByName, NEW l, NEW r, NEW f, Config(l, r, f)
  PROVE  l \notin {"namei", "lookup", "search", "child", "opened", "maknode", "wdir", "wentry", "grant", "granted",
                   "trunc", "link1", "link2", "lentry", "linked", "linkout", "unlink1", "unlink2", "uentry", "unlink3"}
<1>1. \A n : ~NameiOf(n, f)
  BY DEF NameiOf
<1>2. ~Unlinking(f) /\ "link" \notin Calls
  BY DEF Unlinking, PipesApart
<1> QED BY <1>1, <1>2 DEF Config

(* There, iget returns to ialloc, and ialloc to pipe().                    *)
LEMMA PipeCallers ==
  ASSUME ~ByName, NEW r, NEW f
  PROVE  /\ IallocOf(r, f) => r # <<>> /\ Head(r) = "pipe"
         /\ IgetOf(r, f) => Head(r) = "ialgot"
<1>1. \A n : ~NameiOf(n, f)
  BY DEF NameiOf
<1>2. ~Unlinking(f)
  BY DEF Unlinking
<1> QED BY <1>1, <1>2, Short DEF IallocOf, IgetOf
=============================================================================
