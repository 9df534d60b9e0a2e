---------------------------- MODULE PacketDriver ----------------------------
(***************************************************************************)
(* The packet driver of uucp, as user processes run it (cmd/uucp/pk0.c and *)
(* pk1.c compiled with USER): two ends of a serial line exchange packets   *)
(* through a sliding window. pkopen synchronises the line (INITA, INITB,   *)
(* INITC), pkwrite, pkread and pkclose are called by gio.c, and everything *)
(* that arrives is handled inside pkgetpack, which each of them calls when *)
(* it must wait. The line loses and damages packets; it does not reorder   *)
(* or duplicate them. An alarm interrupts a wait on a silent line.         *)
(***************************************************************************)
EXTENDS Integers, Sequences, FiniteSets, SequencesExt, FiniteSetsExt

CONSTANTS
  MOD,         \* sequence numbers are 0..MOD-1 (MOD8 + 1)
  WINDOWS,     \* packets a writer may be ahead; buffers a reader has
  GETRIES,     \* alarms in a row after which pkgetpack gives up
  CONNODATA,   \* packets without data after which pkgetpack gives up
  PKMAXSTMSG,  \* packets pkopen waits for
  Script,      \* what each end does: its calls of pkwrite and pkread, then pkclose
  Prompt,      \* the alarm never beats a peer that still has something to do
  Faults,      \* what may happen to a packet: "lost", "header", "sum", "cut"
  MaxLine,     \* bound: an alarm adds no packet to a line that holds so many
  MaxFaults    \* bound: packets lost or damaged

End == 1..2
Peer(e) == 3 - e
Seqno == 0..MOD-1
next(x) == (x + 1) % MOD
(* The numbers after a, up to b.                                           *)
Upto(a, b) == {(a + i) % MOD : i \in 1..((b - a) % MOD)}

ASSUME WindowAssumption == MOD \in Nat /\ WINDOWS \in Nat \ {0} /\ 2 * WINDOWS <= MOD
ASSUME BoundAssumption ==
  /\ {GETRIES, CONNODATA, PKMAXSTMSG} \subseteq Nat \ {0}
  /\ Prompt \in BOOLEAN /\ Faults \subseteq {"lost", "header", "sum", "cut"} /\ MaxLine \in Nat /\ MaxFaults \in Nat
ASSUME ScriptAssumption ==
  \A e \in End : Script[e] \in Seq([op : {"write", "read"}, n : Nat \ {0}])

VARIABLES
  pk,      \* struct pack of each end (with Connodata, and out: what pkoutput sent in this step)
  prog,    \* where each end is: pc, tries of pkgetpack, call of the script, packets of it to go
  wrote,   \* packets given to pkwrite so far; the n-th carries n
  rcvd,    \* what pkread has returned
  line,    \* what travels to each end
  faults   \* packets lost or damaged

vars == <<pk, prog, wrote, rcvd, line, faults>>

(* Control messages in the order of their bits in p_msg.                   *)
Control == <<"CLOSE", "RJ", "RR", "INITC", "INITB", "INITA">>
Message == Range(Control)
State == {"INITa", "INITb", "LIVE", "RXMIT", "DRAINO", "DOWN", "RCLOSE"}
PacketAhead(type, seq, ack, data) ==   \* mutant: it acknowledges the next packet
  [type |-> type, seq |-> seq, ack |-> IF type \in {"data", "RR"} THEN next(ack) ELSE ack, data |-> data]
Packet(type, seq, ack, data) == [type |-> type, seq |-> seq, ack |-> ack, data |-> data]

(* An input buffer is free, raw (filled by pkdata, its bit in p_imap) or   *)
(* copy (accepted: B_MARK, B_COPY); sum says whether its checksum is right. *)
FreeSlot == [st |-> "free", seq |-> 0, data |-> 0, sum |-> TRUE]

Ended == {"closed", "failed", "wild"}
PC == Ended \cup {"start", "opening", "call", "write", "window", "read", "flush", "bye"}

Init ==
  /\ pk = [e \in End |->
       [state |-> {}, msg |-> {}, rmsg |-> {}, ps |-> 0, pr |-> 0, rpr |-> 0, nxtps |-> 0,
        pscopy |-> 0, xcount |-> 0, os |-> [x \in Seqno |-> "null"], ob |-> [x \in Seqno |-> 0],
        is |-> [x \in Seqno |-> FreeSlot], rcount |-> 0, pool |-> WINDOWS, connodata |-> 0, out |-> <<>>]]
  /\ prog = [e \in End |-> [pc |-> "start", tries |-> 0, call |-> 0, left |-> 0]]
  /\ wrote = [e \in End |-> 0]
  /\ rcvd = [e \in End |-> <<>>]
  /\ line = [e \in End |-> <<>>]
  /\ faults = 0

-----------------------------------------------------------------------------
(* The driver's functions, from the struct pack before to the one after.   *)

Down(k) == "DOWN" \in k.state
Live(k) == "LIVE" \in k.state
Send(k, p) == [k EXCEPT !.out = Append(@, p)]

(* pkoutput sends at most one packet: what pkxstart would send after it    *)
(* finds p_obusy set. A control message goes first, unless it is RR and    *)
(* there is data to carry the acknowledgement. RXMIT goes back to the      *)
(* first packet that is not acknowledged.                                  *)
pkoutput(k) ==
  LET nxt == IF "RXMIT" \in k.state THEN next(k.rpr) ELSE k.nxtps
      first == Control[Min({i \in DOMAIN Control : Control[i] \in k.msg})]
      k1 == [k EXCEPT !.nxtps = nxt]
  IN IF k.msg # {} /\ (k.msg \ {"RR"} # {} \/ k.os[nxt] = "null")
     THEN Send([k1 EXCEPT !.msg = @ \ {first}],
               Packet(first, 0, IF first \in {"RJ", "RR"} THEN k.pr ELSE 0, 0))
     ELSE IF Down(k) \/ k.os[nxt] = "null" THEN k1
     ELSE Send([k1 EXCEPT !.nxtps = next(nxt), !.os[nxt] = "sent", !.connodata = 0,
                          !.state = @ \ {"RXMIT"}],
               Packet("data", nxt, k.pr, k.ob[nxt]))

(* pksack: the packets sent and acknowledged by p_rpr are done with.       *)
pksack(k) ==
  LET acked == {x \in Upto(k.ps, k.rpr) : k.os[x] = "sent"}
  IN [k EXCEPT !.os = [x \in Seqno |-> IF x \in acked THEN "null" ELSE @[x]],
               !.ob = [x \in Seqno |-> IF x \in acked THEN 0 ELSE @[x]],
               !.xcount = @ - Cardinality(acked),
               !.ps = IF acked = {} THEN @
                      ELSE CHOOSE x \in acked : acked \subseteq Upto(k.ps, x)]

(* The states and messages that each control message sets.                 *)
Handled(k, type) ==
  CASE type = "INITA" -> [k EXCEPT !.state = @ \cup {"INITa"}, !.msg = @ \cup {"INITB"}, !.rmsg = @ \cup {"INITB"}]
    [] type = "INITB" /\ Live(k) -> [k EXCEPT !.msg = @ \cup {"INITC"}]
    [] type = "INITB" /\ ~Live(k) /\ "INITa" \notin k.state -> [k EXCEPT !.state = @ \cup {"INITb"}]
    [] type = "INITB" /\ ~Live(k) /\ "INITa" \in k.state ->
         [k EXCEPT !.state = @ \cup {"INITb"}, !.msg = @ \cup {"INITC"}, !.rmsg = @ \ {"INITA"}]
    [] type = "INITC" /\ {"INITa", "INITb"} \subseteq k.state ->
         [k EXCEPT !.state = {"LIVE"}, !.rmsg = @ \ {"INITB"}]
    [] type = "INITC" /\ ~({"INITa", "INITb"} \subseteq k.state) -> [k EXCEPT !.msg = @ \cup {"INITB"}]
    [] type = "RJ" -> [k EXCEPT !.state = @ \cup {"RXMIT"}, !.msg = @ \cup {"RR"}]
    [] OTHER -> k

pkcntlDeaf(k, p) ==   \* mutant: RJ is taken for RR
  IF p.type = "CLOSE" THEN [k EXCEPT !.state = {"DOWN", "RCLOSE"}]
  ELSE LET k1 == Handled(k, IF p.type = "RJ" THEN "RR" ELSE p.type)
           k2 == IF p.type \in {"RJ", "RR"} THEN pksack([k1 EXCEPT !.rpr = p.ack]) ELSE k1
       IN IF k2.msg # {} THEN pkoutput(k2) ELSE k2

pkcntl(k, p) ==
  IF p.type = "CLOSE" THEN [k EXCEPT !.state = {"DOWN", "RCLOSE"}]
  ELSE LET k1 == Handled(k, p.type)
           k2 == IF p.type \in {"RJ", "RR"} THEN pksack([k1 EXCEPT !.rpr = p.ack]) ELSE k1
       IN IF k2.msg # {} THEN pkoutput(k2) ELSE k2

(* pkdata: the packet (in a buffer already taken from the pool) goes into  *)
(* the first free slot from p_pr downwards, the slot after p_pr excepted.  *)
Filled(p, sum) == [st |-> "raw", seq |-> p.seq, data |-> IF sum THEN p.data ELSE 0, sum |-> sum]
pkdataUp(k, p, sum) ==   \* mutant: upwards
  LET free == {i \in 0..MOD-2 : k.is[(k.pr + i) % MOD].st = "free"}
  IN [k EXCEPT !.is[(k.pr + Min(free)) % MOD] = Filled(p, sum)]
pkdataTrust(k, p, sum) ==   \* mutant: the checksum is not kept
  LET free == {i \in 0..MOD-2 : k.is[(k.pr - i) % MOD].st = "free"}
  IN [k EXCEPT !.is[(k.pr - Min(free)) % MOD] = [Filled(p, sum) EXCEPT !.sum = TRUE]]
pkdata(k, p, sum) ==
  LET free == {i \in 0..MOD-2 : k.is[(k.pr - i) % MOD].st = "free"}
  IN IF "DRAINO" \in k.state \/ ~Live(k)
     THEN [pkoutput([k EXCEPT !.msg = @ \cup k.rmsg]) EXCEPT !.pool = @ + 1]
     ELSE IF free = {} THEN [k EXCEPT !.pool = @ + 1]
     ELSE [k EXCEPT !.is[(k.pr - Min(free)) % MOD] = Filled(p, sum)]

Window(k) == {(k.pr + i) % MOD : i \in 1..WINDOWS}
ReleaseSlots(k, xs) ==   \* mutant: the buffers do not go back to the pool
  [k EXCEPT !.is = [x \in Seqno |-> IF x \in xs THEN FreeSlot ELSE @[x]]]
Release(k, xs) == [k EXCEPT !.is = [x \in Seqno |-> IF x \in xs THEN FreeSlot ELSE @[x]],
                            !.pool = @ + Cardinality(xs)]

(* pkaccept: a raw buffer whose number is in the window moves to the slot  *)
(* of its number. What follows a missing number is free again, and so are  *)
(* what is there twice, what is outside the window and what is damaged.    *)
(* p_rcount is how many pkread may take.                                   *)
pkaccept(k) ==
  LET used == {x \in Seqno : k.is[x].st # "free"}
      raw(x) == {y \in used : k.is[y].st = "raw" /\ k.is[y].sum /\ k.is[y].seq = x}
      there == {x \in Window(k) : k.is[x].st = "copy" \/ raw(x) # {}}
      run == Max({n \in 0..WINDOWS : \A i \in 1..n : (k.pr + i) % MOD \in there})
      kept == {(k.pr + i) % MOD : i \in 1..run}
      buffer(x) == IF k.is[x].st = "copy" THEN x ELSE Min(raw(x))
      good == {x \in used : k.is[x].sum}
  IN [k EXCEPT
        !.is = [x \in Seqno |-> IF x \in kept THEN [k.is[buffer(x)] EXCEPT !.st = "copy"] ELSE FreeSlot],
        !.rcount = run,
        !.pool = @ + Cardinality(used) - run,
        !.msg = @ \cup (IF good # used THEN {"RJ"} ELSE {})
                  \cup (IF Cardinality(good) > run THEN {"RR"} ELSE {})]

Pending(k) == k.rcount > 0 \/ \E x \in Seqno : k.is[x].st = "raw"

pkreset(k) == [k EXCEPT !.ps = 0, !.pr = 0, !.rpr = 0, !.nxtps = 1]

(* pkclose does not wait: SLEEP is empty in a user process. It tries twice *)
(* to send what is not acknowledged, and says CLOSE twice.                 *)
MayFlush(k) == k.xcount > 0 /\ Live(k) /\ ~Down(k)

-----------------------------------------------------------------------------
(* End e goes on with struct pack k, at prg; rest is what it leaves of its *)
(* line. What it sends to an end that has gone is lost.                    *)
Step(e, k, prg, rest) ==
  /\ pk' = [pk EXCEPT ![e] = [k EXCEPT !.out = <<>>]]
  /\ prog' = [prog EXCEPT ![e] = prg]
  /\ line' = [line EXCEPT ![e] = IF prg.pc \in Ended THEN <<>> ELSE rest,
                          ![Peer(e)] = IF prog[Peer(e)].pc \in Ended THEN <<>> ELSE @ \o k.out]
Go(e, k, pc) == Step(e, k, [prog[e] EXCEPT !.pc = pc], line[e])

Pkopen(e) ==
  /\ prog[e].pc = "start"
  /\ Step(e, pkoutput([pk[e] EXCEPT !.msg = {"INITA"}, !.rmsg = {"INITA"}]),
          [prog[e] EXCEPT !.pc = "opening", !.left = PKMAXSTMSG], line[e])
  /\ UNCHANGED <<wrote, rcvd, faults>>

(* The next call of the script.                                            *)
Call(e) ==
  /\ prog[e].pc = "call"
  /\ prog[e].call < Len(Script[e])
  /\ LET c == Script[e][prog[e].call + 1]
     IN Step(e, pk[e], [pc |-> IF c.op = "write" /\ Down(pk[e]) THEN "failed" ELSE c.op,
                        tries |-> 0, call |-> prog[e].call + 1, left |-> c.n], line[e])
  /\ UNCHANGED <<wrote, rcvd, faults>>

Pkclose(e) ==
  /\ prog[e].pc = "call"
  /\ prog[e].call = Len(Script[e])
  /\ Step(e, [pk[e] EXCEPT !.state = @ \cup {"DRAINO"}],
          [prog[e] EXCEPT !.pc = "flush", !.left = 2], line[e])
  /\ UNCHANGED <<wrote, rcvd, faults>>

PkcloseFlush(e) ==
  /\ prog[e].pc = "flush"
  /\ IF MayFlush(pk[e]) /\ prog[e].left > 0
     THEN Step(e, pkoutput(pk[e]), [prog[e] EXCEPT !.left = @ - 1], line[e])
     ELSE Step(e, [pk[e] EXCEPT !.state = @ \cup {"DOWN"}],
               [prog[e] EXCEPT !.pc = "bye", !.left = 2], line[e])
  /\ UNCHANGED <<wrote, rcvd, faults>>

PkcloseBye(e) ==
  /\ prog[e].pc = "bye"
  /\ IF "RCLOSE" \in pk[e].state \/ prog[e].left = 0
     THEN Go(e, pk[e], "closed")
     ELSE Step(e, pkoutput([pk[e] EXCEPT !.msg = {"CLOSE"}]), [prog[e] EXCEPT !.left = @ - 1], line[e])
  /\ UNCHANGED <<wrote, rcvd, faults>>

(* pkwrite, for one packet: wait while the window is full (and output what *)
(* can be), then give it the next number and output.                       *)
PkwriteWait(e) ==
  /\ prog[e].pc = "write"
  /\ pk[e].xcount >= WINDOWS \/ pk[e].os[next(pk[e].pscopy)] # "null"
  /\ Go(e, IF pk[e].xcount >= WINDOWS THEN pkoutput(pk[e]) ELSE pk[e], "window")
  /\ UNCHANGED <<wrote, rcvd, faults>>

PkwritePut(e) ==
  /\ prog[e].pc = "write"
  /\ pk[e].xcount < WINDOWS
  /\ LET x == next(pk[e].pscopy)
         k == [pk[e] EXCEPT !.pscopy = x, !.xcount = @ + 1, !.os[x] = "ready", !.ob[x] = wrote[e] + 1]
         last == prog[e].left = 1
     IN /\ pk[e].os[x] = "null"
        /\ Step(e, pkoutput(k), [prog[e] EXCEPT !.left = @ - 1, !.pc = IF last THEN "call" ELSE "write"],
                line[e])
  /\ wrote' = [wrote EXCEPT ![e] = @ + 1]
  /\ UNCHANGED <<rcvd, faults>>

(* pkread: pkaccept until something is accepted; then as many packets as   *)
(* are there and were asked for, and the acknowledgement.                  *)
Pkaccept(e) ==
  /\ prog[e].pc = "read" /\ Pending(pk[e])
  /\ pkaccept(pk[e]).rcount = 0
  /\ Go(e, pkaccept(pk[e]), "read")
  /\ UNCHANGED <<wrote, rcvd, faults>>

Pkread(e) ==
  /\ prog[e].pc = "read" /\ Pending(pk[e])
  /\ LET k == pkaccept(pk[e])
         n == Min({k.rcount, prog[e].left})
         got(i) == (k.pr + i) % MOD
         k1 == [Release(k, {got(i) : i \in 1..n}) EXCEPT
                  !.pr = got(n), !.rcount = @ - n, !.msg = @ \cup {"RR"}]
     IN /\ n > 0
        /\ Step(e, pkoutput(k1),
                [prog[e] EXCEPT !.left = @ - n, !.pc = IF n = prog[e].left THEN "call" ELSE "read"], line[e])
        /\ rcvd' = [rcvd EXCEPT ![e] = @ \o [i \in 1..n |-> k.is[got(i)].data]]
  /\ UNCHANGED <<wrote, faults>>

-----------------------------------------------------------------------------
(* pkgetpack, called by pkopen, by pkwrite and by pkaccept with nothing to *)
(* accept.                                                                 *)
Getting(e) == prog[e].pc \in {"opening", "window"} \/ (prog[e].pc = "read" /\ ~Pending(pk[e]))
GivesUpDown(e) == Down(pk[e])   \* mutant: no limit on packets without data
GivesUp(e) == Down(pk[e]) \/ pk[e].connodata > CONNODATA

Pkfail(e) ==
  /\ Getting(e) /\ GivesUp(e)
  /\ Go(e, pk[e], "failed")
  /\ UNCHANGED <<wrote, rcvd, faults>>

(* The alarm: repeat the messages of p_rmsg, or say RR, and retransmit.    *)
SilentLive(e) ==   \* mutant: no alarm before the line is live
  Getting(e) /\ ~GivesUp(e) /\ line[e] = <<>> /\ Live(pk[e]) /\ Len(line[Peer(e)]) < MaxLine
Silent(e) ==
  /\ Getting(e) /\ ~GivesUp(e) /\ line[e] = <<>>
  /\ Len(line[Peer(e)]) < (IF Prompt THEN 1 ELSE MaxLine)
  /\ Prompt => Getting(Peer(e)) \/ prog[Peer(e)].pc \in Ended

Timeout(e) ==
  /\ Silent(e)
  /\ LET k == pk[e]
         again == IF k.msg \cup k.rmsg = {} THEN {"RR"} ELSE k.msg \cup k.rmsg
         k1 == [k EXCEPT !.msg = again, !.state = IF Live(k) THEN @ \cup {"RXMIT"} ELSE @]
     IN Step(e, pkoutput(k1),
             [prog[e] EXCEPT !.tries = @ + 1,
                             !.pc = IF prog[e].tries + 1 >= GETRIES THEN "failed" ELSE @], <<>>)
  /\ UNCHANGED <<wrote, rcvd, faults>>

(* A fault of the line, or none.                                           *)
Fault(kind) ==
  /\ kind # "none" => kind \in Faults /\ faults < MaxFaults
  /\ faults' = faults + (IF kind = "none" THEN 0 ELSE 1)

(* What arrives of a packet: all of it, a bad header, data that does not   *)
(* match its checksum, or a header without its data.                       *)
Damage(p) == {"none", "header"} \cup IF p.type = "data" THEN {"sum", "cut"} ELSE {}

(* The pool is empty: bp is NULL and *bp, the contents of address 0, its   *)
(* new head. What the end does from there is not followed.                 *)
Wild(k, p, how) == p.type = "data" /\ how # "header" /\ k.pool = 0

Handle(k, p, how) ==
  LET k1 == [k EXCEPT !.connodata = @ + 1]
      k2 == pksack([k EXCEPT !.rpr = p.ack, !.connodata = 0])
      k3 == [k2 EXCEPT !.pool = @ - 1]
  IN CASE how = "header" -> k1
       [] how = "none" /\ p.type # "data" -> pkcntl(k1, p)
       [] how = "cut" -> k3
       [] p.type = "data" /\ how \in {"none", "sum"} -> pkdata(k3, p, how = "none")

Receive(e, how) ==
  /\ Getting(e) /\ ~GivesUp(e) /\ line[e] # <<>>
  /\ how \in Damage(Head(line[e]))
  /\ Fault(how)
  /\ LET p == Head(line[e])
         k == Handle(pk[e], p, how)
         prg == [prog[e] EXCEPT !.tries = 0]
         rest == Tail(line[e])
     IN CASE Wild(pk[e], p, how) -> Step(e, pk[e], [prg EXCEPT !.pc = "wild"], rest)
          [] ~Wild(pk[e], p, how) /\ prg.pc = "opening" /\ Live(k) ->
               Step(e, pkreset(k), [prg EXCEPT !.pc = "call", !.left = 0], rest)
          [] ~Wild(pk[e], p, how) /\ prg.pc = "opening" /\ ~Live(k) ->
               Step(e, k, [prg EXCEPT !.left = @ - 1, !.pc = IF prg.left = 1 THEN "failed" ELSE @], rest)
          [] OTHER -> Step(e, k, [prg EXCEPT !.pc = IF @ = "window" THEN "write" ELSE @], rest)
  /\ UNCHANGED <<wrote, rcvd>>

(* The line loses a packet.                                                *)
Lose(e) ==
  /\ line[e] # <<>> /\ Fault("lost")
  /\ line' = [line EXCEPT ![e] = Tail(@)]
  /\ UNCHANGED <<pk, prog, wrote, rcvd>>

Program(e) ==
  \/ Pkopen(e) \/ Call(e) \/ Pkclose(e) \/ PkcloseFlush(e) \/ PkcloseBye(e)
  \/ PkwriteWait(e) \/ PkwritePut(e)
  \/ Pkaccept(e) \/ Pkread(e) \/ Pkfail(e) \/ Timeout(e)
  \/ \E how \in {"none", "header", "sum", "cut"} : Receive(e, how)

Next == \E e \in End : Program(e) \/ Lose(e)

Spec == Init /\ [][Next]_vars

(* Each end is a process that runs, and its alarm goes off: weak fairness   *)
(* of Program(e), whose enabling condition is written out for TLC.         *)
Ready(e) ==
  IF Getting(e) THEN GivesUp(e) \/ line[e] # <<>> \/ Silent(e) ELSE prog[e].pc \notin Ended
Fair(e) == []<>~Ready(e) \/ []<><<Program(e)>>_vars
FairSpec == Spec /\ \A e \in End : Fair(e)

-----------------------------------------------------------------------------
(* The type invariant: the values each variable of the code takes; a count  *)
(* of packets without data above CONNODATA ends the wait that meets it.     *)
TypeOK ==
  /\ \A e \in End :
       LET k == pk[e]
       IN /\ k.state \subseteq State /\ k.msg \subseteq Message /\ k.rmsg \subseteq {"INITA", "INITB"}
          /\ {k.ps, k.pr, k.rpr, k.nxtps, k.pscopy} \subseteq Seqno
          /\ k.xcount \in 0..WINDOWS /\ k.rcount \in 0..WINDOWS /\ k.pool \in 0..WINDOWS
          /\ k.os \in [Seqno -> {"null", "ready", "sent"}]
          /\ k.is \in [Seqno -> [st : {"free", "raw", "copy"}, seq : Seqno, data : Nat, sum : BOOLEAN]]
          /\ k.connodata \in 0..CONNODATA + 1 /\ k.out = <<>>
          /\ prog[e].pc \in PC /\ prog[e].tries \in 0..GETRIES
          /\ line[e] \in Seq([type : Message \cup {"data"}, seq : Seqno, ack : Seqno, data : Nat])
  /\ faults \in 0..MaxFaults

(* The packets pkwrite holds are those numbered after p_ps, up to p_pscopy, *)
(* and p_xcount counts them, whatever was acknowledged, lost, sent again or *)
(* flushed: pksack walks from p_ps to p_rpr and skips what was not sent.    *)
(* What it gave up, pkread of the other end has returned: not only accepted *)
(* into its buffers.                                                       *)
OutputWindow ==
  \A e \in End :
    LET k == pk[e]
        held == {x \in Seqno : k.os[x] # "null"}
    IN /\ held = Upto(k.ps, k.pscopy) /\ Cardinality(held) = k.xcount
       /\ wrote[e] - k.xcount <= Len(rcvd[Peer(e)])

(* An end's input buffers are in its pool or in a slot, and only a packet   *)
(* whose data does not follow its header loses one (pkgetpack takes it from *)
(* the pool before pkcget fails, and pkclose then says "r short"). So it    *)
(* takes as many faults of the line as there are buffers until pkgetpack    *)
(* uses the head of an empty pool, except while pkwrite waits: nobody takes *)
(* what comes then, and an end that goes on sending exhausts the pool.      *)
Writing(e) == prog[e].call > 0 /\ Script[e][prog[e].call].op = "write"
InputBuffers ==
  \A e \in End :
    LET used == pk[e].pool + Cardinality({x \in Seqno : pk[e].is[x].st # "free"})
    IN used \in WINDOWS - faults..WINDOWS /\ (prog[e].pc = "wild" /\ ~Writing(e) => faults >= WINDOWS)

(* pkdata files what arrives from p_pr downwards, pkaccept keeps what is    *)
(* accepted from p_pr upwards: the two never meet, so pkaccept overwrites   *)
(* no buffer when it moves one to the slot of its number.                  *)
PendingOutsideWindow ==
  \A e \in End, x \in Seqno :
    (pk[e].is[x].st = "raw" => x \notin Window(pk[e]))
    /\ (pk[e].is[x].st = "copy" => x \in Window(pk[e]))

(* The two ends implement a stream of packets each way, in order, once, the *)
(* writer at most a window ahead of what pkread has returned.              *)
Stream == INSTANCE PacketStream WITH Ahead <- WINDOWS
StreamPromise == Stream!StreamSpec

(* Nobody waits for ever: each end closes the line or gives up, because of  *)
(* the alarm (GETRIES) and of the limit on packets without data.           *)
Finishes == <>(\A e \in End : prog[e].pc \in Ended)

(* What the two ends give each other to read is read, when the line only    *)
(* damages data in a way the checksum shows: RJ asks for it again.          *)
Written(e) == FoldLeft(LAMBDA n, c : n + (IF c.op = "write" THEN c.n ELSE 0), 0, Script[e])
Delivers == <>(\A e \in End : Len(rcvd[e]) = Written(Peer(e)))
=============================================================================
