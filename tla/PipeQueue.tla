----------------------------- MODULE PipeQueue -----------------------------
(***************************************************************************)
(* What a FIFO promises to those who have it open: a bounded queue of      *)
(* bytes. A write of no more than the queue holds is in one piece, bytes   *)
(* are read in the order written and once, and nothing is thrown away      *)
(* while somebody has the FIFO open. Nothing is said of blocks, of buffers *)
(* or of locks.                                                            *)
(***************************************************************************)
EXTENDS Integers, Sequences

CONSTANTS
  Proc,
  Size,     \* what the queue holds
  Numbers   \* bytes are numbered modulo Numbers, from 0 in an empty queue

VARIABLES
  queue,      \* the numbers of its bytes
  users,      \* who has the FIFO open
  asked,      \* the bytes each writer asks to write
  shortages,  \* writes for which the disk had no space
  spoiled     \* bytes were lost in a copy to or from a user, or in a transfer of a block

queuevars == <<queue, users, asked, shortages, spoiled>>

QueueInit ==
  queue = <<>> /\ users = {} /\ asked = [p \in Proc |-> 0] /\ shortages = 0 /\ spoiled = FALSE

(* p adds n bytes: all it asks for, unless that can never fit or the disk  *)
(* has no space for the rest.                                              *)
Enter(p, n) ==
  /\ n <= Size - Len(queue)
  /\ n = asked[p] \/ asked[p] > Size \/ shortages' > shortages
  /\ LET first == IF queue = <<>> THEN 0 ELSE queue[Len(queue)] + 1
     IN queue' = queue \o [i \in 1..n |-> (first + i - 1) % Numbers]

Remove(n) == n <= Len(queue) /\ queue' = SubSeq(queue, n + 1, Len(queue))

Discard == users' = {} /\ queue' = <<>>

(* Opens and closes leave the bytes alone; once some were lost in a failed *)
(* copy or transfer nothing is promised of them.                           *)
QueueNext ==
  \/ spoiled'
  \/ queue' = queue
  \/ \E p \in users, n \in 1..Size : Enter(p, n)
  \/ \E n \in 1..Size : Remove(n)
  \/ Discard

QueueSpec == QueueInit /\ [][QueueNext]_queuevars
=============================================================================
