---------------------------- MODULE PacketStream ----------------------------
(***************************************************************************)
(* What the packet driver promises to uucico (cmd/uucp/gio.c): a stream of *)
(* packets in each direction. What is written arrives once, in the order   *)
(* written, and a writer is at most a window ahead of its reader. Nothing  *)
(* is said of sequence numbers, acknowledgements or the line.              *)
(***************************************************************************)
EXTENDS Integers, Sequences

CONSTANTS Ahead

VARIABLES
  wrote,   \* how many packets each end has written; the n-th carries n
  rcvd     \* what each end has read

streamvars == <<wrote, rcvd>>

Other(e) == 3 - e

StreamInit == wrote = [e \in 1..2 |-> 0] /\ rcvd = [e \in 1..2 |-> <<>>]

Write(e) ==
  /\ wrote[e] - Len(rcvd[Other(e)]) < Ahead
  /\ wrote' = [wrote EXCEPT ![e] = @ + 1]
  /\ UNCHANGED rcvd

(* A read returns the next n packets.                                      *)
Read(e, n) ==
  /\ Len(rcvd[e]) + n <= wrote[Other(e)]
  /\ rcvd' = [rcvd EXCEPT ![e] = @ \o [i \in 1..n |-> Len(rcvd[e]) + i]]
  /\ UNCHANGED wrote

StreamNext == \E e \in 1..2 : Write(e) \/ \E n \in 1..Ahead : Read(e, n)

StreamSpec == StreamInit /\ [][StreamNext]_streamvars
=============================================================================
