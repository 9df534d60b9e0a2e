--------------------------- MODULE MCPacketDriver ---------------------------
(***************************************************************************)
(* Constants of the packet driver for TLC.                                 *)
(***************************************************************************)
EXTENDS PacketDriver

W(n) == [op |-> "write", n |-> n]
R(n) == [op |-> "read", n |-> n]

(* A request longer than the window, an answer, and the end that answered  *)
(* waits for what will not come, as the slave of uucico does.              *)
Talk == <<<<W(4), R(1)>>, <<R(4), W(1), R(1)>>>>
=============================================================================
