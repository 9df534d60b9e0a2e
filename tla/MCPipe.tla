------------------------------- MODULE MCPipe -------------------------------
(***************************************************************************)
(* Constants of the FIFO for TLC.                                          *)
(***************************************************************************)
EXTENDS Pipe, TLC

CONSTANTS r1, r2, w1

Rd == [rd |-> TRUE, wr |-> FALSE, ndelay |-> FALSE]
Wr == [rd |-> FALSE, wr |-> TRUE, ndelay |-> FALSE]
RdNow == [Rd EXCEPT !.ndelay = TRUE]
WrNow == [Wr EXCEPT !.ndelay = TRUE]
RdWr == [Rd EXCEPT !.wr = TRUE]

TwoEnds == (r1 :> {Rd, RdNow}) @@ (w1 :> {Wr})
ThreeUsers == (r1 :> {Rd}) @@ (r2 :> {RdWr}) @@ (w1 :> {Wr, WrNow})
=============================================================================
