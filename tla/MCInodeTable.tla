---------------------------- MODULE MCInodeTable ----------------------------
(***************************************************************************)
(* Constants of the inode table for TLC.                                   *)
(***************************************************************************)
EXTENDS InodeTable, TLC

(* Processes are interchangeable, and so are names.                        *)
SymProcName == Permutations(Proc) \cup Permutations(Name)
=============================================================================
