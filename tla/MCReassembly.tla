---------------------------- MODULE MCReassembly ----------------------------
(* TLC instances of Reassembly: a message of two chunks and one of three.  *)
EXTENDS Reassembly, TLC

MCTotal == [m \in Transmission |-> IF m = "short" THEN 2 ELSE 3]

SenderSymmetry == Permutations(Sender)
=============================================================================
