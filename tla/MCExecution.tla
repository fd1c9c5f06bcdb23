---------------------------- MODULE MCExecution ----------------------------
(* Small instances of Execution for TLC. *)
EXTENDS Execution, TLC

CONSTANT a1

MCCash == a1 :> 2

MCSymmetry == Permutations(Tasks) \cup Permutations(Rids)
=============================================================================
