--------------------------- MODULE MCPaperTrading ---------------------------
(* PaperTrading on a small instance; signals are interchangeable. *)
EXTENDS PaperTrading, TLC

MCSymmetry == Permutations(Signals)
=============================================================================
