----------------------------- MODULE MCResultReads -----------------------------
(* Processes that read one page, or two, of a list whose source changes.     *)
EXTENDS ResultReads, TLC
CONSTANTS p1, p2, g1, g2
MCSymmetry == Permutations(Readers) \union Permutations(Pages)
=============================================================================
