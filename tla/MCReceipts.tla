----------------------------- MODULE MCReceipts -----------------------------
(* The receipt ledger for TLC: more ids than records, a clock that passes   *)
(* the retention, two processes.                                            *)
EXTENDS Receipts, TLC

Symmetry == Permutations(Processes) \cup Permutations(Ids)
=============================================================================
