---------------------------- MODULE MCStateStore ----------------------------
(* Two services sharing a store of two records. *)
EXTENDS StateStore, TLC

CONSTANTS c1, c2, small, large

MCClients == {c1, c2}
MCValues == {small, large}
\* Two small records fit, a small and a large one do not, a large one and a
\* tombstone do.
MCWeight == small :> 2 @@ large :> 3 @@ None :> 1
=============================================================================
