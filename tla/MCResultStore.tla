---------------------------- MODULE MCResultStore ----------------------------
(* Two processes with the credential of one owner, which run two commands.   *)
EXTENDS ResultStore, TLC
CONSTANTS i1, i2, c1, c2

MCSymmetry == Permutations(Instances) \union Permutations(Commands)
=============================================================================
