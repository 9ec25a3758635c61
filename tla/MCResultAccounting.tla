------------------------- MODULE MCResultAccounting -------------------------
(* A store with one owner, and two results of it or the one that is staged.  *)
EXTENDS ResultAccounting, TLC
CONSTANTS root, owner, staged, result

MCAbove == root :> {root} @@ owner :> {root, owner}
           @@ staged :> {root, owner, staged} @@ result :> {root, owner, result}
MCLimit == root :> 5 @@ owner :> 4 @@ staged :> 2 @@ result :> 2
=============================================================================
