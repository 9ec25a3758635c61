----------------------------- MODULE MCUpgrade -----------------------------
(* A declared patch before the compile and an undeclared migration after it  *)
(* change the same file, the second of them another one too; whether either  *)
(* exists beforehand is open.                                                *)
EXTENDS Upgrade
CONSTANTS patch, rework, page, note, f1

MCVer == patch :> 2 @@ rework :> 2
MCStage == patch :> "pre" @@ rework :> "post"
MCEffects == patch :> {page} @@ rework :> {page, note}

ASSUME OrderAssumption == Orderly
=============================================================================
