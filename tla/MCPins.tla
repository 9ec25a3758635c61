------------------------------ MODULE MCPins ------------------------------
(* Two attempts under one request id with one input, another one with its own. *)
EXTENDS Pins, TLC
CONSTANTS a1, a2, a3, d1, ra, rb, x, y

MCContent == a1 :> x @@ a2 :> x @@ a3 :> y
MCReq == a1 :> ra @@ a2 :> ra @@ a3 :> rb
=============================================================================
