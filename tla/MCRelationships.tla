---------------------------- MODULE MCRelationships ----------------------------
(* Two operations on records and one that accompanies a document.            *)
EXTENDS Relationships, TLC
CONSTANTS a, b, n, r1, r2

MCWrites == [o \in Ops |-> IF o = a THEN {r1, r2} ELSE {r1}]
MCMentions == [o \in Ops |-> IF o = a THEN {r2} ELSE {r1}]
=============================================================================
