------------------------------ MODULE MCConsent ------------------------------
(* Consent for TLC: two clients that race on one prepared operation while the *)
(* configuration changes once, and while grants are reduced and requested     *)
(* again.                                                                     *)
EXTENDS Consent, TLC

CONSTANTS c1, c2, m1,
          Configurations, \* of which the first authorises Initial1 initially
          Initial1, Last, \* and the last permits Last
          Busy, Other     \* what the two clients do

MCCommandOf == [o \in Operations |-> m1]
MCEffectful == {m1}
MCContract == [c \in Clients |-> 1]
MCPolicy == [n \in 1 .. Configurations |->
               [permissions |-> IF n = Configurations THEN Last ELSE {m1},
                initial |-> IF n = 1 THEN Initial1 ELSE {}, requests |-> TRUE]]
MCWorkload == c1 :> Busy @@ c2 :> Other

Ids == Permutations(Grants) \cup Permutations(Requests) \cup Permutations(Invocations)
=============================================================================
