---------------------------- MODULE PreparedOnce ----------------------------
(***************************************************************************)
(* What specific consent promises (_application/consent.py, and DD-073):   *)
(* a prepared operation is granted at most once, can be used only while it *)
(* is granted, is used at most once, and once closed, by use, revocation,  *)
(* disposal or a change of authority, it never becomes usable again.       *)
(***************************************************************************)
EXTENDS Naturals

CONSTANT Operations

VARIABLES
    ticket,     \* ticket[o]: "open", "granted", "used" or "closed"
    uses        \* uses[o]: how many executions o has authorised

Init ==
    /\ ticket = [o \in Operations |-> "open"]
    /\ uses = [o \in Operations |-> 0]

\* The user grants consent for the operation that was reviewed.
Grant(o) ==
    /\ ticket[o] = "open"
    /\ ticket' = [ticket EXCEPT ![o] = "granted"]
    /\ UNCHANGED uses

\* An invocation enters the operation.
Use(o) ==
    /\ ticket[o] = "granted"
    /\ ticket' = [ticket EXCEPT ![o] = "used"]
    /\ uses' = [uses EXCEPT ![o] = @ + 1]

\* Some operations are revoked, disposed of or outlived by their authority.
Close(closing) ==
    /\ ticket' = [o \in Operations |->
                    IF o \in closing /\ ticket[o] # "used" THEN "closed" ELSE ticket[o]]
    /\ UNCHANGED uses

Next ==
    \/ \E o \in Operations : Grant(o) \/ Use(o)
    \/ \E closing \in SUBSET Operations : Close(closing)

Spec == Init /\ [][Next]_<<ticket, uses>>
=============================================================================
