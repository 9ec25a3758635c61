---------------------------- MODULE AtomicStore ----------------------------
(***************************************************************************)
(* What the consent owner's state store promises to its callers            *)
(* (ConsentStateStore in _application/consent.py: "read selected opaque    *)
(* records and atomically replace matching versions"): every transaction   *)
(* happens at one instant, reading what the store holds at that instant    *)
(* and replacing part of it, and a listing of the keys is the set of keys  *)
(* live at one instant, however many pages it took.                        *)
(***************************************************************************)
CONSTANTS Clients,      \* callers of the store
          Keys,         \* record keys
          Values,       \* record contents, None excluded
          None,         \* an absent or deleted record
          Nothing       \* a client that has had no result yet

VARIABLES store,        \* store[k]: the record at k, or None
          result        \* result[c]: what c's last call returned, Nothing while it is in a call

vars == <<store, result>>

Live == {k \in Keys : store[k] # None}

Init ==
    /\ store = [k \in Keys |-> None]
    /\ result = [c \in Clients |-> Nothing]

\* A call starts, or ends without a result.
Forget(c) ==
    /\ result' = [result EXCEPT ![c] = Nothing]
    /\ UNCHANGED store

\* Read the records of K and replace those of W, a subset of them, at once.
Transact(c) ==
    \E K \in SUBSET Keys : \E W \in SUBSET K :
      \E new \in [W -> Values \cup {None}] :
        /\ result' = [result EXCEPT ![c] = [read |-> [k \in K |-> store[k]]]]
        /\ store' = [k \in Keys |-> IF k \in W THEN new[k] ELSE store[k]]

\* List the live keys.
List(c) ==
    /\ result' = [result EXCEPT ![c] = [keys |-> Live]]
    /\ UNCHANGED store

\* The owner ends: its state is gone.
Close ==
    /\ store' = [k \in Keys |-> None]
    /\ UNCHANGED result

Next ==
    \/ \E c \in Clients : Forget(c) \/ Transact(c) \/ List(c)
    \/ Close

Spec == Init /\ [][Next]_vars
=============================================================================
