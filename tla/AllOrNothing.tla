---------------------------- MODULE AllOrNothing ----------------------------
(* What an upgrade promises of the vault it upgrades: the migrations it     *)
(* owes are all in the content and all in the ledger, or none of them is.   *)
(* VERSION may follow the content, it never precedes it.                     *)
EXTENDS Naturals, FiniteSets

CONSTANTS Versions,     \* the versions there are, a set of naturals
          Migrations,   \* the migrations
          Ver,          \* Ver[m]: the version migration m belongs to
          Effects,      \* Effects[m]: the paths it changes
          Paths         \* the paths migrations change

VARIABLES version,      \* the witness
          content,      \* content[p]: the migrations that have changed p
          ledger        \* the migrations recorded as done

vars == <<version, content, ledger>>

\* The migrations an upgrade to w runs.
Owed(w) == {m \in Migrations : version < Ver[m] /\ Ver[m] <= w /\ m \notin ledger}

Init == \E v \in Versions :
    /\ version = v
    /\ content = [p \in Paths |-> {m \in Migrations : Ver[m] <= v /\ p \in Effects[m]}]
    /\ ledger = {}

\* The content of the new version, in one step, with its witness or before it.
Upgrade(w) ==
    /\ w >= version
    /\ \A m \in ledger : Ver[m] <= w
    /\ version' \in {version, w}
    /\ content' = [p \in Paths |-> content[p] \union {m \in Owed(w) : p \in Effects[m]}]
    /\ ledger' = ledger \union {m \in Migrations : Ver[m] <= w}

Next == \E w \in Versions : Upgrade(w)

Spec == Init /\ [][Next]_vars
=============================================================================
