----------------------------- MODULE MCMigration -----------------------------
(* A ledger that is rewritten and a client configuration that is created.    *)
EXTENDS Migration, TLC
CONSTANTS config, ledger, evidence

MCRank == config :> 1 @@ ledger :> 2
Moved == config :> "new" @@ ledger :> "new"
Renewed == config :> Absent @@ ledger :> "newer"
MCTargets == {Moved, Renewed}
MCEditable == [f \in Files |-> IF f = config THEN {"edit", "new"} ELSE {"old", "edit"}]
=============================================================================
