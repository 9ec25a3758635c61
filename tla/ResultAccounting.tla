--------------------------- MODULE ResultAccounting ---------------------------
(* The byte accounting of the result store                                   *)
(* (_command_interface/result_accounting.py): every directory keeps the      *)
(* subtotal of its bytes in a file of its own, and one marker says whether   *)
(* the subtotals can be believed.  Transactions run one at a time under the  *)
(* store's file lock; any step of one may fail, and the process may die.     *)
(* Bytes are counted in units; a directory costs one (DIRECTORY_CHARGE).     *)
EXTENDS Integers, FiniteSets

CONSTANTS Root, Dirs,
          Above,       \* Above[d]: d and the directories it is in, up to Root
          Limit,       \* Limit[d]: the byte ceiling of the scope d is
          NoCounter,   \* a subtotal that was never written
          MaxBytes, MaxMishaps, MaxDeaths    \* bounds

ASSUME AccountingAssumption ==
    /\ IsFiniteSet(Dirs) /\ Root \in Dirs /\ Above \in [Dirs -> SUBSET Dirs]
    /\ \A d \in Dirs : {d, Root} \subseteq Above[d]    \* the directories are a tree
    /\ \A d \in Dirs : \A e \in Above[d] : Above[e] \subseteq Above[d] /\ (d \in Above[e] => d = e)
    /\ \A d \in Dirs : \A e, f \in Above[d] : e \in Above[f] \/ f \in Above[e]
    /\ Limit \in [Dirs -> Nat] /\ NoCounter \notin Nat
    /\ MaxBytes \in Nat /\ MaxMishaps \in Nat /\ MaxDeaths \in Nat

VARIABLES tree,      \* the directories that exist
          bytes,     \* bytes[d]: the data right in d
          counter,   \* counter[d]: the subtotal on disk
          marker,    \* "clean" or "dirty", on disk
          tx,        \* the transaction in memory
          call,      \* the operation it is in
          mishaps, deaths

accountVars == <<tree, bytes, counter, marker, tx, call, mishaps, deaths>>
disk == <<tree, bytes, counter, marker>>

Below(d) == {e \in tree : d \in Above[e]}
Proper(d) == Above[d] \ {d}
\* The units a directory holds: the data in it and below it, from 1, and the
\* charge of each directory, 0.
Units(d) == {u \in Below(d) \X (0..MaxBytes) : u[2] <= bytes[u[1]]}
Bytes(d) == Cardinality(Units(d))

NoTx == [pc |-> "none", totals |-> << >>, changed |-> {}, dirty |-> FALSE, failed |-> FALSE]
NoOp == [kind |-> "none", at |-> Root, to |-> Root, left |-> 0, written |-> 0, reserved |-> 0, enforce |-> TRUE]

AccountsInit ==
    /\ tree = {Root} /\ bytes = [d \in Dirs |-> 0] /\ counter = [d \in Dirs |-> NoCounter]
    /\ marker = "dirty" /\ tx = NoTx /\ call = NoOp /\ mishaps = 0 /\ deaths = 0

----------------------------------------------------------------------------
(* Subtotals in memory.                                                      *)

Loadable(S) == \A d \in S : d \in DOMAIN tx.totals \/ counter[d] # NoCounter
Total(d) == IF d \in DOMAIN tx.totals THEN tx.totals[d] ELSE counter[d]
\* The transaction after the subtotals of S have changed by n (_adjust).
Adjusted(S, n) ==
    [tx EXCEPT !.totals = [d \in DOMAIN @ \union S |-> IF d \in S THEN Total(d) + n ELSE @[d]],
               !.changed = @ \union S]
\* Mutant: only the directory of the file is held to its limit.
Exceeds_Own(S, n) == \E d \in S : Above[d] = S /\ Total(d) + n > Limit[d]
Exceeds(S, n) == \E d \in S : Total(d) + n > Limit[d]

\* Mutant: the marker is set with the first subtotal, at the end.
Dirtied_Late(t) == marker' = marker /\ tx' = [t EXCEPT !.dirty = TRUE]
\* The first change of a transaction sets the marker before anything else.
Dirtied(t) == marker' = "dirty" /\ tx' = [t EXCEPT !.dirty = TRUE]

Mishap == mishaps < MaxMishaps /\ mishaps' = mishaps + 1
\* An operation that fails is remembered: the marker will stay as it is.
Failed(t) == tx' = [t EXCEPT !.failed = TRUE] /\ call' = NoOp
\* Setting the marker may raise too, before or after its effect.
MarkFails == /\ Mishap /\ ~ tx.dirty /\ Failed(tx)
             /\ marker' \in {marker, "dirty"} /\ UNCHANGED <<tree, bytes, counter>>

Starts(kinds, at) ==
    /\ tx.pc = "open" /\ call.kind = "none" /\ at \in tree
    /\ tx.failed => kinds = "remove"    \* what the handlers of the store still do

\* write: the subtotals above are read, the marker is set, then every buffer is
\* reserved before it is written.
StartWrite(d, n, enforce) ==
    /\ Starts("write", d) /\ bytes[d] + n <= MaxBytes
    /\ \/ ~ Loadable(Above[d]) /\ Failed(tx) /\ UNCHANGED <<disk, mishaps>>
       \/ /\ Loadable(Above[d]) /\ Dirtied(tx)
          /\ call' = [NoOp EXCEPT !.kind = "write", !.at = d, !.left = n, !.enforce = enforce]
          /\ UNCHANGED <<tree, bytes, counter, mishaps>>
       \/ Loadable(Above[d]) /\ MarkFails
    /\ UNCHANGED deaths

Flush ==
    /\ call.kind = "write" /\ call.left > 0
    /\ LET refused == call.enforce /\ Exceeds(Above[call.at], 1)
           more == [bytes EXCEPT ![call.at] = @ + 1]
       IN  \/ /\ refused /\ call' = [call EXCEPT !.kind = "unlink"] /\ UNCHANGED <<bytes, tx, mishaps>>
           \/ /\ ~ refused /\ tx' = Adjusted(Above[call.at], 1) /\ bytes' = more /\ UNCHANGED mishaps
              /\ call' = [call EXCEPT !.left = @ - 1, !.written = @ + 1, !.reserved = @ + 1]
           \/ /\ ~ refused /\ Mishap /\ tx' = Adjusted(Above[call.at], 1)
              /\ \E n \in 0..1 :
                    /\ bytes' = [bytes EXCEPT ![call.at] = @ + n]
                    /\ call' = [call EXCEPT !.kind = "unlink", !.written = @ + n, !.reserved = @ + 1]
    /\ UNCHANGED <<tree, counter, marker, deaths>>

EndWrite ==
    /\ call.kind = "write" /\ call.left = 0
    /\ \/ call' = NoOp /\ UNCHANGED mishaps
       \/ Mishap /\ call' = [call EXCEPT !.kind = "unlink"]
    /\ UNCHANGED <<disk, tx, deaths>>

\* A write that raised takes its file away again and gives the reserve back.
Unlink ==
    /\ call.kind = "unlink"
    /\ LET gone == [bytes EXCEPT ![call.at] = @ - call.written]
       IN  \/ bytes' = gone /\ Failed(Adjusted(Above[call.at], - call.reserved)) /\ UNCHANGED mishaps
           \/ Mishap /\ bytes' \in {bytes, gone} /\ Failed(tx)
    /\ UNCHANGED <<tree, counter, marker, deaths>>

\* mkdir: charged to what it is in, then made.
StartMkdir(d) ==
    /\ d # Root /\ d \notin tree /\ Proper(d) \subseteq tree
    /\ \E parent \in Proper(d) : Above[parent] = Proper(d) /\ Starts("mkdir", parent)
    /\ \/ /\ ~ Loadable(Proper(d)) \/ Exceeds(Proper(d), 1) \/ Limit[d] < 1
          /\ Failed(tx) /\ UNCHANGED <<disk, mishaps>>
       \/ /\ Loadable(Proper(d)) /\ ~ Exceeds(Proper(d), 1) /\ Limit[d] >= 1
          /\ Dirtied(Adjusted(Proper(d), 1)) /\ call' = [NoOp EXCEPT !.kind = "mkdir", !.at = d]
          /\ UNCHANGED <<tree, bytes, counter, mishaps>>
       \/ Loadable(Proper(d)) /\ MarkFails
    /\ UNCHANGED deaths

Mkdir ==
    /\ call.kind = "mkdir"
    /\ \/ /\ tree' = tree \union {call.at} /\ call' = NoOp /\ UNCHANGED mishaps
          /\ tx' = [tx EXCEPT !.totals = [d \in DOMAIN @ \union {call.at} |-> IF d = call.at THEN 1 ELSE @[d]],
                               !.changed = @ \union {call.at}]
       \/ Mishap /\ tree' \in {tree, tree \union {call.at}} /\ Failed(tx)
    /\ UNCHANGED <<bytes, counter, marker, deaths>>

\* remove: a subtree is walked and deleted, then given back; what a failed
\* deletion leaves may be any part of it.
StartRemove(d) ==
    /\ d # Root /\ Starts("remove", d)
    /\ \/ ~ Loadable({d}) /\ Failed(tx) /\ UNCHANGED <<disk, mishaps>>
       \/ /\ Loadable({d}) /\ Dirtied(tx)
          /\ call' = [NoOp EXCEPT !.kind = "remove", !.at = d, !.reserved = Total(d)]
          /\ UNCHANGED <<tree, bytes, counter, mishaps>>
       \/ Loadable({d}) /\ MarkFails
    /\ UNCHANGED deaths

Without(t, gone) == [t EXCEPT !.totals = [d \in DOMAIN @ \ gone |-> @[d]], !.changed = @ \ gone]
\* The directories of gone, and what is in them, are no more.
Delete(gone) ==
    /\ tree' = tree \ gone
    /\ bytes' = [d \in Dirs |-> IF d \in gone THEN 0 ELSE bytes[d]]
    /\ counter' = [d \in Dirs |-> IF d \in gone THEN NoCounter ELSE counter[d]]

Remove ==
    /\ call.kind = "remove"
    /\ LET gone == Below(call.at)
           settled == Adjusted(Proper(call.at), - call.reserved)
           sound == Loadable(Proper(call.at)) /\ \A d \in Proper(call.at) : settled.totals[d] >= 1
       IN  \/ /\ Delete(gone) /\ UNCHANGED mishaps
              /\ IF sound THEN tx' = Without(settled, gone) /\ call' = NoOp ELSE Failed(tx)
           \/ /\ Mishap /\ Failed(tx)
              /\ \E part \in SUBSET gone :
                    (\A d \in part : Below(d) \subseteq part) /\ Delete(part)
    /\ UNCHANGED <<marker, deaths>>

\* replace: a directory without others in it moves, with its charge, from one
\* place to another.
StartMove(d, e) ==
    /\ Starts("move", d) /\ Below(d) = {d} /\ e \notin tree /\ Proper(e) \subseteq tree \ {d}
    /\ \E parent \in Proper(e) : Above[parent] = Proper(e)
    /\ LET n == Total(d)
           into == Proper(e) \ Proper(d)
           out == Proper(d) \ Proper(e)
           known == Loadable({d} \union into \union out)
           moved == [tx EXCEPT !.totals = [x \in DOMAIN @ \union into \union out |->
                                  IF x \in into THEN Total(x) + n
                                  ELSE IF x \in out THEN Total(x) - n ELSE @[x]],
                               !.changed = @ \union into \union out]
       IN  \/ /\ ~ known /\ Failed(tx) /\ UNCHANGED <<disk, mishaps>>
           \/ /\ known /\ (Exceeds(into, n) \/ n > Limit[e]) /\ Failed(tx) /\ UNCHANGED <<disk, mishaps>>
           \/ /\ known /\ ~ Exceeds(into, n) /\ n <= Limit[e]
              /\ Dirtied(moved) /\ call' = [NoOp EXCEPT !.kind = "move", !.at = d, !.to = e]
              /\ UNCHANGED <<tree, bytes, counter, mishaps>>
           \/ known /\ MarkFails
    /\ UNCHANGED deaths

Moved(f, d, e, none) == [x \in Dirs |-> IF x = e THEN f[d] ELSE IF x = d THEN none ELSE f[x]]
Move ==
    /\ call.kind = "move"
    /\ LET d == call.at
           e == call.to
           Rename == /\ tree' = (tree \ {d}) \union {e}
                     /\ bytes' = Moved(bytes, d, e, 0) /\ counter' = Moved(counter, d, e, NoCounter)
           loaded == (DOMAIN tx.totals \ {d}) \union (IF d \in DOMAIN tx.totals THEN {e} ELSE {})
       IN  \/ /\ Rename /\ call' = NoOp /\ UNCHANGED mishaps
              /\ tx' = [tx EXCEPT !.totals = [x \in loaded |-> IF x = e THEN @[d] ELSE @[x]],
                                  !.changed = (@ \ {d}) \union (IF d \in @ THEN {e} ELSE {})]
           \/ Mishap /\ Failed(tx) /\ (Rename \/ UNCHANGED <<tree, bytes, counter>>)
    /\ UNCHANGED <<marker, deaths>>

----------------------------------------------------------------------------
(* transaction: opened under the lock, recounted when the marker is not      *)
(* clean, and closed by saving what changed, the deepest first.              *)

Open ==
    /\ tx.pc = "none"
    /\ tx' = IF marker = "clean" /\ counter[Root] # NoCounter
                THEN [NoTx EXCEPT !.pc = "open", !.totals = [d \in {Root} |-> counter[d]]]
                ELSE [NoTx EXCEPT !.pc = "recount", !.changed = tree, !.dirty = TRUE]
    /\ marker' = IF tx'.dirty THEN "dirty" ELSE marker
    /\ UNCHANGED <<tree, bytes, counter, call, mishaps, deaths>>

Abort == tx' = NoTx /\ call' = NoOp
\* _save_total of a directory, or its failure, which ends the transaction.
SaveTotal(d, n) ==
    \/ /\ counter' = [counter EXCEPT ![d] = n] /\ tx' = [tx EXCEPT !.changed = @ \ {d}]
       /\ UNCHANGED <<call, mishaps>>
    \/ Mishap /\ counter' \in {counter, [counter EXCEPT ![d] = n]} /\ Abort
Deepest(S) == {d \in S : \A e \in S : d \notin Proper(e)}

\* _recover counts from the leaves up.
Recount ==
    /\ tx.pc = "recount" /\ tx.changed # {}
    /\ \E d \in Deepest(tx.changed) : SaveTotal(d, Bytes(d))
    /\ UNCHANGED <<tree, bytes, marker, deaths>>

Clean(next) ==
    \/ marker' = "clean" /\ tx' = next /\ UNCHANGED <<call, mishaps>>
    \/ Mishap /\ marker' \in {marker, "clean"} /\ Abort
Recounted ==
    /\ tx.pc = "recount" /\ tx.changed = {}
    /\ Clean([NoTx EXCEPT !.pc = "open", !.totals = [d \in {Root} |-> counter[d]]])
    /\ UNCHANGED <<tree, bytes, counter, deaths>>

\* The caller is done, or leaves with an exception of its own.
Close ==
    /\ tx.pc = "open" /\ call.kind = "none"
    /\ tx' = IF tx.dirty /\ ~ tx.failed THEN [tx EXCEPT !.pc = "saving"] ELSE NoTx
    /\ UNCHANGED <<disk, call, mishaps, deaths>>
Raise ==
    /\ tx.pc = "open" /\ call.kind = "none" /\ Abort
    /\ UNCHANGED <<disk, mishaps, deaths>>

Saving ==
    /\ tx.pc = "saving" /\ tx.changed # {}
    /\ \E d \in Deepest(tx.changed) : SaveTotal(d, tx.totals[d])
    /\ UNCHANGED <<tree, bytes, marker, deaths>>

Saved ==
    /\ tx.pc = "saving" /\ tx.changed = {}
    /\ Clean(NoTx) /\ UNCHANGED <<tree, bytes, counter, deaths>>

ProcessDies ==
    /\ tx.pc # "none" /\ deaths < MaxDeaths /\ deaths' = deaths + 1
    /\ Abort /\ UNCHANGED <<disk, mishaps>>

\* Whoever changes stored bytes without this module marks the root first.
Administer ==
    /\ tx.pc = "none" /\ marker' = "dirty"
    /\ \E d \in tree : \E n \in 0..MaxBytes : bytes' = [bytes EXCEPT ![d] = n]
    /\ UNCHANGED <<tree, counter, tx, call, mishaps, deaths>>

StoreOperation ==
    \/ \E d \in Dirs : StartMkdir(d) \/ StartRemove(d)
    \/ \E d \in Dirs, n \in 1..MaxBytes, enforce \in BOOLEAN : StartWrite(d, n, enforce)
    \/ \E d, e \in Dirs : StartMove(d, e)
    \/ Flush \/ EndWrite \/ Unlink \/ Mkdir \/ Remove \/ Move
Transaction == Open \/ Recount \/ Recounted \/ Close \/ Raise \/ Saving \/ Saved
AccountsNext == StoreOperation \/ Transaction \/ ProcessDies \/ Administer
AccountsSpec == AccountsInit /\ [][AccountsNext]_accountVars
----------------------------------------------------------------------------
AccountsTypeOK ==
    /\ Root \in tree /\ tree \subseteq Dirs /\ bytes \in [Dirs -> 0..MaxBytes]
    /\ \A d \in tree : Above[d] \subseteq tree
    /\ \A d \in Dirs \ tree : bytes[d] = 0 /\ counter[d] = NoCounter
    /\ counter \in [Dirs -> Nat \union {NoCounter}] /\ marker \in {"clean", "dirty"}
    /\ tx.pc \in {"none", "open", "recount", "saving"} /\ (~ tx.failed => tx.changed \subseteq tree)
    /\ call.kind \in {"none", "write", "unlink", "mkdir", "remove", "move"}
    /\ mishaps \in 0..MaxMishaps /\ deaths \in 0..MaxDeaths

\* Whatever failed or died before: when the marker says that the subtotals can
\* be believed, each of them is the number of bytes its directory holds
\* (_begin_change, transaction; result_accounting.py:247).
CleanMeansExact ==
    marker = "clean" => \A d \in tree : counter[d] = Bytes(d)

\* Inside of a transaction in which nothing failed, what would be charged for
\* a directory is what it holds: room is refused only when there is none.
ChargesExact ==
    tx.pc = "open" /\ call.kind = "none" /\ ~ tx.failed =>
        \A d \in tree : Loadable({d}) /\ Total(d) = Bytes(d)

\* No step of an enforced operation makes a scope hold more than its limit,
\* whatever the earlier operations of the transaction did or failed to do
\* (_adjust, :290).
LimitsHold ==
    [][call.enforce /\ call.kind # "none" =>
          \A d \in tree : Bytes(d)' > Bytes(d) => Bytes(d)' <= Limit[d]]_accountVars

\* Subtotals that are believed are exact (transaction).
AccountsExact == AccountsTypeOK /\ CleanMeansExact /\ ChargesExact
=============================================================================
