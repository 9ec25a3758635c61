--------------------------- MODULE FileTransaction ---------------------------
(* The rollback-capable file transaction (_bootstrap/file_transaction.py):   *)
(* a plan reads files, wants some of them changed, and applies the changes   *)
(* one file after another or undoes them.  Nothing keeps the owner of the    *)
(* files from editing them meanwhile, and a write may fail before or after   *)
(* its effect.                                                               *)
EXTENDS Naturals, FiniteSets

CONSTANTS Paths,       \* the files that may be changed
          Evidence,    \* the files a plan reads and does not change
          Contents,    \* what a file may hold
          Absent,      \* no file
          Nested,      \* the paths in a directory that has to be made first
          Rank,        \* Rank[f]: the place of f in the order of the names
          Editable,    \* Editable[f]: what the owner of f may make of it
          MaxEdits, MaxFaults    \* bounds

Files == Paths \union Evidence
Held == Contents \union {Absent}
ASSUME TransactionAssumption ==
    /\ IsFiniteSet(Files) /\ Paths \intersect Evidence = {} /\ Nested \subseteq Paths
    /\ Absent \notin Contents /\ Editable \in [Files -> SUBSET Held]
    /\ Rank \in [Paths -> Nat] /\ \A f, g \in Paths : Rank[f] = Rank[g] => f = g
    /\ MaxEdits \in Nat /\ MaxFaults \in Nat

VARIABLES disk,      \* disk[f]: what f holds
          ours,      \* the files whose last writer is a transaction
          folder,    \* "none", "empty" or "used": the directory of Nested beyond its paths
          plan,      \* before: what the plan read; after: the changes it wants
          tx,        \* the control state of the transaction
          outcome,   \* what the transaction of this plan reported
          raced,     \* history: the files with an edit that no look can tell
          edits, faults

files == <<disk, ours, folder>>
txvars == <<disk, ours, folder, plan, tx, outcome, raced, edits, faults>>

Changed(before, after) == {f \in DOMAIN after : after[f] # before[f]}
\* The changes of a plan, the changed files, are made in the order of their names.
Changes(p) == Changed(p.before, p.after)
First(S) == CHOOSE f \in S : \A g \in S : Rank[f] <= Rank[g]
Last(S) == CHOOSE f \in S : \A g \in S : Rank[g] <= Rank[f]
Blank == [before |-> << >>, after |-> << >>]
Unreported == [status |-> "none", surviving |-> {}, folder |-> FALSE, errors |-> 0]
Idle == [pc |-> "idle", todo |-> {}, tried |-> {}, made |-> FALSE, errors |-> 0]

TxInit ==
    /\ disk \in [Files -> Held] /\ \A f \in Nested : disk[f] = Absent
    /\ folder = "none" /\ ours = {} /\ plan = Blank
    /\ tx = Idle /\ outcome = Unreported /\ raced = {} /\ edits = 0 /\ faults = 0

FolderEmpty == folder # "used" /\ \A f \in Nested : disk[f] = Absent

\* The path f comes to hold c; its directory is made when it is not there.
Hold(f, c) ==
    /\ disk' = [disk EXCEPT ![f] = c]
    /\ folder' = IF f \in Nested /\ c # Absent /\ folder = "none" THEN "empty" ELSE folder

\* The file a step of the transaction is about: the way forth goes through the
\* changes in their order, the way back in the reverse order.
Current == IF tx.pc \in {"verify", "look", "write"} THEN First(tx.todo) ELSE Last(tx.todo)
Rest == tx.todo \ {Current}

\* An edit that no look of the transaction can tell: f has been looked at and
\* is about to be written, or comes to hold what the transaction wants of it.
Unseen(f, c) ==
    \/ tx.pc \in {"write", "unwrite"} /\ f = Current
    \/ tx.pc # "idle" /\ f \in DOMAIN plan.after /\ plan.after[f] = c

\* An edit, by the owner or by another program; anything may also be put next
\* to the paths of Nested.
Edit ==
    /\ edits < MaxEdits /\ edits' = edits + 1
    /\ \/ \E f \in Files : \E c \in Editable[f] \ {disk[f]} :
             /\ Hold(f, c) /\ ours' = ours \ {f} /\ raced' = IF Unseen(f, c) THEN raced \union {f} ELSE raced
       \/ /\ Nested # {} /\ folder # "used" /\ folder' = "used"
          /\ UNCHANGED <<disk, ours, raced>>
    /\ UNCHANGED <<plan, tx, outcome, faults>>

----------------------------------------------------------------------------
(* apply_file_changes: every file is verified, then each is looked at again  *)
(* and written.                                                              *)

Stale(f) == disk[f] # plan.before[f]
\* FilePlan.validate_dependencies, the before_write of the callers.
DependenciesHold ==
    \A f \in DOMAIN plan.before \ DOMAIN plan.after : ~ Stale(f)

\* What the plan read is read again before it is used (FilePlan.validate).
Begin ==
    /\ tx.pc = "planned"
    /\ IF \E f \in DOMAIN plan.before : Stale(f)
         THEN /\ tx' = Idle
              /\ outcome' = [Unreported EXCEPT !.status = "refused"]
         ELSE /\ tx' = [tx EXCEPT !.pc = "verify", !.todo = Changes(plan)]
              /\ UNCHANGED outcome
    /\ UNCHANGED <<files, plan, raced, edits, faults>>

Verify ==
    /\ tx.pc = "verify"
    /\ IF tx.todo # {} /\ Stale(Current)
         THEN /\ tx' = Idle
              /\ outcome' = [Unreported EXCEPT !.status = "refused"]
         ELSE /\ tx' = IF tx.todo = {}
                         THEN [tx EXCEPT !.pc = "look", !.todo = Changes(plan),
                                  !.made = /\ folder = "none"
                                           /\ Changes(plan) \intersect Nested # {}]
                         ELSE [tx EXCEPT !.todo = Rest]
              /\ UNCHANGED outcome
    /\ UNCHANGED <<files, plan, raced, edits, faults>>

\* before_write and the second look at the file.
Look ==
    /\ tx.pc = "look" /\ tx.todo # {}
    /\ tx' = IF DependenciesHold /\ ~ Stale(Current)
               THEN [tx EXCEPT !.pc = "write", !.tried = @ \union {Current}]
               ELSE [tx EXCEPT !.pc = "undo", !.todo = tx.tried]
    /\ UNCHANGED <<files, plan, outcome, raced, edits, faults>>

\* Mutant: a file is written in place, so a failed write leaves it emptied.
Put_InPlace(f, c, next, failed) ==
    \/ /\ Hold(f, c) /\ ours' = ours \union {f} /\ tx' = next /\ UNCHANGED faults
    \/ /\ faults < MaxFaults /\ faults' = faults + 1
       /\ tx' = failed /\ Hold(f, Absent) /\ ours' = ours \union {f}

\* A write that puts c in f goes to next; one that fails goes to failed, and
\* may have made the directory, or have taken effect, by then.
Put(f, c, next, failed) ==
    \/ /\ Hold(f, c) /\ ours' = ours \union {f} /\ tx' = next /\ UNCHANGED faults
    \/ /\ faults < MaxFaults /\ faults' = faults + 1
       /\ tx' = failed
       /\ \/ UNCHANGED files
          \/ Hold(f, c) /\ ours' = ours \union {f}
          \/ /\ f \in Nested /\ c # Absent /\ folder = "none" /\ folder' = "empty"
             /\ UNCHANGED <<disk, ours>>

\* Mutant: a file is only counted as attempted when its write has returned.
Write_CountLate ==
    /\ tx.pc = "write"
    /\ Put(Current, plan.after[Current], [tx EXCEPT !.pc = "look", !.todo = Rest],
           [tx EXCEPT !.pc = "undo", !.todo = tx.tried \ {Current}, !.tried = @ \ {Current}])
    /\ UNCHANGED <<plan, outcome, raced, edits>>

Write ==
    /\ tx.pc = "write"
    /\ Put(Current, plan.after[Current], [tx EXCEPT !.pc = "look", !.todo = Rest],
           [tx EXCEPT !.pc = "undo", !.todo = tx.tried])
    /\ UNCHANGED <<plan, outcome, raced, edits>>

Commit ==
    /\ tx.pc = "look" /\ tx.todo = {}
    /\ tx' = Idle /\ outcome' = [Unreported EXCEPT !.status = "done"]
    /\ UNCHANGED <<files, plan, raced, edits, faults>>

----------------------------------------------------------------------------
(* The way back: the attempted files, newest first, each looked at again.    *)

Passed == [tx EXCEPT !.pc = "undo", !.todo = Rest]
Failing == [Passed EXCEPT !.errors = @ + 1]

\* Mutant: the way back does not compare the file with what was intended.
Unlook_Trust ==
    /\ tx.pc = "undo" /\ tx.todo # {}
    /\ tx' = IF ~ Stale(Current) THEN Passed
             ELSE IF DependenciesHold THEN [tx EXCEPT !.pc = "unwrite"]
             ELSE Failing
    /\ UNCHANGED <<files, plan, outcome, raced, edits, faults>>

\* A file that holds what it held needs nothing, whatever was raised.  One
\* that holds neither value, or whose dependencies changed, stays as it is.
Unlook ==
    /\ tx.pc = "undo" /\ tx.todo # {}
    /\ tx' = IF ~ Stale(Current) THEN Passed
             ELSE IF DependenciesHold /\ disk[Current] = plan.after[Current]
                    THEN [tx EXCEPT !.pc = "unwrite"]
                    ELSE Failing
    /\ UNCHANGED <<files, plan, outcome, raced, edits, faults>>

Unwrite ==
    /\ tx.pc = "unwrite"
    /\ Put(Current, plan.before[Current], Passed, [tx EXCEPT !.pc = "reread"])
    /\ UNCHANGED <<plan, outcome, raced, edits>>

\* A restoring write that raised is an error unless the file is restored.
Reread ==
    /\ tx.pc = "reread"
    /\ tx' = IF Stale(Current) THEN Failing ELSE Passed
    /\ UNCHANGED <<files, plan, outcome, raced, edits, faults>>

\* The directory the transaction made goes when it is empty.
RemoveFolder ==
    /\ tx.pc = "undo" /\ tx.todo = {}
    /\ IF tx.made /\ folder # "none"
         THEN \/ /\ FolderEmpty /\ folder' = "none" /\ tx' = [tx EXCEPT !.pc = "report"]
              \/ /\ ~ FolderEmpty /\ UNCHANGED folder
                 /\ tx' = [tx EXCEPT !.pc = "report", !.errors = @ + 1]
         ELSE tx' = [tx EXCEPT !.pc = "report"] /\ UNCHANGED folder
    /\ UNCHANGED <<disk, ours, plan, outcome, raced, edits, faults>>

\* What survives is read off the files themselves.
Report ==
    /\ tx.pc = "report" /\ tx' = Idle
    /\ outcome' = [status |-> "failed", errors |-> tx.errors,
                   surviving |-> {f \in tx.tried : Stale(f)},
                   folder |-> tx.made /\ folder # "none"]
    /\ UNCHANGED <<files, plan, raced, edits, faults>>

Apply == \/ Begin \/ Verify \/ Look \/ Write \/ Commit
         \/ Unlook \/ Unwrite \/ Reread \/ RemoveFolder \/ Report
----------------------------------------------------------------------------
TypeOK ==
    /\ disk \in [Files -> Held] /\ ours \subseteq Paths /\ folder \in {"none", "empty", "used"}
    /\ tx.pc \in {"idle", "planned", "verify", "look", "write", "undo", "unwrite", "reread", "report"}
    /\ tx.todo \subseteq Paths /\ tx.tried \subseteq Paths
    /\ tx.made \in BOOLEAN /\ tx.errors \in 0..(Cardinality(Paths) + 1)
    /\ outcome.status \in {"none", "done", "failed", "refused"} /\ outcome.surviving \subseteq Paths
    /\ edits \in 0..MaxEdits /\ faults \in 0..MaxFaults

\* When a transaction fails, every file that still holds something other than
\* what the plan read, by the transaction's own hand, is named as surviving
\* (surviving, file_transaction.py:241).
ReportedWhatSurvives ==
    outcome.status = "failed" => {f \in ours : Stale(f)} \subseteq outcome.surviving

\* The message that all written files were restored is true: without an error
\* on the way back no file holds a change of ours.
RestoredMeansRestored ==
    outcome.status = "failed" /\ outcome.errors = 0 =>
        \A f \in ours : ~ Stale(f)

\* A transaction that reports success has changed every file: one that does
\* not hold its new content was edited since.
DoneMeansApplied ==
    outcome.status = "done" =>
        \A f \in Changed(plan.before, plan.after) :
            disk[f] = plan.after[f] \/ (edits > 0 /\ f \notin ours)

\* What the owner made of a file stays until the owner changes it: neither the
\* changes nor their undoing write over an edit they could have seen (the
\* looks at :207 and :220).  An edit between a look and its write is lost.
EditsKept ==
    [][\A f \in Paths \ raced : disk'[f] # disk[f] /\ f \in ours' =>
          f \in ours \/ disk[f] = plan.before[f]]_txvars
=============================================================================
