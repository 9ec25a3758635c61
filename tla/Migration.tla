------------------------------ MODULE Migration ------------------------------
(* The migration of MCP registrations (execute_migrate in                    *)
(* cli/_launcher/mcp.py, _bootstrap/mcp_migration.py): under the             *)
(* registration lock it resumes what an earlier run left, verifies it, plans *)
(* the next transition, journals it, applies it as a file transaction and    *)
(* verifies it.  The process may die between any two steps.                  *)
EXTENDS FileTransaction

CONSTANTS Targets,     \* what plans may want, each [Paths -> Held]
          MaxTransitions, MaxCrashes    \* bounds
ASSUME MigrationAssumption ==
    Targets \subseteq [Paths -> Held] /\ MaxTransitions \in Nat /\ MaxCrashes \in Nat

VARIABLES journal,   \* the file mcp-migration.json
          run,       \* where the run is, and what it ends with
          theirs,    \* theirs[f]: what f held before a transaction wrote over it
          wrote,     \* the files this run has written
          known,     \* does the registry allow the recorded destinations and targets?
          transitions, crashes

vars == <<txvars, journal, run, theirs, wrote, known, transitions, crashes>>
counts == <<transitions, crashes>>
ghosts == <<theirs, wrote>>

NoJournal == [phase |-> "none", verified |-> FALSE, before |-> << >>, after |-> << >>]
AtRest == [pc |-> "rest", resumed |-> FALSE, committed |-> {}, result |-> "none", report |-> {}]

MInit ==
    /\ TxInit /\ journal = NoJournal /\ run = AtRest
    /\ theirs = disk /\ wrote = {} /\ known = TRUE /\ transitions = 0 /\ crashes = 0

To(pc) == run' = [run EXCEPT !.pc = pc]
\* A run ends and reports what it committed and what survived of the rest.
End(result, survived) ==
    run' = [AtRest EXCEPT !.result = result, !.report = survived \union run.committed]

\* The journal is one file: its own transaction leaves it as it was or changed.
SaveJournal(j, next, failed) ==
    \/ journal' = j /\ next /\ UNCHANGED faults
    \/ /\ faults < MaxFaults /\ faults' = faults + 1
       /\ journal' \in {j, journal} /\ failed

----------------------------------------------------------------------------
Start ==
    /\ run.pc = "rest" /\ run' = [AtRest EXCEPT !.pc = "resume"] /\ wrote' = {}
    /\ UNCHANGED <<txvars, journal, theirs, known, counts>>

Owed == {f \in DOMAIN journal.after : disk[f] # journal.after[f]}

\* Mutant: the whole transition is planned again from what was recorded.
Resume_Recorded ==
    /\ run.pc = "resume"
    /\ \/ /\ journal.phase # "pending" /\ To("verify") /\ UNCHANGED <<plan, tx, outcome>>
       \/ /\ journal.phase = "pending" /\ ~known
          /\ End("failed", {}) /\ UNCHANGED <<plan, tx, outcome>>
       \/ /\ journal.phase = "pending" /\ known
          /\ plan' = [before |-> [f \in Files |-> IF f \in DOMAIN journal.before
                                                 THEN journal.before[f] ELSE disk[f]],
                      after |-> journal.after]
          /\ tx' = [Idle EXCEPT !.pc = "planned"] /\ outcome' = Unreported
          /\ run' = [run EXCEPT !.pc = "applying", !.resumed = TRUE]
    /\ UNCHANGED <<files, raced, edits, faults, journal, ghosts, known, counts>>

\* resume_migration: what is owed of a pending transition is planned again.  A
\* target or a destination that the registry does not allow is refused, a file
\* that holds neither value is a conflict.
Resume ==
    /\ run.pc = "resume"
    /\ \/ /\ journal.phase # "pending" /\ To("verify") /\ UNCHANGED <<plan, tx, outcome>>
       \/ /\ journal.phase = "pending"
          /\ \E f \in Owed : disk[f] # journal.before[f]
          /\ End("conflict", {}) /\ UNCHANGED <<plan, tx, outcome>>
       \/ /\ journal.phase = "pending" /\ ~known
          /\ End("failed", {}) /\ UNCHANGED <<plan, tx, outcome>>
       \/ /\ journal.phase = "pending" /\ known
          /\ \A f \in Owed : disk[f] = journal.before[f]
          /\ plan' = [before |-> disk, after |-> [f \in Owed |-> journal.after[f]]]
          /\ tx' = [Idle EXCEPT !.pc = "planned"] /\ outcome' = Unreported
          /\ run' = [run EXCEPT !.pc = "applying", !.resumed = TRUE]
    /\ UNCHANGED <<files, raced, edits, faults, journal, ghosts, known, counts>>

\* verify_transition: a launch with the new registration, then the old ones
\* are released: what the files hold now is what is kept from now on.
VerifyTransition ==
    /\ run.pc \in {"verify", "verifyLast"}
    /\ LET on == IF run.pc = "verify" THEN To("plan") ELSE End("done", {})
       IN  /\ IF journal.phase = "none" \/ journal.verified
                THEN on /\ UNCHANGED <<journal, faults>>
                ELSE \/ /\ journal.phase = "complete"
                        /\ SaveJournal([journal EXCEPT !.verified = TRUE], on, End("failed", {}))
                     \/ End("failed", {}) /\ UNCHANGED <<journal, faults>>
           /\ theirs' = IF journal'.verified /\ journal'.phase = "complete" THEN disk ELSE theirs
    /\ UNCHANGED <<files, plan, tx, outcome, raced, edits, wrote, known, counts>>

MakePlan ==
    /\ run.pc = "plan"
    /\ \E target \in Targets :
          LET nothing == transitions = MaxTransitions \/ Changed(disk, target) = {}
          IN  /\ plan' = [before |-> disk, after |-> target] /\ outcome' = Unreported
              /\ To(IF nothing THEN "verifyLast" ELSE "journal")
              /\ transitions' = IF nothing THEN transitions ELSE transitions + 1
    /\ UNCHANGED <<files, tx, raced, edits, faults, journal, ghosts, known, crashes>>

Pending == [phase |-> "pending", verified |-> FALSE,
            before |-> [f \in Changed(plan.before, plan.after) |-> plan.before[f]],
            after |-> [f \in Changed(plan.before, plan.after) |-> plan.after[f]]]

\* apply_migration: a transition that is not verified is never recorded over;
\* what was planned is read again, then the intent is durable.
Record ==
    /\ run.pc = "journal"
    /\ IF (journal.phase # "none" /\ ~ journal.verified) \/ \E f \in DOMAIN plan.before : Stale(f)
         THEN End("failed", {}) /\ UNCHANGED <<journal, faults, tx, outcome>>
         ELSE SaveJournal(Pending,
                 /\ tx' = [Idle EXCEPT !.pc = "planned"] /\ outcome' = Unreported
                 /\ To("applying"),
                 End("failed", {}) /\ UNCHANGED <<tx, outcome>>)
    /\ UNCHANGED <<files, plan, raced, edits, ghosts, known, counts>>

\* A step of the transaction; what it writes over for the first time is the owner's.
Step ==
    /\ run.pc = "applying" /\ Apply
    /\ theirs' = [f \in Files |-> IF f \in ours' \ ours THEN disk[f] ELSE theirs[f]]
    /\ wrote' = wrote \union {f \in Files : disk'[f] # disk[f]}
    /\ UNCHANGED <<journal, run, known, counts>>

AppliedFailed ==
    /\ run.pc = "applying" /\ tx.pc = "idle" /\ outcome.status \in {"failed", "refused"}
    /\ End("failed", outcome.surviving)
    /\ UNCHANGED <<txvars, journal, ghosts, known, counts>>

\* _finish_journal: complete once every file of the transition holds its new content.
Finish ==
    /\ run.pc = "applying" /\ tx.pc = "idle" /\ outcome.status = "done"
    /\ LET changed == Changed(plan.before, plan.after)
           on == IF run.resumed THEN "verify" ELSE "verifyLast"
       IN  IF Owed = {}
             THEN SaveJournal([journal EXCEPT !.phase = "complete"],
                     run' = [run EXCEPT !.pc = on, !.resumed = FALSE, !.committed = @ \union changed],
                     End("failed", changed))
             ELSE End("failed", changed) /\ UNCHANGED <<journal, faults>>
    /\ UNCHANGED <<files, plan, tx, outcome, raced, edits, ghosts, known, counts>>

\* The process is gone, and with it everything but the files.
Crash ==
    /\ run.pc # "rest" /\ crashes < MaxCrashes /\ crashes' = crashes + 1
    /\ run' = AtRest /\ tx' = Idle /\ outcome' = Unreported /\ plan' = Blank
    /\ UNCHANGED <<files, raced, edits, faults, journal, ghosts, known, transitions>>

OwnerEdits ==
    /\ Edit /\ theirs' = [f \in Files |-> IF disk'[f] # disk[f] THEN disk'[f] ELSE theirs[f]]
    /\ UNCHANGED <<journal, run, wrote, known, counts>>

\* Brains and workspaces are registered and removed, their directories come and go.
Registry ==
    /\ known' = ~known
    /\ UNCHANGED <<txvars, journal, run, theirs, wrote, counts>>

Work == \/ Resume \/ VerifyTransition \/ MakePlan \/ Record \/ Step \/ AppliedFailed \/ Finish
MNext == Start \/ Work \/ Crash \/ OwnerEdits \/ Registry
MSpec == MInit /\ [][MNext]_vars
MFairSpec == MSpec /\ WF_vars(Work) /\ WF_vars(Start)
----------------------------------------------------------------------------
MTypeOK ==
    /\ TypeOK /\ theirs \in [Files -> Held] /\ wrote \subseteq Paths
    /\ journal.phase \in {"none", "pending", "complete"} /\ journal.verified \in BOOLEAN
    /\ DOMAIN journal.before = DOMAIN journal.after /\ DOMAIN journal.after \subseteq Paths
    /\ run.pc \in {"rest", "resume", "verify", "plan", "journal", "applying", "verifyLast"}
    /\ run.report \subseteq Paths /\ run.committed \subseteq Paths
    /\ known \in BOOLEAN /\ transitions \in 0..MaxTransitions /\ crashes \in 0..MaxCrashes

\* Whatever fails and whenever the process dies: what the owner last had in a
\* file the migration has changed is in the journal, until a launch with the
\* new registration released it (apply_migration, mcp_migration.py:136; the
\* refusal to record over a transition that is not verified, :144).
OriginalsKept ==
    \A f \in ours \ raced : disk[f] # theirs[f] =>
        f \in DOMAIN journal.before /\ journal.before[f] = theirs[f]

\* The journal says that the transition is complete only when each file the
\* migration wrote last holds its new content (_finish_journal, :243).
CompleteMeansApplied ==
    journal.phase = "complete" =>
        \A f \in DOMAIN journal.after \intersect ours : disk[f] = journal.after[f]

\* A pending transition can be resumed: a file that holds neither its old nor
\* its new content, which resume_migration refuses as a conflict (:218), was
\* edited by its owner.
ConflictMeansEdit ==
    journal.phase = "pending" =>
        \A f \in DOMAIN journal.before :
            theirs[f] = journal.before[f] => disk[f] \in {journal.before[f], journal.after[f]}

\* A run that did not succeed reports every file it has left changed, those
\* that an earlier step of it committed as well (execute_migrate, mcp.py:522).
EffectsReported ==
    run.result \in {"failed", "conflict"} =>
        {f \in (ours \intersect wrote) \ raced : disk[f] # theirs[f]} \subseteq run.report

\* A pending transition is completed, or its conflict is reported, when the
\* migration is run again and again while the registry allows its destinations.
TransitionSettles ==
    journal.phase = "pending" ~> journal.phase = "complete" \/ run.result = "conflict" \/ ~known

\* The journal is a true account of the owner's files (apply_migration).
JournalTellsTruth == MTypeOK /\ OriginalsKept /\ CompleteMeansApplied /\ ConflictMeansEdit

\* What a transaction or a run reports is what it has left on disk (execute_migrate).
ReportsTellTruth == EffectsReported /\ ReportedWhatSurvives /\ RestoredMeansRestored /\ DoneMeansApplied
=============================================================================
