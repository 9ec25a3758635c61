------------------------------ MODULE Upgrade ------------------------------
(* An upgrade of a vault and the write-ahead journal that makes a killed one *)
(* a failed one (scripts/upgrade.py, scripts/_bootstrap/upgrade_journal.py). *)
(*                                                                           *)
(* One run at a time holds the vault's mutation lock and is a process: `job` *)
(* is its memory, everything else is on disk and survives a kill.  The bytes *)
(* of a file are a record: which of the user's edits they carry and which    *)
(* migrations have transformed them.  The migration ledger is such a file    *)
(* too (Ledger): the migrations in its bytes are the ones it records.        *)
EXTENDS Naturals, FiniteSets, SequencesExt

CONSTANTS Versions, Migrations, Ver, Effects, Paths,   \* as in AllOrNothing
          Stage,       \* Stage[m] \in {"pre", "post"}: before or after the compile
          Declared,    \* the migrations that declare their effects
          CoreFiles,   \* the files of the core
          MaxKills, MaxFaults, MaxEdits,   \* bounds of what goes wrong,
          MaxMishaps                       \* and of all of it together

ASSUME UpgradeAssumption ==
    /\ Versions \subseteq Nat /\ IsFiniteSet(Migrations) /\ IsFiniteSet(Paths)
    /\ Ver \in [Migrations -> Nat] /\ Stage \in [Migrations -> {"pre", "post"}]
    /\ Effects \in [Migrations -> SUBSET Paths] /\ Declared \subseteq Migrations
    /\ "ledger" \notin Paths /\ "root" \notin Paths
    /\ {MaxKills, MaxFaults, MaxEdits, MaxMishaps} \subseteq Nat

VARIABLES version,   \* the VERSION file
          core,      \* core[f]: the version the core file is of
          vault,     \* vault[p]: the bytes at p, or Absent
          head,      \* the journal's header: <<old, new>>, or NoHead
          lines,     \* the journal's entries file: lines, the last may be Torn
          blobs,     \* the bytes in the journal's blobs directory
          kept,      \* the bytes in the recovery store, with their paths
          job,       \* the running upgrade's memory
          edited,    \* history: the user's edits, in order
          kills, faults

upgradeVars == <<version, core, vault, head, lines, blobs, kept, job, edited, kills, faults>>
disk == <<version, core, vault, head, lines, blobs, kept>>

Ledger == "ledger"
Root == "root"             \* the tree undeclared migrations may change
Files == Paths \union {Ledger}
Absent == [edit |-> 0, migs |-> {}, exists |-> FALSE]
Bytes(e, ms) == [edit |-> e, migs |-> ms, exists |-> TRUE]
NoHead == <<>>
Torn == [stage |-> "torn", path |-> Root, was |-> Absent]
Line(stage, p, was) == [stage |-> stage, path |-> p, was |-> was]

NoRun == [pc |-> "idle", old |-> 0, new |-> 0, force |-> FALSE, stage |-> "pre", mig |-> {},
         left |-> {}, todo |-> <<>>, then |-> "idle", failed |-> {}, plan |-> {},
         backup |-> <<>>]
Goto(pc) == [job EXCEPT !.pc = pc]
Mishap(n, max) == n < max /\ kills + faults + Len(edited) < MaxMishaps

----------------------------------------------------------------------------
(* The journal as its reader sees it.                                        *)

\* _read_entries: an unterminated tail is dropped.
WholeLines == {i \in 1 .. Len(lines) : i < Len(lines) \/ lines[i] # Torn}
\* Every line is an entry, and names a blob that is there.
Readable == \A i \in WholeLines : lines[i] # Torn /\ (lines[i].was.exists => lines[i].was \in blobs)

Captured(stage, p) == \E i \in 1 .. Len(lines) : lines[i].stage = stage /\ lines[i].path = p
\* stage_entries: the first entry for a path in a stage wins.
First(stage, p) == LET i == CHOOSE i \in 1 .. Len(lines) :
                              /\ lines[i].stage = stage /\ lines[i].path = p
                              /\ \A j \in 1 .. i - 1 : lines[j].stage # stage \/ lines[j].path # p
                   IN lines[i].was
\* What a restore of this stage makes of p: a captured path gets its bytes back, and a
\* path that the listing of its captured root does not know is removed.
RestoredIn(stage, p) == CASE Captured(stage, p) -> First(stage, p)
                          [] ~Captured(stage, p) /\ p \in Paths /\ Captured(stage, Root) -> Absent
                          [] OTHER -> vault[p]

\* _recover_leftover_journal: the run it belongs to never committed.
Uncommitted == head # NoHead /\ version = head[1]

----------------------------------------------------------------------------
UpgradeInit ==
    /\ \E v \in Versions, there \in SUBSET Paths :
        /\ version = v
        /\ core = [f \in CoreFiles |-> v]
        /\ vault = [p \in Files |->
             LET ms == {m \in Migrations : Ver[m] <= v /\ p \in Effects[m]}
             IN IF ms # {} \/ p \in there THEN Bytes(0, ms) ELSE Absent]
    /\ head = NoHead /\ lines = <<>> /\ blobs = {} /\ kept = {}
    /\ job = NoRun /\ edited = <<>> /\ kills = 0 /\ faults = 0

----------------------------------------------------------------------------
(* The run starts: the lock, a leftover journal, the content guard.          *)

Start(w, force) ==
    /\ job.pc = "idle"
    /\ job' = [NoRun EXCEPT !.pc = "load", !.old = version, !.new = w, !.force = force]
    /\ UNCHANGED <<disk, edited, kills, faults>>

\* Mutant: a leftover journal is always restored, VERSION is not asked.
Recover_Always ==
    /\ job.pc = "load"
    /\ job' = CASE head = NoHead -> Goto("guard")
                [] head # NoHead /\ ~Readable -> NoRun
                [] OTHER -> [job EXCEPT !.pc = "plan", !.stage = "ledger", !.then = "guard"]
    /\ UNCHANGED <<disk, edited, kills, faults>>

\* _recover_leftover_journal: nothing, a refusal, a discard or a restore.
Recover ==
    /\ job.pc = "load"
    /\ job' = CASE head = NoHead -> Goto("guard")
                [] head # NoHead /\ ~Readable -> NoRun
                [] head # NoHead /\ Readable /\ head[1] # head[2] /\ version = head[2] ->
                     [job EXCEPT !.pc = "discard", !.then = "guard"]
                [] head # NoHead /\ Readable /\ Uncommitted ->
                     [job EXCEPT !.pc = "plan", !.stage = "ledger", !.then = "guard"]
                [] OTHER -> NoRun
    /\ UNCHANGED <<disk, edited, kills, faults>>

Recorded == vault[Ledger].migs
\* _refuse_older_source; the same version is applied again when forced or when the core differs.
MayProceed == /\ job.new >= version
              /\ \A m \in Recorded : job.new >= Ver[m]
              /\ job.force \/ job.new # version \/ \E f \in CoreFiles : core[f] # job.new

\* Mutant: what is left of a discarded journal counts as one.
Guard_Remnant ==
    /\ job.pc = "guard"
    /\ job' = IF MayProceed /\ head = NoHead /\ lines = <<>> THEN Goto("open") ELSE NoRun
    /\ UNCHANGED <<disk, edited, kills, faults>>

\* _plan, and UpgradeJournal.open up to its header: refuses a journal that is present,
\* removes what is left of a discarded one.
Guard ==
    /\ job.pc = "guard"
    /\ IF MayProceed /\ head = NoHead
       THEN job' = Goto("open") /\ lines' = <<>> /\ blobs' = {}
       ELSE job' = NoRun /\ UNCHANGED <<lines, blobs>>
    /\ UNCHANGED <<version, core, vault, head, kept, edited, kills, faults>>

\* The header last; then the core is copied to a temporary directory.
Open ==
    /\ job.pc = "open"
    /\ head' = <<job.old, job.new>>
    /\ job' = [job EXCEPT !.pc = "copy", !.backup = core]
    /\ UNCHANGED <<version, core, vault, lines, blobs, kept, edited, kills, faults>>

\* The journal cannot be opened; or the backup does not verify, or the settings cannot
\* be captured: refused, nothing written.
Refuse ==
    /\ job.pc = "open" \/ (job.pc = "copy" /\ core = job.backup)
    /\ Mishap(faults, MaxFaults)
    /\ faults' = faults + 1
    /\ job' = IF job.pc = "open" THEN NoRun ELSE [job EXCEPT !.pc = "discard", !.then = "idle"]
    /\ UNCHANGED <<disk, edited, kills>>

----------------------------------------------------------------------------
(* Copy, capture, migrate, commit.                                           *)

\* Capture these paths, then go on: a path the stage has already is not captured again.
Capture(stage, ps, root, then) ==
    LET files == SetToSeq({p \in ps : ~Captured(stage, p)})
        new == [i \in 1 .. Len(files) |-> Line(stage, files[i], vault[files[i]])]
    IN [job EXCEPT !.pc = "blobs", !.then = then,
                   !.todo = IF root THEN Append(new, Line(stage, Root, Absent)) ELSE new]

\* _copy_core_except_version: one differing file at a time.
Copy(f) ==
    /\ job.pc = "copy" /\ core[f] # job.new
    /\ core' = [core EXCEPT ![f] = job.new]
    /\ UNCHANGED <<version, vault, head, lines, blobs, kept, job, edited, kills, faults>>

\* The ledger is captured even when it is absent.
Copied ==
    /\ job.pc = "copy" /\ \A f \in CoreFiles : core[f] = job.new
    /\ job' = [Capture("pre", {Ledger}, FALSE, "seed") EXCEPT !.stage = "pre"]
    /\ UNCHANGED <<disk, edited, kills, faults>>

\* The bytes a line names are on disk before any line is.
WriteBlob ==
    /\ job.pc = "blobs"
    /\ LET missing == {i \in 1 .. Len(job.todo) : job.todo[i].was.exists /\ job.todo[i].was \notin blobs}
       IN IF missing = {} THEN job' = Goto("lines") /\ UNCHANGED blobs
          ELSE blobs' = blobs \union {job.todo[CHOOSE i \in missing : \A k \in missing : i <= k].was}
               /\ UNCHANGED job
    /\ UNCHANGED <<version, core, vault, head, lines, kept, edited, kills, faults>>

WriteLine ==
    /\ job.pc = "lines"
    /\ IF job.todo = <<>> THEN job' = Goto(job.then) /\ UNCHANGED lines
       ELSE lines' = Append(lines, Head(job.todo)) /\ job' = [job EXCEPT !.todo = Tail(@)]
    /\ UNCHANGED <<version, core, vault, head, blobs, kept, edited, kills, faults>>

Recording(ms) == [vault EXCEPT ![Ledger] = Bytes(@.edit, @.migs \union ms)]

\* _seed_migration_ledger: what the installed version implies is recorded as done.
Seed ==
    /\ job.pc = "seed"
    /\ LET old == {m \in Migrations : Stage[m] = job.stage /\ Ver[m] <= job.old}
       IN vault' = IF old \subseteq Recorded THEN vault ELSE Recording(old)
    /\ job' = Goto("migrate")
    /\ UNCHANGED <<version, core, head, lines, blobs, kept, edited, kills, faults>>

\* _select_pending_migrations
Pending == {m \in Migrations : /\ Stage[m] = job.stage /\ m \notin Recorded
                               /\ job.old < Ver[m] /\ Ver[m] <= job.new}

\* capture_effects: the declared paths, or once per stage the tree.
Prepare(m) ==
    /\ job.pc = "migrate" /\ m \in Pending /\ \A n \in Pending : Ver[m] <= Ver[n]
    /\ job' = [(IF m \in Declared THEN Capture(job.stage, Effects[m], FALSE, "effects")
                ELSE IF Captured(job.stage, Root) THEN Goto("effects")
                ELSE Capture(job.stage, {p \in Paths : vault[p].exists}, TRUE, "effects"))
               EXCEPT !.mig = {m}, !.left = Effects[m]]
    /\ UNCHANGED <<disk, edited, kills, faults>>

\* The handler, one file at a time.
Migrate(p) ==
    /\ job.pc = "effects" /\ p \in job.left
    /\ vault' = [vault EXCEPT ![p] = Bytes(@.edit, @.migs \union job.mig)]
    /\ job' = [job EXCEPT !.left = @ \ {p}]
    /\ UNCHANGED <<version, core, head, lines, blobs, kept, edited, kills, faults>>

\* _record_migration_result, straight after the migration.
RecordResult ==
    /\ job.pc = "effects" /\ job.left = {}
    /\ vault' = Recording(job.mig)
    /\ job' = Goto("migrate")
    /\ UNCHANGED <<version, core, head, lines, blobs, kept, edited, kills, faults>>

\* The compile is valid and the next stage begins, or the cutover is next.
EndStage ==
    /\ job.pc = "migrate" /\ Pending = {}
    /\ job' = IF job.stage = "pre" THEN [job EXCEPT !.stage = "post", !.pc = "seed"] ELSE Goto("cutover")
    /\ UNCHANGED <<disk, edited, kills, faults>>

\* commit_callback, the last thing that may fail and be rolled back; then _commit.
Cutover ==
    /\ job.pc = "cutover"
    /\ job' = [job EXCEPT !.pc = "discard", !.then = "version"]
    /\ UNCHANGED <<disk, edited, kills, faults>>

\* UpgradeJournal.discard: the header first, then the rest.
Discard ==
    /\ job.pc = "discard"
    /\ head' = NoHead
    /\ job' = Goto("sweep")
    /\ UNCHANGED <<version, core, vault, lines, blobs, kept, edited, kills, faults>>

Sweep ==
    /\ job.pc = "sweep"
    /\ lines' = <<>> /\ blobs' = {}
    /\ job' = Goto(job.then)
    /\ UNCHANGED <<version, core, vault, head, kept, edited, kills, faults>>

\* _discard_journal: a failure is a warning.
DiscardFails ==
    /\ job.pc \in {"discard", "sweep"} /\ Mishap(faults, MaxFaults)
    /\ faults' = faults + 1
    /\ job' = Goto(job.then)
    /\ UNCHANGED <<disk, edited, kills>>

\* _commit_version
WriteVersion ==
    /\ job.pc = "version"
    /\ version' = job.new
    /\ job' = NoRun
    /\ UNCHANGED <<core, vault, head, lines, blobs, kept, edited, kills, faults>>

\* The write fails: status partial, nothing is rolled back.
VersionFails ==
    /\ job.pc = "version" /\ Mishap(faults, MaxFaults)
    /\ faults' = faults + 1
    /\ job' = NoRun
    /\ UNCHANGED <<disk, edited, kills>>

----------------------------------------------------------------------------
(* Restore: after a failure by the run itself, after a kill by the next one. *)

\* _rollback
Fail ==
    /\ job.pc \in {"copy", "blobs", "lines", "seed", "migrate", "effects", "cutover"}
    /\ Mishap(faults, MaxFaults)
    /\ faults' = faults + 1
    /\ job' = [job EXCEPT !.pc = "plan", !.stage = "ledger", !.then = "idle"]
    /\ UNCHANGED <<disk, edited, kills>>

\* What this pass of restore_journal looks at, and the stage it takes it from.
Scope == IF job.stage = "ledger" THEN {Ledger} ELSE Files
Wanted(p) == RestoredIn(IF job.stage = "ledger" THEN "pre" ELSE job.stage, p)
\* Mutant: the oldest stage first.
NextPass_OldestFirst == CASE job.stage = "ledger" -> "pre" [] job.stage = "pre" -> "post" [] OTHER -> "done"

NextPass == CASE job.stage = "ledger" -> "post" [] job.stage = "post" -> "pre" [] OTHER -> "done"

\* Mutant: only what the journal never held is kept.
PlanRestore_KeepsUnlisted ==
    /\ job.pc = "plan"
    /\ LET differ == {p \in Scope : Wanted(p) # vault[p]}
       IN /\ job' = [job EXCEPT !.pc = "restore", !.plan = differ]
          /\ kept' = kept \union {<<p, vault[p]>> : p \in {q \in differ : vault[q].exists /\ ~Wanted(q).exists}}
    /\ UNCHANGED <<version, core, vault, head, lines, blobs, edited, kills, faults>>

\* What differs from the snapshot is copied to the recovery store before anything is written.
PlanRestore ==
    /\ job.pc = "plan"
    /\ LET differ == {p \in Scope : Wanted(p) # vault[p]}
       IN /\ job' = [job EXCEPT !.pc = "restore", !.plan = differ]
          /\ kept' = kept \union {<<p, vault[p]>> : p \in {q \in differ : vault[q].exists}}
    /\ UNCHANGED <<version, core, vault, head, lines, blobs, edited, kills, faults>>

RestoreFile(p) ==
    /\ job.pc = "restore" /\ p \in job.plan
    /\ vault' = [vault EXCEPT ![p] = Wanted(p)]
    /\ job' = [job EXCEPT !.plan = @ \ {p}]
    /\ UNCHANGED <<version, core, head, lines, blobs, kept, edited, kills, faults>>

\* Every failure is attempted past and reported.
RestoreFails(p) ==
    /\ job.pc = "restore" /\ p \in job.plan /\ Mishap(faults, MaxFaults)
    /\ faults' = faults + 1
    /\ job' = [job EXCEPT !.plan = @ \ {p}, !.failed = @ \union {p}]
    /\ UNCHANGED <<disk, edited, kills>>

\* The pass is verified; after the last one a recovery is finished, a rollback goes on to the core.
Verify ==
    /\ job.pc = "restore" /\ job.plan = {}
    /\ LET failed == job.failed \union {p \in Scope : Wanted(p) # vault[p]}
       IN job' = IF NextPass # "done" THEN [job EXCEPT !.failed = failed, !.stage = NextPass, !.pc = "plan"]
                 ELSE IF job.then = "idle" THEN [job EXCEPT !.failed = failed, !.pc = "core"]
                 ELSE IF failed = {} THEN Goto("discard")
                 ELSE NoRun
    /\ UNCHANGED <<disk, edited, kills, faults>>

\* _restore_brain_core
RestoreCore(f) ==
    /\ job.pc = "core" /\ core[f] # job.backup[f]
    /\ core' = [core EXCEPT ![f] = job.backup[f]]
    /\ UNCHANGED <<version, vault, head, lines, blobs, kept, job, edited, kills, faults>>

\* Only a rollback that verifies closes the journal.
EndRollback ==
    /\ job.pc = "core" /\ core = job.backup
    /\ job' = IF job.failed = {} THEN Goto("discard") ELSE NoRun
    /\ UNCHANGED <<disk, edited, kills, faults>>

----------------------------------------------------------------------------
(* What the run cannot prevent.                                              *)

\* The process is killed; a line it was writing is torn.
Kill ==
    /\ job.pc # "idle" /\ Mishap(kills, MaxKills)
    /\ kills' = kills + 1
    /\ job' = NoRun
    /\ lines' \in IF job.pc = "lines" /\ job.todo # <<>> THEN {lines, Append(lines, Torn)} ELSE {lines}
    /\ UNCHANGED <<version, core, vault, head, blobs, kept, edited, faults>>

\* The user's editor knows nothing of the lock.  An edit is `raced` when a restore has
\* looked at the file and is about to write it.
Edit(p) ==
    /\ Mishap(Len(edited), MaxEdits)
    /\ edited' = Append(edited, [path |-> p, raced |-> job.pc = "restore" /\ p \in job.plan])
    /\ vault' = [vault EXCEPT ![p] = Bytes(Len(edited'), @.migs)]
    /\ UNCHANGED <<version, core, head, lines, blobs, kept, job, kills, faults>>

Step == \/ Recover \/ Guard \/ Open \/ Copied \/ WriteBlob \/ WriteLine \/ Seed \/ RecordResult
        \/ EndStage \/ Cutover \/ Discard \/ Sweep \/ WriteVersion
        \/ PlanRestore \/ Verify \/ EndRollback
        \/ \E f \in CoreFiles : Copy(f) \/ RestoreCore(f)
        \/ \E m \in Migrations : Prepare(m)
        \/ \E p \in Files : Migrate(p) \/ RestoreFile(p)

UpgradeNext ==
    \/ Step
    \/ \E w \in Versions, force \in BOOLEAN : Start(w, force)
    \/ Refuse \/ DiscardFails \/ VersionFails \/ Fail \/ Kill
    \/ \E p \in Files : RestoreFails(p)
    \/ \E p \in Paths : Edit(p)

UpgradeSpec == UpgradeInit /\ [][UpgradeNext]_upgradeVars

\* The run's own steps go on unless it is killed, and somebody keeps asking for the newest
\* version, however often it was refused or rolled back.
Newest == CHOOSE w \in Versions : \A v \in Versions : v <= w
UpgradeFairSpec == UpgradeSpec /\ WF_upgradeVars(Step) /\ SF_upgradeVars(Start(Newest, FALSE))

----------------------------------------------------------------------------
(* Properties.                                                               *)

UpgradeTypeOK ==
    /\ version \in Versions /\ core \in [CoreFiles -> Versions]
    /\ \A p \in Files : vault[p] = Absent \/ vault[p] \in [edit : 0 .. MaxEdits, migs : SUBSET Migrations, exists : {TRUE}]
    /\ head = NoHead \/ head \in Versions \X Versions
    /\ \A i \in 1 .. Len(lines) : lines[i].stage \in {"pre", "post", "torn"} /\ lines[i].path \in Files \union {Root}
    /\ \A b \in blobs : b.exists
    /\ kills \in 0 .. MaxKills /\ faults \in 0 .. MaxFaults /\ Len(edited) <= MaxEdits

\* A journal that is there can be read: a kill at any point leaves no line, in front of a
\* torn one, that names bytes that are not on disk (UpgradeJournal._append, discard).
JournalReadable == head # NoHead => Readable

\* VERSION vouches for the content: no leftover journal, whatever run it is of, takes back a
\* migration of the installed version or below (_recover_leftover_journal, _commit).
VersionWitnesses == \A m \in Migrations : Ver[m] <= version => \A p \in Effects[m] : m \in vault[p].migs

\* The ledger never claims a migration whose effects are missing, in the middle of a run or
\* of a restore or after a kill; only while a failure to restore it is being reported and
\* the journal kept may it (restore_journal).
LedgerBehindContent ==
    \/ \A m \in Recorded : \A p \in Effects[m] : m \in vault[p].migs
    \/ (Uncommitted /\ faults > 0)

\* The last bytes the user gave a file are in it or in the recovery store: no restore
\* destroys an edit made since the journal was written (RecoveryStore), except one made
\* between the restore's look at that file and its write.
NoEditLost ==
    \A i \in 1 .. Len(edited) :
        LET p == edited[i].path IN
        ((\A j \in i + 1 .. Len(edited) : edited[j].path # p) /\ ~edited[i].raced) =>
            \/ vault[p].edit = i
            \/ \E k \in kept : k[1] = p /\ k[2].edit = i

\* What the next run will make of p: a journal whose run has not committed is restored, the
\* stages newest first.
Original(p) ==
    CASE ~Uncommitted -> vault[p]
      [] Uncommitted /\ (Captured("pre", p) \/ (p \in Paths /\ Captured("pre", Root))) -> RestoredIn("pre", p)
      [] OTHER -> RestoredIn("post", p)

\* All or nothing: up to the moment the journal is closed the upgrade has not happened, from
\* then on it has, whole; restoring, killing and restoring again change nothing.
Promise == INSTANCE AllOrNothing WITH
    content <- [p \in Paths |-> Original(p).migs],
    ledger <- Original(Ledger).migs
ImplementsAllOrNothing == Promise!Spec

\* In a stage of a run no undeclared migration comes before, or with, a declared one of the
\* same file: what the first of them creates would be taken for what was there (section 5 of
\* README).  Without it an upgrade is not all or nothing.
Orderly == \A u \in Migrations \ Declared, d \in Declared :
              Stage[u] = Stage[d] /\ Effects[u] \cap Effects[d] # {} /\ (\E v \in Versions : v < Ver[u])
                 => Ver[d] < Ver[u]

\* However often it is killed or fails, an upgrade that is run again and again gets there,
\* with the whole core.
Completes == <>[](version = Newest /\ \A f \in CoreFiles : core[f] = Newest)

\* Journal, VERSION, ledger and content fit each other whenever the run may be killed.
JournalSound == UpgradeTypeOK /\ JournalReadable /\ VersionWitnesses /\ LedgerBehindContent
=============================================================================
