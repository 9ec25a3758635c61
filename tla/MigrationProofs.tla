--------------------------- MODULE MigrationProofs ---------------------------
(* The theorems about Migration: what its journal and its reports say is     *)
(* true, and no edit that can be seen is written over.                       *)
EXTENDS Migration, FiniteSetTheorems, WellFoundedInduction, TLAPS

Going == {"verify", "look", "write", "undo", "unwrite", "reread", "report"}
Back == {"undo", "unwrite", "reread", "report"}
Partial == UNION {[D -> Held] : D \in SUBSET Paths}
Plans == [before : [Files -> Held], after : Partial]
Journals == {j \in [phase : {"none", "pending", "complete"}, verified : BOOLEAN,
                    before : Partial, after : Partial] : DOMAIN j.before = DOMAIN j.after}
Runs == [pc : {"rest", "resume", "verify", "plan", "journal", "applying", "verifyLast"},
         resumed : BOOLEAN, committed : SUBSET Paths,
         result : {"none", "done", "failed", "conflict"}, report : SUBSET Paths]
Transactions == [pc : Going \union {"idle", "planned"}, todo : SUBSET Paths,
                 tried : SUBSET Paths, made : BOOLEAN, errors : Nat]
Outcomes == [status : {"none", "done", "failed", "refused"}, surviving : SUBSET Paths,
             folder : BOOLEAN, errors : Nat]

\* The values of the variables.
Typed ==
    /\ disk \in [Files -> Held] /\ theirs \in [Files -> Held]
    /\ ours \subseteq Paths /\ wrote \subseteq Paths /\ raced \subseteq Files
    /\ folder \in {"none", "empty", "used"}
    /\ plan \in Plans \union {Blank} /\ tx \in Transactions /\ outcome \in Outcomes
    /\ journal \in Journals /\ run \in Runs
    /\ edits \in 0..MaxEdits /\ faults \in 0..MaxFaults
    /\ transitions \in 0..MaxTransitions /\ crashes \in 0..MaxCrashes

\* Where a transaction is: what it has still to do, and what it has tried.
Progress ==
    /\ tx.pc \in {"idle", "planned", "verify", "look", "write"} => tx.errors = 0
    /\ tx.pc = "planned" => tx.todo = {}
    /\ tx.pc \in {"planned", "verify"} => tx.tried = {}
    /\ tx.pc \in {"verify", "look", "write"} => tx.todo \subseteq Changes(plan)
    /\ tx.pc = "look" => tx.tried = Changes(plan) \ tx.todo
    /\ tx.pc = "write" => tx.todo # {} /\ tx.tried = (Changes(plan) \ tx.todo) \union {Current}
    /\ tx.pc \in Back => tx.todo \subseteq tx.tried /\ tx.tried \subseteq Changes(plan)
    /\ tx.pc \in {"unwrite", "reread"} => tx.todo # {}
    /\ tx.pc = "report" => tx.todo = {}
    /\ tx.pc \in Back \ {"report"} => tx.errors + Cardinality(tx.todo) <= Cardinality(Paths)
    /\ tx.errors <= Cardinality(Paths) + 1

\* Which run a transaction is in, and what that run has recorded of it.
Phases ==
    /\ run.pc \in {"journal", "applying"} => plan \in Plans
    /\ run.pc # "rest" => run.result = "none"
    /\ tx.pc # "idle" => run.pc = "applying" /\ outcome = Unreported
    /\ run.pc = "applying" /\ tx.pc = "idle" => outcome.status # "none"
    /\ outcome.status # "none" => plan \in Plans
    /\ journal.phase # "complete" => ~ journal.verified
    /\ run.pc = "applying" =>
          /\ journal.phase = "pending"
          /\ \A f \in Changes(plan) : f \in DOMAIN journal.before
                /\ journal.before[f] = plan.before[f] /\ journal.after[f] = plan.after[f]

\* What the files of the plan hold while the transaction is under way.
Progressing ==
    /\ tx.pc \in Going =>
          \A f \in Changes(plan) : disk[f] = plan.after[f] => f \in ours \union raced
    /\ tx.pc = "write" => ~ Stale(Current) \/ Current \in raced
    /\ tx.pc = "unwrite" => disk[Current] = plan.after[Current] \/ Current \in raced
    /\ tx.pc \in Going => \A f \in ours : Stale(f) => f \in tx.tried
    /\ tx.pc \in Back /\ tx.errors = 0 => \A f \in ours : Stale(f) => f \in tx.todo
    /\ tx.pc \in {"look", "write"} => \A f \in Changes(plan) \ tx.todo :
          disk[f] = plan.after[f] \/ (edits > 0 /\ f \notin ours)

Unreleased == journal.phase = "pending" \/ (journal.phase = "complete" /\ ~ journal.verified)
\* What the owner last had in the files, and the journal of it.
Kept ==
    /\ \A f \in Files \ ours : disk[f] = theirs[f]
    /\ ~ Unreleased => disk = theirs
    /\ Unreleased => \A f \in Files :
          IF f \in DOMAIN journal.before
            THEN f \in ours \ raced => theirs[f] = journal.before[f]
            ELSE disk[f] = theirs[f]
    /\ journal.phase = "pending" => \A f \in DOMAIN journal.before \intersect ours :
          disk[f] \in {journal.before[f], journal.after[f]}

\* What a run has changed, and what it is about to report.
LeftChanged == {f \in (ours \intersect wrote) \ raced : disk[f] # theirs[f]}
Accounted ==
    CASE tx.pc # "idle" -> tx.tried
      [] tx.pc = "idle" /\ outcome.status = "failed" -> outcome.surviving
      [] tx.pc = "idle" /\ outcome.status = "done" -> Changes(plan)
      [] OTHER -> {}
Telling ==
    run.pc # "rest" =>
        LeftChanged \subseteq run.committed \union (IF run.pc = "applying" THEN Accounted ELSE {})

MigrationInv ==
    /\ Typed /\ Progress /\ Phases /\ Progressing /\ Kept /\ Telling
    /\ CompleteMeansApplied /\ ReportsTellTruth
----------------------------------------------------------------------------
(* Constants: the order of the names, and what plans and journals are.       *)

\* A set of paths has a path of the smallest rank, and one of the largest.
LEMMA FirstLast == \A S \in SUBSET Paths : S # {} => First(S) \in S /\ Last(S) \in S
<1> SUFFICES ASSUME NEW S \in SUBSET Paths, S # {} PROVE First(S) \in S /\ Last(S) \in S
  OBVIOUS
<1> DEFINE below(f) == {g \in S : Rank[g] <= Rank[f]}
           above(f) == {g \in S : Rank[f] <= Rank[g]}
           R == StrictSubsetOrdering(S)
<1>1. IsFiniteSet(Files) /\ S \in SUBSET Files /\ \A f \in S : Rank[f] \in Nat
  BY TransactionAssumption DEF Files
<1>2. IsFiniteSet(S)
  BY <1>1, FS_Subset
<1>3. FiniteSubsetsOf(S) = SUBSET S
  BY <1>2, FS_FiniteSubsetsOfFinite
<1>4. IsWellFoundedOn(R, SUBSET S)
  BY <1>3, FS_StrictSubsetOrderingWellFounded
<1>5. \E f \in S : \A g \in S : Rank[f] <= Rank[g]
  <2> DEFINE T == {below(f) : f \in S}
  <2>1. T \subseteq SUBSET S /\ T # {}
    OBVIOUS
  <2> HIDE DEF R, T
  <2>2. PICK x \in T : \A y \in T : ~ (<<y, x>> \in R)
    BY <1>4, <2>1, WFMin
  <2>3. PICK f \in S : x = below(f)
    BY DEF T
  <2>4. ASSUME NEW g \in S, ~ (Rank[f] <= Rank[g]) PROVE FALSE
    <3>1. below(g) \in T /\ below(g) \subseteq below(f) /\ f \in below(f) /\ f \notin below(g)
      BY <1>1, <2>4 DEF T
    <3>2. <<below(g), below(f)>> \in R
      BY <3>1 DEF R, StrictSubsetOrdering
    <3> QED
      BY <2>2, <2>3, <3>1, <3>2
  <2> QED
    BY <2>4
<1>6. \E f \in S : \A g \in S : Rank[g] <= Rank[f]
  <2> DEFINE T == {above(f) : f \in S}
  <2>1. T \subseteq SUBSET S /\ T # {}
    OBVIOUS
  <2> HIDE DEF R, T
  <2>2. PICK x \in T : \A y \in T : ~ (<<y, x>> \in R)
    BY <1>4, <2>1, WFMin
  <2>3. PICK f \in S : x = above(f)
    BY DEF T
  <2>4. ASSUME NEW g \in S, ~ (Rank[g] <= Rank[f]) PROVE FALSE
    <3>1. above(g) \in T /\ above(g) \subseteq above(f) /\ f \in above(f) /\ f \notin above(g)
      BY <1>1, <2>4 DEF T
    <3>2. <<above(g), above(f)>> \in R
      BY <3>1 DEF R, StrictSubsetOrdering
    <3> QED
      BY <2>2, <2>3, <3>1, <3>2
  <2> QED
    BY <2>4
<1> QED
  BY <1>5, <1>6 DEF First, Last

\* Functions on a set of paths are functions of Partial, and no others.
LEMMA PartialFacts ==
    /\ \A D \in SUBSET Paths : \A g \in [D -> Held] : g \in Partial
    /\ \A g \in Partial : DOMAIN g \subseteq Paths /\ \A f \in DOMAIN g : g[f] \in Held
BY DEF Partial

\* What a plan says of the files it changes.
LEMMA PlanFacts ==
    \A p \in Plans :
       /\ DOMAIN p.before = Files /\ \A f \in Files : p.before[f] \in Held
       /\ DOMAIN p.after \subseteq Paths
       /\ Changes(p) \subseteq Paths /\ Changes(p) \subseteq DOMAIN p.after
       /\ \A f \in Changes(p) : p.after[f] \in Held /\ p.after[f] # p.before[f]
BY PartialFacts DEF Plans, Changes, Changed

LEMMA BlankFacts == Changes(Blank) = {} /\ DOMAIN Blank.before = {}
BY DEF Changes, Changed, Blank

\* A set of paths has at most as many members as Paths, and one fewer without one of them.
LEMMA PathCounts ==
    /\ Cardinality(Paths) \in Nat
    /\ \A S \in SUBSET Paths :
          /\ Cardinality(S) \in Nat /\ Cardinality(S) <= Cardinality(Paths)
          /\ \A f \in S : Cardinality(S \ {f}) = Cardinality(S) - 1
<1>1. IsFiniteSet(Paths)
  BY TransactionAssumption, FS_Subset DEF Files
<1>2. ASSUME NEW S \in SUBSET Paths
      PROVE  IsFiniteSet(S) /\ Cardinality(S) <= Cardinality(Paths)
  BY <1>1, FS_Subset
<1> QED
  BY <1>1, <1>2, FS_CardinalityType, FS_RemoveElement
----------------------------------------------------------------------------
(* Frames: what steps leave alone.                                           *)

Reported == ReportedWhatSurvives /\ RestoredMeansRestored /\ DoneMeansApplied

LEMMA IdleProgress ==
    ASSUME tx' = Idle
    PROVE  Progress' /\ Progressing'
<1>1. tx'.pc = "idle" /\ tx'.errors = 0
  BY DEF Idle
<1>2. Cardinality(Paths)' = Cardinality(Paths)
  OBVIOUS
<1> QED
  BY <1>1, <1>2, PathCounts DEF Progress, Progressing, Going, Back

LEMMA TxFrame ==
    ASSUME Progress, Progressing, UNCHANGED <<disk, ours, plan, tx, raced, edits>>
    PROVE  Progress' /\ Progressing'
BY DEF Progress, Progressing, Current, Stale

LEMMA KeptFrame ==
    ASSUME Kept, CompleteMeansApplied, UNCHANGED <<disk, ours, theirs, raced, journal>>
    PROVE  Kept' /\ CompleteMeansApplied'
BY DEF Kept, CompleteMeansApplied, Unreleased

LEMMA ReportedFrame ==
    ASSUME Reported, UNCHANGED <<disk, ours, plan, outcome, edits>>
    PROVE  Reported'
BY DEF Reported, ReportedWhatSurvives, RestoredMeansRestored, DoneMeansApplied, Stale

LEMMA UnreportedTells ==
    ASSUME outcome'.status \in {"none", "refused"}
    PROVE  Reported'
BY DEF Reported, ReportedWhatSurvives, RestoredMeansRestored, DoneMeansApplied

\* A run that goes on reports nothing yet.
LEMMA RunningReports ==
    ASSUME run'.result \notin {"failed", "conflict"}
    PROVE  EffectsReported'
BY DEF EffectsReported

LEMMA LeftFrame ==
    ASSUME UNCHANGED <<disk, ours, theirs, raced, wrote>>
    PROVE  LeftChanged' = LeftChanged
BY DEF LeftChanged

\* Records of the transaction and of the run.
LEMMA GoTx ==
    ASSUME Typed, NEW pc \in Going, NEW todo \in SUBSET Paths, NEW tried \in SUBSET Paths,
           NEW e \in Nat
    PROVE  [tx EXCEPT !.pc = pc, !.todo = todo, !.tried = tried, !.errors = e] \in Transactions
BY DEF Typed, Transactions

LEMMA RestTypes == Idle \in Transactions /\ Unreported \in Outcomes /\ AtRest \in Runs
BY DEF Idle, Transactions, Unreported, Outcomes, AtRest, Runs

LEMMA GoRun ==
    ASSUME Typed, NEW pc \in {"resume", "verify", "plan", "journal", "applying", "verifyLast"}, To(pc)
    PROVE  /\ run' \in Runs /\ run'.pc = pc /\ run'.result = run.result
           /\ run'.committed = run.committed
BY DEF Typed, Runs, To

LEMMA EndRun ==
    ASSUME Typed, NEW r \in {"done", "failed", "conflict"}, NEW S \in SUBSET Paths, End(r, S)
    PROVE  /\ run' \in Runs /\ run'.pc = "rest" /\ run'.result = r
           /\ run'.report = S \union run.committed
BY DEF Typed, Runs, End, AtRest

\* The end of a run outside of a transaction reports what the run has committed.
LEMMA EndTells ==
    ASSUME Telling, run.pc # "rest", NEW S, LeftChanged' \subseteq LeftChanged,
           Accounted \subseteq S \/ run.pc # "applying",
           run'.pc = "rest", run'.report = S \union run.committed
    PROVE  Telling' /\ EffectsReported'
<1>1. LeftChanged \subseteq S \union run.committed
  BY DEF Telling
<1>2. LeftChanged' \subseteq run'.report
  BY <1>1
<1> QED
  BY <1>2 DEF Telling, EffectsReported, LeftChanged
----------------------------------------------------------------------------
(* A step of the transaction, first one that writes no file.                 *)

LEMMA Stepping ==
    ASSUME MigrationInv, Step
    PROVE  /\ run.pc = "applying" /\ run.result = "none" /\ plan \in Plans
           /\ UNCHANGED <<run, journal, transitions, crashes, plan, raced, edits>>
BY DEF MigrationInv, Phases, Step, Apply, Begin, Verify, Look, Write, Commit, Unlook, Unwrite,
       Reread, RemoveFolder, Report, counts, files

LEMMA StillGhosts ==
    ASSUME Typed, Step, UNCHANGED <<disk, ours>>
    PROVE  UNCHANGED <<theirs, wrote>>
BY DEF Typed, Step

LEMMA GoingStep ==
    ASSUME MigrationInv, Step, UNCHANGED <<disk, ours, outcome, faults>>, tx.pc # "idle",
           folder' \in {"none", "empty", "used"}, tx' \in Transactions, tx'.pc # "idle",
           tx.tried \subseteq tx'.tried, Progress', Progressing'
    PROVE  MigrationInv'
<1>0. Typed /\ Phases /\ Kept /\ Telling /\ CompleteMeansApplied
  BY DEF MigrationInv
<1>1. UNCHANGED <<run, journal, transitions, crashes, plan, raced, edits, theirs, wrote>>
  BY <1>0, Stepping, StillGhosts
<1>2. Typed'
  BY <1>0, <1>1 DEF Typed
<1>3. Phases'
  BY <1>0, <1>1, Stepping DEF Phases
<1>4. Kept' /\ CompleteMeansApplied'
  BY <1>0, <1>1, KeptFrame
<1>5. LeftChanged' = LeftChanged
  BY <1>1, LeftFrame
<1>6. Telling'
  BY <1>0, <1>1, <1>5, Stepping DEF Telling, Accounted
<1>7. outcome'.status = "none"
  BY <1>0 DEF Phases, Unreported
<1>8. EffectsReported' /\ Reported'
  BY <1>1, <1>7, Stepping, RunningReports, UnreportedTells
<1> QED
  BY <1>2, <1>3, <1>4, <1>6, <1>8 DEF MigrationInv, ReportsTellTruth, Reported

LEMMA EndingStep ==
    ASSUME MigrationInv, Step, UNCHANGED <<disk, ours, folder, faults>>, tx' = Idle,
           outcome' \in Outcomes, outcome'.status # "none", Reported',
           LeftChanged \intersect Accounted \subseteq Accounted'
    PROVE  MigrationInv'
<1>0. Typed /\ Phases /\ Kept /\ Telling /\ CompleteMeansApplied
  BY DEF MigrationInv
<1>1. UNCHANGED <<run, journal, transitions, crashes, plan, raced, edits, theirs, wrote>>
  BY <1>0, Stepping, StillGhosts
<1>2. Typed'
  BY <1>0, <1>1, RestTypes DEF Typed
<1>3. Phases'
  BY <1>0, <1>1, Stepping DEF Phases, Idle
<1>4. Kept' /\ CompleteMeansApplied'
  BY <1>0, <1>1, KeptFrame
<1>5. LeftChanged' = LeftChanged
  BY <1>1, LeftFrame
<1>6. Telling'
  BY <1>0, <1>1, <1>5, Stepping DEF Telling
<1>8. EffectsReported'
  BY <1>1, Stepping, RunningReports
<1> QED
  BY <1>2, <1>3, <1>4, <1>6, <1>8, IdleProgress DEF MigrationInv, ReportsTellTruth, Reported

\* What every step starts from.
LEMMA Unpack ==
    ASSUME MigrationInv
    PROVE  /\ Typed /\ Progress /\ Phases /\ Progressing /\ Kept /\ Telling
           /\ CompleteMeansApplied /\ EffectsReported /\ Reported
BY DEF MigrationInv, ReportsTellTruth, Reported

LEMMA Ahead ==
    ASSUME MigrationInv, tx.todo # {}, tx.pc \in Going
    PROVE  /\ Current \in tx.todo /\ Current \in Changes(plan) /\ Current \in Paths
           /\ Rest \in SUBSET tx.todo /\ Rest \in SUBSET Paths /\ Current \notin Rest
           /\ Cardinality(Rest) = Cardinality(tx.todo) - 1
           /\ tx.pc \in Back => Current \in tx.tried
<1>1. tx.todo \in SUBSET Paths
  BY DEF MigrationInv, Typed, Transactions
<1>2. Current \in tx.todo
  BY <1>1, FirstLast DEF Current
<1> QED
  BY <1>1, <1>2, PathCounts DEF Rest, MigrationInv, Progress, Going, Back

LEMMA BeginKeeps ==
    ASSUME MigrationInv, Step, Begin
    PROVE  MigrationInv'
<1>0. Typed /\ Progress /\ Phases
  BY DEF MigrationInv
<1>1. UNCHANGED <<disk, ours, folder, faults, plan>> /\ plan \in Plans
  BY Stepping DEF Begin, files
<1>2. CASE \E f \in DOMAIN plan.before : Stale(f)
  <2>1. tx' = Idle /\ outcome' = [Unreported EXCEPT !.status = "refused"]
    BY <1>2, Zenon DEF Begin
  <2>3. outcome' \in Outcomes /\ outcome'.status = "refused"
    BY <2>1 DEF Unreported, Outcomes
  <2>2. Accounted = {}
    BY <1>0 DEF Begin, Accounted, Progress
  <2> QED
    BY <1>1, <2>1, <2>2, <2>3, UnreportedTells, EndingStep
<1>3. CASE \A f \in DOMAIN plan.before : ~ Stale(f)
  <2>1. /\ tx' \in Transactions /\ tx'.pc = "verify" /\ tx'.todo = Changes(plan)
        /\ tx'.tried = {} /\ tx'.errors = 0 /\ tx.tried = {} /\ outcome' = outcome
    <3>1. tx' = [tx EXCEPT !.pc = "verify", !.todo = Changes(plan)] /\ outcome' = outcome
      BY <1>3, Zenon DEF Begin
    <3> QED
      BY <1>0, <1>1, <3>1, PlanFacts DEF Begin, Typed, Transactions, Going, Progress
  <2>2. Progress'
    BY <1>1, <2>1, PathCounts DEF Progress, Back
  <2>3. Progressing'
    BY <1>0, <1>1, <1>3, <2>1, PlanFacts DEF Progressing, Going, Back, Stale, Typed, Files
  <2> QED
    BY <1>1, <2>1, <2>2, <2>3, GoingStep DEF Begin, Typed, MigrationInv
<1> QED
  BY <1>2, <1>3

LEMMA VerifyKeeps ==
    ASSUME MigrationInv, Step, Verify
    PROVE  MigrationInv'
<1>0. Typed /\ Progress /\ Phases /\ Progressing
  BY DEF MigrationInv
<1>1. UNCHANGED <<disk, ours, folder, faults, plan, raced>> /\ plan \in Plans
  BY Stepping DEF Verify, files
<1>2. CASE tx.todo # {} /\ Stale(Current)
  <2>1. tx' = Idle /\ outcome' = [Unreported EXCEPT !.status = "refused"]
    BY <1>2, Zenon DEF Verify
  <2>3. outcome' \in Outcomes /\ outcome'.status = "refused"
    BY <2>1 DEF Unreported, Outcomes
  <2>2. Accounted = {}
    BY <1>0 DEF Verify, Accounted, Progress
  <2> QED
    BY <1>1, <2>1, <2>2, <2>3, UnreportedTells, EndingStep
<1>3. CASE tx.todo = {}
  <2>1. /\ tx' \in Transactions /\ tx'.pc = "look" /\ tx'.todo = Changes(plan)
        /\ tx'.tried = {} /\ tx'.errors = 0 /\ tx.tried = {} /\ outcome' = outcome
    <3>1. PICK m \in BOOLEAN : tx' = [tx EXCEPT !.pc = "look", !.todo = Changes(plan), !.made = m]
      BY <1>3, Zenon DEF Verify
    <3> QED
      BY <1>0, <1>1, <1>3, <3>1, PlanFacts DEF Verify, Typed, Transactions, Going, Progress
  <2>2. Progress'
    BY <1>1, <2>1, PathCounts DEF Progress, Back
  <2>3. Progressing'
    BY <1>0, <1>1, <2>1 DEF Progressing, Going, Back, Stale, Verify
  <2> QED
    BY <1>1, <2>1, <2>2, <2>3, GoingStep DEF Verify, Typed, MigrationInv
<1>4. CASE tx.todo # {} /\ ~ Stale(Current)
  <2>1. /\ tx' \in Transactions /\ tx'.pc = "verify" /\ tx'.todo = Rest
        /\ tx'.tried = {} /\ tx'.errors = 0 /\ tx.tried = {} /\ outcome' = outcome
    BY <1>0, <1>1, <1>4, Ahead DEF Verify, Typed, Transactions, Going, Progress
  <2>2. Progress'
    BY <1>0, <1>1, <1>4, <2>1, Ahead, PathCounts DEF Progress, Back, Verify, Going
  <2>3. Progressing'
    BY <1>0, <1>1, <2>1 DEF Progressing, Going, Back, Stale, Verify
  <2> QED
    BY <1>1, <2>1, <2>2, <2>3, GoingStep DEF Verify, Typed, MigrationInv
<1> QED
  BY <1>2, <1>3, <1>4

LEMMA LookKeeps ==
    ASSUME MigrationInv, Step, Look
    PROVE  MigrationInv'
<1>0. Typed /\ Progress /\ Phases /\ Progressing
  BY DEF MigrationInv
<1>1. UNCHANGED <<disk, ours, folder, faults, plan, raced, outcome, edits>> /\ plan \in Plans
  BY Stepping DEF Look, files
<1>2. Current \in tx.todo /\ Current \in Changes(plan) /\ Changes(plan) \subseteq Paths
  BY <1>1, Ahead, PlanFacts DEF Look, Going
<1>3. CASE DependenciesHold /\ ~ Stale(Current)
  <2>1. /\ tx' \in Transactions /\ tx'.pc = "write" /\ tx'.todo = tx.todo
        /\ tx'.tried = tx.tried \union {Current} /\ tx'.errors = 0
    BY <1>0, <1>2, <1>3 DEF Look, Typed, Transactions, Going, Progress
  <2>2. Current' = Current
    BY <2>1 DEF Current, Look
  <2>3. Progress'
    BY <1>0, <1>1, <1>2, <2>1, <2>2, PathCounts DEF Progress, Back, Look
  <2>4. Progressing'
    BY <1>0, <1>1, <1>3, <2>1, <2>2 DEF Progressing, Going, Back, Stale, Look
  <2> QED
    BY <1>1, <2>1, <2>3, <2>4, GoingStep DEF Look, Typed, MigrationInv
<1>4. CASE ~ (DependenciesHold /\ ~ Stale(Current))
  <2>1. /\ tx' \in Transactions /\ tx'.pc = "undo" /\ tx'.todo = tx.tried
        /\ tx'.tried = tx.tried /\ tx'.errors = 0
    BY <1>0, <1>2, <1>4 DEF Look, Typed, Transactions, Going, Progress
  <2>3. Progress'
    BY <1>0, <1>1, <1>2, <2>1, PathCounts DEF Progress, Back, Look
  <2>4. Progressing'
    BY <1>0, <1>1, <2>1 DEF Progressing, Going, Back, Stale, Look
  <2> QED
    BY <1>1, <2>1, <2>3, <2>4, GoingStep DEF Look, Typed, MigrationInv
<1> QED
  BY <1>3, <1>4

LEMMA CommitKeeps ==
    ASSUME MigrationInv, Step, Commit
    PROVE  MigrationInv'
<1>0. Typed /\ Progress /\ Phases /\ Progressing
  BY DEF MigrationInv
<1>1. UNCHANGED <<disk, ours, folder, faults, plan, raced, edits>> /\ plan \in Plans
  BY Stepping DEF Commit, files
<1>2. tx' = Idle /\ outcome' \in Outcomes /\ outcome'.status = "done"
  BY DEF Commit, Unreported, Outcomes
<1>3. Reported'
  BY <1>0, <1>1, <1>2 DEF Commit, Reported, ReportedWhatSurvives, RestoredMeansRestored,
        DoneMeansApplied, Progressing, Changes
<1>4. Accounted' = Changes(plan) /\ Accounted = Changes(plan)
  BY <1>0, <1>1, <1>2 DEF Accounted, Commit, Idle, Progress
<1> QED
  BY <1>1, <1>2, <1>3, <1>4, EndingStep

\* The way back.
LEMMA BackStep ==
    ASSUME MigrationInv, Step, UNCHANGED <<disk, ours, outcome, faults>>, tx.pc \in Back,
           folder' \in {"none", "empty", "used"}, tx' \in Transactions, tx'.pc \in Back,
           tx'.tried = tx.tried, tx'.todo \subseteq tx.todo, tx'.errors >= tx.errors,
           Progress', tx'.pc = "unwrite" => disk[Current] = plan.after[Current] /\ Current' = Current,
           tx'.errors = 0 => \A f \in tx.todo \ tx'.todo : ~ Stale(f)
    PROVE  MigrationInv'
<1>0. Typed /\ Progressing /\ tx.errors \in Nat /\ tx'.errors \in Nat
  BY DEF MigrationInv, Typed, Transactions
<1>1. UNCHANGED <<plan, raced, edits>>
  BY Stepping
<1>2. Progressing'
  BY <1>0, <1>1 DEF Progressing, Going, Back, Stale
<1> QED
  BY <1>2, GoingStep DEF Back

\* Passed and Failing, the two ways to leave the current file behind.
LEMMA Onward ==
    ASSUME MigrationInv, tx.todo # {}, tx.pc \in Back \ {"report"}, tx' \in {Passed, Failing}
    PROVE  /\ tx' \in Transactions /\ tx'.pc = "undo" /\ tx'.todo = Rest /\ tx'.tried = tx.tried
           /\ tx' = Passed => tx'.errors = tx.errors
           /\ tx' = Failing => tx'.errors = tx.errors + 1
           /\ tx'.errors \in {tx.errors, tx.errors + 1}
<1>1. tx \in Transactions /\ Rest \in SUBSET Paths /\ tx.errors \in Nat
  BY Ahead DEF Going, Back, MigrationInv, Typed, Transactions
<1>2. /\ Passed \in Transactions /\ Passed.pc = "undo" /\ Passed.todo = Rest
      /\ Passed.tried = tx.tried /\ Passed.errors = tx.errors
  BY <1>1 DEF Passed, Transactions, Going
<1>3. /\ Failing \in Transactions /\ Failing.pc = "undo" /\ Failing.todo = Rest
      /\ Failing.tried = tx.tried /\ Failing.errors = tx.errors + 1
  BY <1>1, <1>2 DEF Failing, Transactions, Going
<1> QED
  BY <1>2, <1>3

LEMMA OnwardProgress ==
    ASSUME MigrationInv, tx.todo # {}, tx.pc \in Back \ {"report"}, tx' \in {Passed, Failing}, plan' = plan
    PROVE  Progress' /\ tx.todo \ tx'.todo = {Current} /\ tx'.todo \subseteq tx.todo
<1>0. Progress /\ tx.errors \in Nat /\ Cardinality(tx.todo) \in Nat
  BY PathCounts DEF MigrationInv, Typed, Transactions
<1>1. /\ Current \in tx.todo /\ Rest \subseteq tx.todo /\ Cardinality(Rest) = Cardinality(tx.todo) - 1
      /\ tx.todo \ Rest = {Current}
  BY Ahead DEF Going, Back, Rest
<1>2. Cardinality(Paths) \in Nat
  BY PathCounts
<1> QED
  BY <1>0, <1>1, <1>2, Onward DEF Progress, Back

LEMMA UnlookKeeps ==
    ASSUME MigrationInv, Step, Unlook
    PROVE  MigrationInv'
<1>0. Typed /\ Progress /\ tx \in Transactions /\ tx.errors \in Nat
  BY DEF MigrationInv, Typed, Transactions
<1>1. UNCHANGED <<disk, ours, folder, faults, outcome, plan>> /\ tx.pc = "undo" /\ tx.todo # {}
  BY Stepping DEF Unlook, files
<1>2. CASE (tx' = Passed /\ ~ Stale(Current)) \/ tx' = Failing
  <2>1. /\ tx' \in Transactions /\ tx'.pc = "undo" /\ tx'.todo = Rest /\ tx'.tried = tx.tried
        /\ tx' = Failing => tx'.errors = tx.errors + 1
        /\ tx'.errors \in {tx.errors, tx.errors + 1}
    BY <1>1, <1>2, Onward DEF Back
  <2>2. Progress' /\ tx.todo \ tx'.todo = {Current} /\ tx'.todo \subseteq tx.todo
    BY <1>1, <1>2, OnwardProgress DEF Back
  <2> QED
    BY <1>0, <1>1, <1>2, <2>1, <2>2, BackStep DEF Back, Typed
<1>3. CASE tx' = [tx EXCEPT !.pc = "unwrite"] /\ disk[Current] = plan.after[Current]
  <2>1. /\ tx' \in Transactions /\ tx'.pc = "unwrite" /\ tx'.todo = tx.todo /\ tx'.tried = tx.tried
        /\ tx'.errors = tx.errors
    BY <1>0, <1>3 DEF Transactions, Going
  <2>2. Current' = Current
    BY <1>1, <2>1 DEF Current
  <2>3. Progress'
    BY <1>0, <1>1, <2>1 DEF Progress, Back
  <2> QED
    BY <1>0, <1>1, <1>3, <2>1, <2>2, <2>3, BackStep DEF Back, Typed
<1> QED
  BY <1>2, <1>3, Zenon DEF Unlook

LEMMA RereadKeeps ==
    ASSUME MigrationInv, Step, Reread
    PROVE  MigrationInv'
<1>0. Typed /\ Progress /\ tx \in Transactions /\ tx.errors \in Nat
  BY DEF MigrationInv, Typed, Transactions
<1>1. UNCHANGED <<disk, ours, folder, faults, outcome, plan>> /\ tx.pc = "reread" /\ tx.todo # {}
  BY <1>0, Stepping DEF Reread, files, Progress
<1>2. (tx' = Passed /\ ~ Stale(Current)) \/ tx' = Failing
  BY Zenon DEF Reread
<1>3. /\ tx' \in Transactions /\ tx'.pc = "undo" /\ tx'.todo = Rest /\ tx'.tried = tx.tried
      /\ tx' = Failing => tx'.errors = tx.errors + 1
      /\ tx'.errors \in {tx.errors, tx.errors + 1}
  BY <1>1, <1>2, Onward DEF Back
<1>4. Progress' /\ tx.todo \ tx'.todo = {Current} /\ tx'.todo \subseteq tx.todo
  BY <1>1, <1>2, OnwardProgress DEF Back
<1> QED
  BY <1>0, <1>1, <1>2, <1>3, <1>4, BackStep DEF Back, Typed

LEMMA RemoveFolderKeeps ==
    ASSUME MigrationInv, Step, RemoveFolder
    PROVE  MigrationInv'
<1>0. Typed /\ Progress /\ tx \in Transactions /\ tx.errors \in Nat
  BY DEF MigrationInv, Typed, Transactions
<1>1. /\ UNCHANGED <<disk, ours, faults, outcome, plan>> /\ tx.pc = "undo" /\ tx.todo = {}
      /\ folder' \in {"none", folder}
  BY Stepping DEF RemoveFolder
<1>2. /\ tx' \in Transactions /\ tx'.pc = "report" /\ tx'.todo = {} /\ tx'.tried = tx.tried
      /\ tx'.errors \in {tx.errors, tx.errors + 1}
  <2>1. tx' = [tx EXCEPT !.pc = "report"] \/ tx' = [tx EXCEPT !.pc = "report", !.errors = @ + 1]
    BY Zenon DEF RemoveFolder
  <2>2. CASE tx' = [tx EXCEPT !.pc = "report"]
    BY <1>0, <1>1, <2>2 DEF Transactions, Going
  <2>3. CASE tx' = [tx EXCEPT !.pc = "report", !.errors = @ + 1]
    <3>1. PICK e \in Nat : e = tx.errors + 1 /\ tx' = [tx EXCEPT !.pc = "report", !.errors = e]
      <4>1. tx.errors + 1 \in Nat
        BY <1>0
      <4> QED
        BY <2>3, <4>1, Zenon
    <3> QED
      BY <1>0, <1>1, <3>1 DEF Transactions, Going
  <2> QED
    BY <2>1, <2>2, <2>3
<1>3. Progress'
  BY <1>0, <1>1, <1>2, PathCounts DEF Progress, Back
<1> QED
  BY <1>0, <1>1, <1>2, <1>3, BackStep DEF Back, Typed

LEMMA ReportKeeps ==
    ASSUME MigrationInv, Step, Report
    PROVE  MigrationInv'
<1>0. Typed /\ Progress /\ Phases /\ Progressing /\ Kept /\ tx \in Transactions
  BY DEF MigrationInv, Typed
<1>1. UNCHANGED <<disk, ours, folder, faults, plan, raced, edits>> /\ plan \in Plans /\ tx' = Idle
  BY Stepping DEF Report, files
<1>2. PICK m \in BOOLEAN : outcome' = [status |-> "failed", errors |-> tx.errors,
                              surviving |-> {f \in tx.tried : Stale(f)}, folder |-> m]
  BY Zenon DEF Report
<1>3. /\ outcome' \in Outcomes /\ outcome'.status = "failed" /\ outcome'.errors = tx.errors
      /\ outcome'.surviving = {f \in tx.tried : Stale(f)}
  BY <1>0, <1>2 DEF Outcomes, Transactions
<1>4. Reported'
  BY <1>0, <1>1, <1>3 DEF Report, Reported, ReportedWhatSurvives, RestoredMeansRestored,
        DoneMeansApplied, Progressing, Progress, Stale, Going, Back
<1>5. ASSUME NEW f \in LeftChanged, f \in tx.tried PROVE Stale(f)
  <2>1. f \in Changes(plan) /\ f \in ours \ raced /\ disk[f] # theirs[f] /\ f \in Files
    BY <1>0, <1>5 DEF LeftChanged, Progress, Report, Back, Typed, Files
  <2>2. f \in DOMAIN journal.before /\ journal.before[f] = plan.before[f] /\ journal.phase = "pending"
    BY <1>0, <2>1, Stepping DEF Phases
  <2>3. theirs[f] = journal.before[f]
    BY <1>0, <2>1, <2>2 DEF Kept, Unreleased
  <2> QED
    BY <2>1, <2>2, <2>3 DEF Stale
<1>6. Accounted' = outcome'.surviving /\ Accounted = tx.tried
  BY <1>0, <1>1, <1>3 DEF Accounted, Report, Idle
<1> QED
  BY <1>1, <1>3, <1>4, <1>5, <1>6, EndingStep

\* A step that writes, or tries to.
LEMMA PutWrites ==
    ASSUME Typed, NEW f \in Paths, NEW c \in Held, NEW next, NEW failed, Put(f, c, next, failed)
    PROVE  /\ tx' \in {next, failed} /\ folder' \in {"none", "empty", "used"} /\ faults' \in 0..MaxFaults
           /\ \/ UNCHANGED <<disk, ours>> /\ tx' = failed
              \/ disk' = [disk EXCEPT ![f] = c] /\ ours' = ours \union {f}
BY TransactionAssumption DEF Typed, Put, Hold, files

LEMMA PutStep ==
    ASSUME MigrationInv, Step, tx.pc # "idle", NEW f \in Changes(plan), f \in tx.tried,
           NEW c \in {plan.before[f], plan.after[f]},
           f \in ours \/ f \in raced \/ ~ Stale(f),
           UNCHANGED <<disk, ours>> \/ (disk' = [disk EXCEPT ![f] = c] /\ ours' = ours \union {f}),
           outcome' = outcome, folder' \in {"none", "empty", "used"}, faults' \in 0..MaxFaults,
           tx' \in Transactions, tx'.pc # "idle", tx.tried \subseteq tx'.tried,
           Progress', Progressing'
    PROVE  MigrationInv'
<1>0. Typed /\ Phases /\ Kept /\ Telling /\ CompleteMeansApplied
  BY DEF MigrationInv
<1>1. /\ UNCHANGED <<run, journal, transitions, crashes, plan, raced, edits>>
      /\ run.pc = "applying" /\ run.result = "none" /\ plan \in Plans /\ journal.phase = "pending"
  BY <1>0, Stepping DEF Phases
<1>2. CASE UNCHANGED <<disk, ours>>
  <2>1. UNCHANGED <<theirs, wrote>>
    BY <1>0, <1>2, StillGhosts
  <2>2. LeftChanged' = LeftChanged
    BY <1>1, <1>2, <2>1, LeftFrame
  <2>3. Kept' /\ CompleteMeansApplied'
    BY <1>0, <1>1, <1>2, <2>1, KeptFrame
  <2>4. Typed' /\ Phases'
    BY <1>0, <1>1, <1>2, <2>1 DEF Typed, Phases
  <2>5. Telling'
    BY <1>0, <1>1, <2>2 DEF Telling, Accounted
  <2>6. outcome'.status = "none"
    BY <1>0 DEF Phases, Unreported
  <2> QED
    BY <1>1, <2>3, <2>4, <2>5, <2>6, RunningReports, UnreportedTells
    DEF MigrationInv, ReportsTellTruth, Reported
<1>3. CASE disk' = [disk EXCEPT ![f] = c] /\ ours' = ours \union {f}
  <2>1. f \in Paths /\ f \in Files /\ c \in Held
    BY <1>1, PlanFacts DEF Files
  <2>2. /\ f \in DOMAIN journal.before /\ journal.before[f] = plan.before[f]
        /\ journal.after[f] = plan.after[f]
    BY <1>0, <1>1 DEF Phases
  <2>3. disk' \in [Files -> Held] /\ disk'[f] = c /\ \A g \in Files \ {f} : disk'[g] = disk[g]
    BY <1>0, <1>3, <2>1 DEF Typed
  <2>4. /\ theirs' \in [Files -> Held] /\ \A g \in Files \ {f} : theirs'[g] = theirs[g]
        /\ theirs'[f] = IF f \in ours THEN theirs[f] ELSE disk[f]
    BY <1>0, <1>3, <2>1 DEF Step, Typed
  <2>5. wrote' \subseteq wrote \union {f} /\ wrote' \subseteq Paths
    BY <1>0, <2>1, <2>3 DEF Step, Typed
  <2>6. f \in ours' \ raced' => theirs'[f] = journal.before[f]
    BY <1>0, <1>1, <2>1, <2>2, <2>4 DEF Kept, Unreleased, Stale
  <2>7. Typed'
    BY <1>0, <1>1, <1>3, <2>1, <2>3, <2>4, <2>5 DEF Typed
  <2>8. Phases'
    BY <1>0, <1>1 DEF Phases
  <2>9. Kept'
    BY <1>0, <1>1, <1>3, <2>1, <2>2, <2>3, <2>4, <2>6 DEF Kept, Unreleased
  <2>10. CompleteMeansApplied'
    BY <1>1 DEF CompleteMeansApplied
  <2>11. LeftChanged' \subseteq LeftChanged \union {f}
    BY <1>0, <1>1, <1>3, <2>3, <2>4, <2>5 DEF LeftChanged, Typed, Files
  <2>12. Telling'
    BY <1>0, <1>1, <2>11 DEF Telling, Accounted
  <2>13. outcome'.status = "none"
    BY <1>0 DEF Phases, Unreported
  <2> QED
    BY <1>1, <2>7, <2>8, <2>9, <2>10, <2>12, <2>13, RunningReports, UnreportedTells
    DEF MigrationInv, ReportsTellTruth, Reported
<1> QED
  BY <1>2, <1>3

LEMMA WriteKeeps ==
    ASSUME MigrationInv, Step, Write
    PROVE  MigrationInv'
<1>0. Typed /\ Progress /\ Phases /\ Progressing /\ tx \in Transactions
  BY DEF MigrationInv, Typed
<1> DEFINE f == Current
<1>1. /\ tx.pc = "write" /\ tx.todo # {} /\ tx.errors = 0 /\ outcome' = outcome
      /\ UNCHANGED <<plan, raced, edits>> /\ plan \in Plans
  BY <1>0, Stepping DEF Write, Progress
<1>2. /\ f \in tx.todo /\ f \in Changes(plan) /\ f \in Paths /\ Rest = tx.todo \ {f}
      /\ Changes(plan) \subseteq Paths /\ plan.after[f] \in Held /\ f \in tx.tried
      /\ tx.tried = (Changes(plan) \ tx.todo) \union {f} /\ tx.todo \subseteq Changes(plan)
  BY <1>0, <1>1, Ahead, PlanFacts DEF Going, Rest, Progress
<1>3. /\ tx' \in {[tx EXCEPT !.pc = "look", !.todo = Rest], [tx EXCEPT !.pc = "undo", !.todo = tx.tried]}
      /\ folder' \in {"none", "empty", "used"} /\ faults' \in 0..MaxFaults
      /\ \/ UNCHANGED <<disk, ours>> /\ tx' = [tx EXCEPT !.pc = "undo", !.todo = tx.tried]
         \/ disk' = [disk EXCEPT ![f] = plan.after[f]] /\ ours' = ours \union {f}
  BY <1>0, <1>2, PutWrites DEF Write
<1> HIDE DEF f
<1>4. /\ tx' \in Transactions /\ tx'.tried = tx.tried /\ tx'.errors = 0
      /\ \/ tx'.pc = "look" /\ tx'.todo = tx.todo \ {f}
            /\ disk' = [disk EXCEPT ![f] = plan.after[f]] /\ ours' = ours \union {f}
         \/ tx'.pc = "undo" /\ tx'.todo = tx.tried
  <2>1. CASE tx' = [tx EXCEPT !.pc = "look", !.todo = Rest]
    <3>1. tx'.pc = "look"
      BY <1>0, <2>1 DEF Transactions
    <3> QED
      BY <1>0, <1>1, <1>2, <1>3, <2>1, <3>1 DEF Transactions, Going
  <2>2. CASE tx' = [tx EXCEPT !.pc = "undo", !.todo = tx.tried]
    BY <1>0, <1>1, <1>2, <2>2 DEF Transactions, Going
  <2> QED
    BY <1>3, <2>1, <2>2
<1>5. \A g \in Paths : disk'[g] = disk[g] \/ (g = f /\ disk'[g] = plan.after[g] /\ g \in ours')
  BY <1>0, <1>3 DEF Typed, Files
<1>6. Progress'
  BY <1>0, <1>1, <1>2, <1>4, PathCounts DEF Progress, Back
<1>7. ours \subseteq ours' /\ ours' \subseteq ours \union {f} /\ ours' \subseteq Paths
  BY <1>0, <1>2, <1>3 DEF Typed
<1>8. Progressing'
  <2>1. \A g \in Changes(plan) : disk'[g] = plan.after[g] => g \in ours' \union raced
    BY <1>0, <1>1, <1>2, <1>5, <1>7 DEF Progressing, Going
  <2>2. \A g \in ours' : disk'[g] # plan.before[g] => g \in tx.tried
    BY <1>0, <1>1, <1>2, <1>5, <1>7 DEF Progressing, Going, Stale
  <2>3. tx'.pc = "look" => \A g \in Changes(plan) \ tx'.todo :
          disk'[g] = plan.after[g] \/ (edits > 0 /\ g \notin ours')
    <3>1. tx'.pc = "look" => disk'[f] = plan.after[f]
      BY <1>0, <1>2, <1>4 DEF Typed, Files
    <3> QED
      BY <1>0, <1>1, <1>2, <1>4, <1>5, <1>7, <3>1 DEF Progressing
  <2> QED
    BY <1>1, <1>4, <2>1, <2>2, <2>3 DEF Progressing, Stale, Going, Back
<1>9. f \in ours \/ f \in raced \/ ~ Stale(f)
  BY <1>0, <1>1 DEF Progressing, f
<1>10. PICK c \in {plan.before[f], plan.after[f]} : c = plan.after[f]
  OBVIOUS
<1>11. UNCHANGED <<disk, ours>> \/ (disk' = [disk EXCEPT ![f] = c] /\ ours' = ours \union {f})
  BY <1>3, <1>10, Zenon
<1> QED
  BY <1>1, <1>2, <1>3, <1>4, <1>6, <1>8, <1>9, <1>10, <1>11, PutStep

LEMMA UnwriteKeeps ==
    ASSUME MigrationInv, Step, Unwrite
    PROVE  MigrationInv'
<1>0. Typed /\ Progress /\ Phases /\ Progressing /\ tx \in Transactions /\ tx.errors \in Nat
  BY DEF MigrationInv, Typed, Transactions
<1> DEFINE f == Current
<1>1. /\ tx.pc = "unwrite" /\ tx.todo # {} /\ outcome' = outcome
      /\ UNCHANGED <<plan, raced, edits>> /\ plan \in Plans
  BY <1>0, Stepping DEF Unwrite, Progress
<1>2. /\ f \in tx.todo /\ f \in Changes(plan) /\ f \in Paths /\ Rest = tx.todo \ {f}
      /\ Changes(plan) \subseteq Paths /\ plan.before[f] \in Held /\ f \in tx.tried
      /\ tx.todo \subseteq tx.tried /\ plan.after[f] # plan.before[f]
  BY <1>0, <1>1, Ahead, PlanFacts DEF Going, Back, Rest, Progress, Files
<1>3. /\ tx' \in {Passed, [tx EXCEPT !.pc = "reread"]}
      /\ folder' \in {"none", "empty", "used"} /\ faults' \in 0..MaxFaults
      /\ \/ UNCHANGED <<disk, ours>> /\ tx' = [tx EXCEPT !.pc = "reread"]
         \/ disk' = [disk EXCEPT ![f] = plan.before[f]] /\ ours' = ours \union {f}
  BY <1>0, <1>2, PutWrites DEF Unwrite
<1>4. /\ tx' \in Transactions /\ tx'.tried = tx.tried /\ tx'.errors = tx.errors /\ Progress'
      /\ \/ tx'.pc = "undo" /\ tx'.todo = tx.todo \ {f}
            /\ disk' = [disk EXCEPT ![f] = plan.before[f]] /\ ours' = ours \union {f}
         \/ tx'.pc = "reread" /\ tx'.todo = tx.todo
  <2>1. CASE tx' = Passed
    <3>1. tx'.pc = "undo" /\ tx' # [tx EXCEPT !.pc = "reread"]
      BY <1>0, <2>1 DEF Passed, Transactions
    <3> QED
      BY <1>1, <1>2, <1>3, <2>1, <3>1, Onward, OnwardProgress DEF Back
  <2>2. CASE tx' = [tx EXCEPT !.pc = "reread"]
    <3>1. /\ tx' \in Transactions /\ tx'.tried = tx.tried /\ tx'.errors = tx.errors
          /\ tx'.pc = "reread" /\ tx'.todo = tx.todo
      BY <1>0, <2>2 DEF Transactions, Going
    <3> QED
      BY <1>0, <1>1, <3>1 DEF Progress, Back
  <2> QED
    BY <1>3, <2>1, <2>2
<1> HIDE DEF f
<1>5. \A g \in Paths : disk'[g] = disk[g] \/ (g = f /\ disk'[g] = plan.before[g] /\ g \in ours')
  BY <1>0, <1>3 DEF Typed, Files
<1>7. ours \subseteq ours' /\ ours' \subseteq ours \union {f} /\ ours' \subseteq Paths
  BY <1>0, <1>2, <1>3 DEF Typed
<1>8. Progressing'
  <2>1. \A g \in Changes(plan) : disk'[g] = plan.after[g] => g \in ours' \union raced
    BY <1>0, <1>1, <1>2, <1>5, <1>7 DEF Progressing, Going
  <2>2. \A g \in ours' : disk'[g] # plan.before[g] => g \in ours /\ disk'[g] = disk[g]
    <3>1. CASE UNCHANGED <<disk, ours>>
      BY <3>1
    <3>2. CASE disk' = [disk EXCEPT ![f] = plan.before[f]]
      BY <1>0, <1>2, <1>5, <1>7, <3>2 DEF Typed, Files
    <3> QED
      BY <1>3, <3>1, <3>2
  <2>3. \A g \in ours' : disk'[g] # plan.before[g] => g \in tx.tried
    BY <1>0, <1>1, <2>2 DEF Progressing, Going, Stale
  <2>4. tx'.pc = "undo" => disk'[f] = plan.before[f]
    BY <1>0, <1>2, <1>4 DEF Typed, Files
  <2>5. tx.errors = 0 => \A g \in ours' : disk'[g] # plan.before[g] => g \in tx'.todo
    BY <1>0, <1>1, <1>4, <2>2, <2>4 DEF Progressing, Back, Stale
  <2> QED
    BY <1>1, <1>4, <2>1, <2>3, <2>5 DEF Progressing, Stale, Going, Back
<1>9. f \in ours \/ f \in raced \/ ~ Stale(f)
  BY <1>0, <1>1, <1>2 DEF Progressing, Going, f
<1>10. PICK c \in {plan.before[f], plan.after[f]} : c = plan.before[f]
  OBVIOUS
<1>11. UNCHANGED <<disk, ours>> \/ (disk' = [disk EXCEPT ![f] = c] /\ ours' = ours \union {f})
  BY <1>3, <1>10, Zenon
<1> QED
  BY <1>1, <1>2, <1>3, <1>4, <1>8, <1>9, <1>10, <1>11, PutStep

LEMMA StepKeeps ==
    ASSUME MigrationInv, Step
    PROVE  MigrationInv'
BY BeginKeeps, VerifyKeeps, LookKeeps, WriteKeeps, CommitKeeps, UnlookKeeps, UnwriteKeeps,
   RereadKeeps, RemoveFolderKeeps, ReportKeeps DEF Step, Apply
----------------------------------------------------------------------------
(* The steps of the migration.                                               *)

\* A step of the run between transactions, which leaves the files alone.
LEMMA RunStep ==
    ASSUME MigrationInv, run.pc # "rest", UNCHANGED <<disk, ours, folder, raced, edits, wrote>>,
           transitions' \in 0..MaxTransitions, crashes' = crashes, faults' \in 0..MaxFaults,
           LeftChanged' \subseteq LeftChanged, theirs' \in [Files -> Held], journal' \in Journals,
           plan' \in Plans \union {Blank}, tx' \in Transactions, outcome' \in Outcomes, run' \in Runs,
           Progress', Progressing', Phases', Kept', CompleteMeansApplied', Reported',
           run.pc = "applying" => tx.pc = "idle",
           \/ /\ run'.pc # "rest" /\ run'.result = "none"
              /\ run.committed \union (IF run.pc = "applying" THEN Accounted ELSE {})
                    \subseteq run'.committed
           \/ /\ run'.pc = "rest"
              /\ run'.report = (IF run.pc = "applying" THEN Accounted ELSE {}) \union run.committed
    PROVE  MigrationInv'
<1>0. Typed /\ Telling
  BY DEF MigrationInv
<1>1. Typed'
  BY <1>0 DEF Typed
<1>2. Telling' /\ EffectsReported'
  <2>1. CASE run'.pc # "rest"
    BY <1>0, <2>1, RunningReports DEF Telling
  <2>2. CASE run'.pc = "rest"
    BY <1>0, <2>2, EndTells
  <2> QED
    BY <2>1, <2>2
<1> QED
  BY <1>1, <1>2 DEF MigrationInv, ReportsTellTruth, Reported

LEMMA StartKeeps ==
    ASSUME MigrationInv, Start
    PROVE  MigrationInv'
<1>0. /\ Typed /\ Progress /\ Phases /\ Progressing /\ Kept /\ Telling
      /\ CompleteMeansApplied /\ EffectsReported /\ Reported
  BY Unpack
<1>1. /\ UNCHANGED <<disk, ours, folder, plan, tx, outcome, raced, edits, faults, journal, theirs>>
      /\ UNCHANGED <<transitions, crashes>> /\ wrote' = {} /\ tx.pc = "idle"
  BY <1>0 DEF Start, txvars, counts, Phases
<1>2. run' \in Runs /\ run'.pc = "resume" /\ run'.result = "none"
  BY DEF Start, AtRest, Runs
<1>3. Typed' /\ Phases'
  BY <1>0, <1>1, <1>2 DEF Typed, Phases
<1>4. Progress' /\ Progressing' /\ Kept' /\ CompleteMeansApplied' /\ Reported'
  BY <1>0, <1>1, TxFrame, KeptFrame, ReportedFrame
<1>5. Telling' /\ EffectsReported'
  BY <1>1, <1>2, RunningReports DEF Telling, LeftChanged
<1> QED
  BY <1>3, <1>4, <1>5 DEF MigrationInv, ReportsTellTruth, Reported

LEMMA PlannedTx ==
    LET t == [Idle EXCEPT !.pc = "planned"]
    IN  t \in Transactions /\ t.pc = "planned" /\ t.todo = {} /\ t.tried = {} /\ t.errors = 0
BY DEF Idle, Transactions

LEMMA PlannedProgress ==
    ASSUME tx' = [Idle EXCEPT !.pc = "planned"]
    PROVE  Progress' /\ Progressing'
BY PlannedTx, PathCounts DEF Progress, Progressing, Going, Back

LEMMA ResumeKeeps ==
    ASSUME MigrationInv, Resume
    PROVE  MigrationInv'
<1>0. /\ Typed /\ Progress /\ Phases /\ Progressing /\ Kept /\ Telling
      /\ CompleteMeansApplied /\ EffectsReported /\ Reported
  BY Unpack
<1>1. /\ UNCHANGED <<disk, ours, folder, raced, edits, faults, journal, theirs, wrote>>
      /\ UNCHANGED <<transitions, crashes>> /\ run.pc = "resume" /\ tx.pc = "idle"
  BY <1>0 DEF Resume, files, ghosts, counts, Phases
<1>2. Kept' /\ CompleteMeansApplied' /\ LeftChanged' = LeftChanged
  BY <1>0, <1>1, KeptFrame, LeftFrame
<1>3. CASE journal.phase # "pending" /\ To("verify") /\ UNCHANGED <<plan, tx, outcome>>
  <2>1. run' \in Runs /\ run'.pc = "verify" /\ run'.result = "none" /\ run'.committed = run.committed
    BY <1>0, <1>1, <1>3, GoRun DEF Phases
  <2>2. Progress' /\ Progressing' /\ Reported'
    BY <1>0, <1>1, <1>3, TxFrame, ReportedFrame
  <2>3. Phases'
    BY <1>0, <1>1, <1>3, <2>1 DEF Phases
  <2> QED
    BY <1>0, <1>1, <1>2, <1>3, <2>1, <2>2, <2>3, RunStep DEF Typed
<1>4. CASE (End("conflict", {}) \/ End("failed", {})) /\ UNCHANGED <<plan, tx, outcome>>
  <2>1. run' \in Runs /\ run'.pc = "rest" /\ run'.report = {} \union run.committed
    BY <1>0, <1>4, EndRun
  <2>2. Progress' /\ Progressing' /\ Reported'
    BY <1>0, <1>1, <1>4, TxFrame, ReportedFrame
  <2>3. Phases'
    BY <1>0, <1>1, <1>4, <2>1 DEF Phases
  <2> QED
    BY <1>0, <1>1, <1>2, <1>4, <2>1, <2>2, <2>3, RunStep DEF Typed
<1>5. CASE /\ journal.phase = "pending"
           /\ \A f \in Owed : disk[f] = journal.before[f]
           /\ plan' = [before |-> disk, after |-> [f \in Owed |-> journal.after[f]]]
           /\ tx' = [Idle EXCEPT !.pc = "planned"] /\ outcome' = Unreported
           /\ run' = [run EXCEPT !.pc = "applying", !.resumed = TRUE]
  <2>1. /\ run' \in Runs /\ run'.pc = "applying" /\ run'.result = "none"
        /\ run'.committed = run.committed
    BY <1>0, <1>1, <1>5 DEF Typed, Runs, Phases
  <2>2. /\ journal.after \in Partial /\ DOMAIN journal.before = DOMAIN journal.after
        /\ Owed \in SUBSET Paths /\ Owed \subseteq DOMAIN journal.after
    BY <1>0, PartialFacts DEF Typed, Journals, Owed
  <2>3. [f \in Owed |-> journal.after[f]] \in Partial
    BY <2>2, PartialFacts
  <2>4. plan' \in Plans
    BY <1>0, <1>5, <2>3 DEF Plans, Typed
  <2>5. Changes(plan)' \subseteq Owed
    BY <1>5 DEF Changes, Changed
  <2>6. Phases'
    <3>1. tx'.pc = "planned" /\ outcome' = Unreported
      BY <1>5, PlannedTx
    <3>2. \A f \in Changes(plan)' : f \in DOMAIN journal.before
             /\ journal.before[f] = plan'.before[f] /\ journal.after[f] = plan'.after[f]
      BY <1>5, <2>2, <2>5
    <3> QED
      BY <1>0, <1>1, <1>5, <2>1, <2>4, <3>1, <3>2 DEF Phases, Unreported
  <2>7. outcome'.status = "none"
    BY <1>5 DEF Unreported
  <2> QED
    BY <1>0, <1>1, <1>2, <1>5, <2>1, <2>4, <2>6, <2>7, PlannedProgress, PlannedTx, RestTypes,
       UnreportedTells, RunStep DEF Typed
<1> QED
  BY <1>3, <1>4, <1>5, Zenon DEF Resume

LEMMA VerifyTransitionKeeps ==
    ASSUME MigrationInv, VerifyTransition
    PROVE  MigrationInv'
<1>0. /\ Typed /\ Progress /\ Phases /\ Progressing /\ Kept /\ Telling
      /\ CompleteMeansApplied /\ EffectsReported /\ Reported
  BY Unpack
<1>1. /\ UNCHANGED <<disk, ours, folder, raced, edits, plan, tx, outcome, wrote>>
      /\ UNCHANGED <<transitions, crashes>> /\ run.pc \in {"verify", "verifyLast"} /\ tx.pc = "idle"
      /\ theirs' = IF journal'.verified /\ journal'.phase = "complete" THEN disk ELSE theirs
  BY <1>0 DEF VerifyTransition, files, counts, Phases
<1>2. Progress' /\ Progressing' /\ Reported'
  BY <1>0, <1>1, TxFrame, ReportedFrame
<1>3. To("plan") \/ End("done", {}) \/ End("failed", {})
  BY Zenon DEF VerifyTransition, SaveJournal
<1>4. \/ run' \in Runs /\ run'.pc = "plan" /\ run'.result = "none" /\ run'.committed = run.committed
      \/ run' \in Runs /\ run'.pc = "rest" /\ run'.report = {} \union run.committed
  BY <1>0, <1>1, <1>3, GoRun, EndRun DEF Phases
<1>5. /\ faults' \in 0..MaxFaults
      /\ \/ journal' = journal
         \/ journal.phase = "complete" /\ journal' = [journal EXCEPT !.verified = TRUE]
  <2>1. \/ UNCHANGED <<journal, faults>>
        \/ /\ journal.phase = "complete" /\ journal' \in {[journal EXCEPT !.verified = TRUE], journal}
           /\ faults' = faults \/ (faults < MaxFaults /\ faults' = faults + 1)
    BY Zenon DEF VerifyTransition, SaveJournal
  <2> QED
    BY <1>0, <2>1, TransactionAssumption DEF Typed
<1>6. /\ journal' \in Journals /\ journal'.phase = journal.phase
      /\ journal'.before = journal.before /\ journal'.after = journal.after
      /\ journal'.verified = journal.verified \/ journal.phase = "complete"
  BY <1>0, <1>5 DEF Typed, Journals
<1>7. theirs' \in [Files -> Held] /\ LeftChanged' \subseteq LeftChanged
  BY <1>0, <1>1 DEF Typed, LeftChanged
<1>8. Kept' /\ CompleteMeansApplied'
  <2>1. CompleteMeansApplied'
    BY <1>0, <1>1, <1>6 DEF CompleteMeansApplied
  <2>2. CASE theirs' = theirs /\ journal' = journal
    BY <1>0, <1>1, <2>2, KeptFrame
  <2>3. CASE theirs' = disk /\ journal'.phase = "complete" /\ journal'.verified
    <3>1. ~ Unreleased' /\ journal'.phase # "pending"
      BY <2>3 DEF Unreleased
    <3>2. \A f \in Files : disk'[f] = theirs'[f]
      BY <1>1, <2>3
    <3>3. disk' = theirs'
      BY <1>1, <2>3
    <3> QED
      BY <2>1, <3>1, <3>2, <3>3 DEF Kept
  <2>4. CASE journal.phase = "complete" /\ journal' = [journal EXCEPT !.verified = TRUE]
    <3>1. journal'.verified
      BY <1>0, <2>4 DEF Typed, Journals
    <3> QED
      BY <1>1, <1>6, <2>1, <2>3, <2>4, <3>1
  <2> QED
    BY <1>1, <1>5, <2>1, <2>2, <2>3, <2>4
<1>9. Phases'
  BY <1>0, <1>1, <1>4, <1>6 DEF Phases
<1> QED
  BY <1>0, <1>1, <1>2, <1>4, <1>5, <1>6, <1>7, <1>8, <1>9, RunStep DEF Typed

LEMMA MakePlanKeeps ==
    ASSUME MigrationInv, MakePlan
    PROVE  MigrationInv'
<1>0. /\ Typed /\ Progress /\ Phases /\ Progressing /\ Kept /\ Telling
      /\ CompleteMeansApplied /\ EffectsReported /\ Reported
  BY Unpack
<1>1. /\ UNCHANGED <<disk, ours, folder, raced, edits, tx, faults, journal, theirs, wrote, crashes>>
      /\ run.pc = "plan" /\ tx.pc = "idle" /\ outcome' = Unreported
  BY <1>0 DEF MakePlan, files, ghosts, Phases
<1>2. PICK target \in Targets : plan' = [before |-> disk, after |-> target]
  BY Zenon DEF MakePlan
<1>3. plan' \in Plans
  BY <1>0, <1>2, MigrationAssumption, PartialFacts DEF Plans, Typed
<1>4. To("verifyLast") \/ To("journal")
  BY Zenon DEF MakePlan
<1>5. /\ run' \in Runs /\ run'.pc \in {"verifyLast", "journal"} /\ run'.result = "none"
      /\ run'.committed = run.committed
  BY <1>0, <1>1, <1>4, GoRun DEF Phases
<1>6. transitions' \in 0..MaxTransitions
  BY <1>0, MigrationAssumption DEF MakePlan, Typed
<1>7. Kept' /\ CompleteMeansApplied' /\ LeftChanged' = LeftChanged
  BY <1>0, <1>1, KeptFrame, LeftFrame
<1>8. Progress' /\ Progressing'
  BY <1>0, <1>1 DEF Progress, Progressing, Going, Back
<1>9. outcome'.status = "none"
  BY <1>1 DEF Unreported
<1>10. Phases'
  BY <1>0, <1>1, <1>3, <1>5, <1>9 DEF Phases
<1> QED
  BY <1>0, <1>1, <1>3, <1>5, <1>6, <1>7, <1>8, <1>9, <1>10, RestTypes, UnreportedTells, RunStep
  DEF Typed

LEMMA RecordKeeps ==
    ASSUME MigrationInv, Record
    PROVE  MigrationInv'
<1>0. /\ Typed /\ Progress /\ Phases /\ Progressing /\ Kept /\ Telling
      /\ CompleteMeansApplied /\ EffectsReported /\ Reported
  BY Unpack
<1>1. /\ UNCHANGED <<disk, ours, folder, raced, edits, plan, theirs, wrote, transitions, crashes>>
      /\ run.pc = "journal" /\ tx.pc = "idle" /\ plan \in Plans
  BY <1>0 DEF Record, files, ghosts, counts, Phases
<1>2. LeftChanged' = LeftChanged
  BY <1>1, LeftFrame
<1>3. Changes(plan) \in SUBSET Paths /\ DOMAIN plan.before = Files /\ Changes(plan) \subseteq Files
      /\ \A f \in Changes(plan) : plan.before[f] \in Held /\ plan.after[f] \in Held
  BY <1>1, PlanFacts DEF Files
<1>4. /\ Pending \in Journals /\ Pending.phase = "pending" /\ Pending.verified = FALSE
      /\ DOMAIN Pending.before = Changes(plan)
      /\ \A f \in Changes(plan) : Pending.before[f] = plan.before[f] /\ Pending.after[f] = plan.after[f]
  <2>1. Pending = [phase |-> "pending", verified |-> FALSE,
                   before |-> [f \in Changes(plan) |-> plan.before[f]],
                   after |-> [f \in Changes(plan) |-> plan.after[f]]]
    BY DEF Pending, Changes
  <2>2. /\ [f \in Changes(plan) |-> plan.before[f]] \in Partial
        /\ [f \in Changes(plan) |-> plan.after[f]] \in Partial
    BY <1>3, PartialFacts
  <2> QED
    BY <2>1, <2>2 DEF Journals
<1>5. \/ End("failed", {}) /\ UNCHANGED <<journal, faults, tx, outcome>>
      \/ /\ journal.phase = "none" \/ journal.verified
         /\ \A f \in DOMAIN plan.before : ~ Stale(f)
         /\ faults' = faults \/ (faults < MaxFaults /\ faults' = faults + 1)
         /\ \/ /\ journal' = Pending /\ tx' = [Idle EXCEPT !.pc = "planned"]
               /\ outcome' = Unreported /\ To("applying")
            \/ journal' \in {journal, Pending} /\ End("failed", {}) /\ UNCHANGED <<tx, outcome>>
  BY Zenon DEF Record, SaveJournal
<1>6. faults' \in 0..MaxFaults
  BY <1>0, <1>5, TransactionAssumption DEF Typed
<1>7. journal' = journal => Kept' /\ CompleteMeansApplied'
  BY <1>0, <1>1, KeptFrame
<1>8. ASSUME journal' = Pending, journal.phase = "none" \/ journal.verified,
             \A f \in DOMAIN plan.before : ~ Stale(f)
      PROVE  Kept' /\ CompleteMeansApplied'
  <2>1. ~ Unreleased
    BY <1>0, <1>8 DEF Unreleased, Phases
  <2>2. disk = theirs
    BY <1>0, <2>1 DEF Kept
  <2>3. \A f \in Changes(plan) : disk[f] = plan.before[f]
    BY <1>3, <1>8 DEF Stale
  <2>4. journal'.phase = "pending" /\ DOMAIN journal'.before = Changes(plan)
        /\ \A f \in Changes(plan) : journal'.before[f] = plan.before[f]
    BY <1>4, <1>8
  <2> QED
    BY <1>1, <2>2, <2>3, <2>4 DEF Kept, Unreleased, CompleteMeansApplied
<1>9. CASE /\ End("failed", {}) /\ UNCHANGED <<tx, outcome>> /\ journal' \in Journals
           /\ journal'.phase # "complete" => ~ journal'.verified
           /\ Kept' /\ CompleteMeansApplied'
  <2>1. run' \in Runs /\ run'.pc = "rest" /\ run'.report = {} \union run.committed
    BY <1>0, <1>9, EndRun
  <2>2. Progress' /\ Progressing' /\ Reported'
    BY <1>0, <1>1, <1>9, TxFrame, ReportedFrame
  <2>3. Phases'
    BY <1>0, <1>1, <1>9, <2>1 DEF Phases
  <2> QED
    BY <1>0, <1>1, <1>2, <1>6, <1>9, <2>1, <2>2, <2>3, RunStep DEF Typed
<1>10. CASE /\ journal' = Pending /\ tx' = [Idle EXCEPT !.pc = "planned"]
            /\ outcome' = Unreported /\ To("applying") /\ Kept' /\ CompleteMeansApplied'
  <2>1. /\ run' \in Runs /\ run'.pc = "applying" /\ run'.result = "none"
        /\ run'.committed = run.committed
    BY <1>0, <1>1, <1>10, GoRun DEF Phases
  <2>2. tx'.pc = "planned" /\ tx' \in Transactions
    BY <1>10, PlannedTx
  <2>3. outcome'.status = "none"
    BY <1>10 DEF Unreported
  <2>4. Phases'
    BY <1>0, <1>1, <1>4, <1>10, <2>1, <2>2, <2>3 DEF Phases
  <2> QED
    BY <1>0, <1>1, <1>2, <1>4, <1>6, <1>10, <2>1, <2>2, <2>3, <2>4, PlannedProgress,
       RestTypes, UnreportedTells, RunStep DEF Typed
<1>11. /\ journal \in Journals
       /\ journal.phase # "complete" => ~ journal.verified
       /\ Pending.phase # "complete" => ~ Pending.verified
  BY <1>0, <1>4 DEF Typed, Phases
<1>12. CASE End("failed", {}) /\ UNCHANGED <<journal, faults, tx, outcome>>
  BY <1>7, <1>9, <1>11, <1>12
<1>13. ASSUME journal.phase = "none" \/ journal.verified, \A f \in DOMAIN plan.before : ~ Stale(f),
              journal' \in {journal, Pending}
       PROVE  /\ journal' \in Journals /\ Kept' /\ CompleteMeansApplied'
              /\ journal'.phase # "complete" => ~ journal'.verified
  <2>1. CASE journal' = journal
    BY <1>7, <1>11, <2>1
  <2>2. CASE journal' = Pending
    BY <1>4, <1>8, <1>11, <1>13, <2>2
  <2> QED
    BY <1>13, <2>1, <2>2
<1> QED
  BY <1>5, <1>9, <1>10, <1>12, <1>13

LEMMA AppliedFailedKeeps ==
    ASSUME MigrationInv, AppliedFailed
    PROVE  MigrationInv'
<1>0. /\ Typed /\ Progress /\ Phases /\ Progressing /\ Kept /\ Telling
      /\ CompleteMeansApplied /\ EffectsReported /\ Reported
  BY Unpack
<1>1. /\ UNCHANGED <<disk, ours, folder, raced, edits, plan, tx, outcome, faults, journal, theirs, wrote>>
      /\ UNCHANGED <<transitions, crashes>> /\ run.pc = "applying" /\ tx.pc = "idle"
      /\ outcome.status \in {"failed", "refused"} /\ End("failed", outcome.surviving)
  BY DEF AppliedFailed, txvars, ghosts, counts
<1>2. outcome.surviving \in SUBSET Paths
  BY <1>0 DEF Typed, Outcomes
<1>3. run' \in Runs /\ run'.pc = "rest" /\ run'.report = outcome.surviving \union run.committed
      /\ run'.result = "failed"
  BY <1>0, <1>1, <1>2, EndRun
<1>4. Progress' /\ Progressing' /\ Reported' /\ Kept' /\ CompleteMeansApplied' /\ LeftChanged' = LeftChanged
  BY <1>0, <1>1, TxFrame, ReportedFrame, KeptFrame, LeftFrame
<1>5. Phases' /\ Typed'
  BY <1>0, <1>1, <1>3 DEF Phases, Typed
<1>6. Accounted \subseteq outcome.surviving
  BY <1>0, <1>1 DEF Accounted
<1>7. Telling' /\ EffectsReported'
  BY <1>0, <1>1, <1>3, <1>4, <1>6, EndTells
<1> QED
  BY <1>4, <1>5, <1>7 DEF MigrationInv, ReportsTellTruth, Reported

LEMMA FinishKeeps ==
    ASSUME MigrationInv, Finish
    PROVE  MigrationInv'
<1>0. /\ Typed /\ Progress /\ Phases /\ Progressing /\ Kept /\ Telling
      /\ CompleteMeansApplied /\ EffectsReported /\ Reported
  BY Unpack
<1>1. /\ UNCHANGED <<disk, ours, folder, raced, edits, plan, tx, outcome, theirs, wrote>>
      /\ UNCHANGED <<transitions, crashes>> /\ run.pc = "applying" /\ tx.pc = "idle"
      /\ outcome.status = "done"
  BY DEF Finish, files, ghosts, counts
<1> DEFINE done == [journal EXCEPT !.phase = "complete"]
<1>2. /\ plan \in Plans /\ Changes(plan) \in SUBSET Paths /\ Accounted = Changes(plan)
      /\ journal.phase = "pending" /\ ~ journal.verified
  BY <1>0, <1>1, PlanFacts DEF Phases, Accounted
<1>3. /\ done \in Journals /\ done.phase = "complete" /\ done.verified = journal.verified
      /\ done.before = journal.before /\ done.after = journal.after
  BY <1>0 DEF Typed, Journals
<1>4. /\ \/ \E pc \in {"verify", "verifyLast"} :
               run' = [run EXCEPT !.pc = pc, !.resumed = FALSE, !.committed = @ \union Changes(plan)]
         \/ End("failed", Changes(plan))
      /\ journal' = journal \/ (journal' = done /\ Owed = {})
      /\ faults' = faults \/ (faults < MaxFaults /\ faults' = faults + 1)
  BY Zenon DEF Finish, SaveJournal, Changes
<1> HIDE DEF done
<1>5. faults' \in 0..MaxFaults
  BY <1>0, <1>4, TransactionAssumption DEF Typed
<1>6. \/ /\ run' \in Runs /\ run'.pc \in {"verify", "verifyLast"} /\ run'.result = "none"
         /\ run'.committed = run.committed \union Changes(plan)
      \/ /\ run' \in Runs /\ run'.pc = "rest" /\ run'.report = Changes(plan) \union run.committed
  <2>1. CASE End("failed", Changes(plan))
    BY <1>0, <1>2, <2>1, EndRun
  <2>2. ASSUME NEW pc \in {"verify", "verifyLast"},
               run' = [run EXCEPT !.pc = pc, !.resumed = FALSE, !.committed = @ \union Changes(plan)]
        PROVE  /\ run' \in Runs /\ run'.pc \in {"verify", "verifyLast"} /\ run'.result = "none"
               /\ run'.committed = run.committed \union Changes(plan)
    BY <1>0, <1>1, <1>2, <2>2 DEF Typed, Runs, Phases
  <2> QED
    BY <1>4, <2>1, <2>2
<1>7. /\ journal' \in Journals /\ journal'.before = journal.before /\ journal'.after = journal.after
      /\ journal'.phase \in {"pending", "complete"} /\ ~ journal'.verified
      /\ journal'.phase = "complete" => Owed = {}
  BY <1>0, <1>2, <1>3, <1>4 DEF Typed
<1>8. Kept'
  BY <1>0, <1>1, <1>2, <1>7 DEF Kept, Unreleased
<1>9. CompleteMeansApplied'
  BY <1>1, <1>7 DEF CompleteMeansApplied, Owed
<1>10. Phases'
  BY <1>0, <1>1, <1>6, <1>7 DEF Phases
<1>11. Progress' /\ Progressing' /\ Reported' /\ LeftChanged' = LeftChanged
  BY <1>0, <1>1, TxFrame, ReportedFrame, LeftFrame
<1> QED
  BY <1>0, <1>1, <1>2, <1>5, <1>6, <1>7, <1>8, <1>9, <1>10, <1>11, RunStep DEF Typed

LEMMA CrashKeeps ==
    ASSUME MigrationInv, Crash
    PROVE  MigrationInv'
<1>0. /\ Typed /\ Progress /\ Phases /\ Progressing /\ Kept /\ Telling
      /\ CompleteMeansApplied /\ EffectsReported /\ Reported
  BY Unpack
<1>1. /\ UNCHANGED <<disk, ours, folder, raced, edits, faults, journal, theirs, wrote, transitions>>
      /\ run' = AtRest /\ tx' = Idle /\ outcome' = Unreported /\ plan' = Blank
  BY DEF Crash, files, ghosts
<1>2. crashes' \in 0..MaxCrashes
  BY <1>0, MigrationAssumption DEF Crash, Typed
<1>3. Typed'
  BY <1>0, <1>1, <1>2, RestTypes DEF Typed
<1>4. run'.pc = "rest" /\ run'.result = "none" /\ tx'.pc = "idle" /\ outcome'.status = "none"
  BY <1>1 DEF AtRest, Idle, Unreported
<1>5. Phases'
  BY <1>0, <1>1, <1>4 DEF Phases
<1>6. Telling' /\ EffectsReported' /\ Reported'
  BY <1>4, RunningReports, UnreportedTells DEF Telling
<1>7. Kept' /\ CompleteMeansApplied'
  BY <1>0, <1>1, KeptFrame
<1>8. Progress' /\ Progressing'
  BY <1>1, IdleProgress
<1> QED
  BY <1>3, <1>5, <1>6, <1>7, <1>8 DEF MigrationInv, ReportsTellTruth, Reported

\* What an edit does: one file is the owner's again, or the directory is used.
LEMMA Editing ==
    ASSUME MigrationInv, OwnerEdits
    PROVE  /\ UNCHANGED <<plan, tx, outcome, faults, journal, run, wrote, transitions, crashes>>
           /\ edits' = edits + 1 /\ edits' \in 0..MaxEdits /\ folder' \in {"none", "empty", "used"}
           /\ \/ UNCHANGED <<disk, ours, raced, theirs>>
              \/ \E f \in Files : \E c \in Held :
                    /\ c # disk[f] /\ disk' = [disk EXCEPT ![f] = c] /\ ours' = ours \ {f}
                    /\ raced' = IF Unseen(f, c) THEN raced \union {f} ELSE raced
                    /\ theirs' = [theirs EXCEPT ![f] = c]
<1>0. Typed
  BY DEF MigrationInv
<1>1. UNCHANGED <<plan, tx, outcome, faults, journal, run, wrote, transitions, crashes>>
  BY DEF OwnerEdits, Edit, counts
<1>2. edits' = edits + 1 /\ edits' \in 0..MaxEdits
  BY <1>0, TransactionAssumption DEF OwnerEdits, Edit, Typed
<1>3. CASE folder' = "used" /\ UNCHANGED <<disk, ours, raced>>
  <2>1. theirs' = theirs
    BY <1>0, <1>3 DEF OwnerEdits, Typed
  <2> QED
    BY <1>1, <1>2, <1>3, <2>1
<1>4. ASSUME NEW f \in Files, NEW c \in Editable[f] \ {disk[f]}, Hold(f, c), ours' = ours \ {f},
             raced' = IF Unseen(f, c) THEN raced \union {f} ELSE raced
      PROVE  /\ folder' \in {"none", "empty", "used"}
             /\ c \in Held /\ c # disk[f] /\ disk' = [disk EXCEPT ![f] = c]
             /\ theirs' = [theirs EXCEPT ![f] = c]
  <2>1. c \in Held /\ c # disk[f] /\ disk' = [disk EXCEPT ![f] = c] /\ folder' \in {"none", "empty", "used"}
    BY <1>0, <1>4, TransactionAssumption DEF Hold, Typed
  <2>2. \A g \in Files : disk'[g] = IF g = f THEN c ELSE disk[g]
    BY <1>0, <2>1 DEF Typed
  <2>3. theirs' = [g \in Files |-> IF disk'[g] # disk[g] THEN disk'[g] ELSE theirs[g]]
    BY DEF OwnerEdits
  <2> QED
    BY <1>0, <2>1, <2>2, <2>3 DEF Typed
<1>5. \/ folder' = "used" /\ UNCHANGED <<disk, ours, raced>>
      \/ \E f \in Files : \E c \in Editable[f] \ {disk[f]} : /\ Hold(f, c) /\ ours' = ours \ {f}
            /\ raced' = IF Unseen(f, c) THEN raced \union {f} ELSE raced
  BY Zenon DEF OwnerEdits, Edit
<1> QED
  BY <1>1, <1>2, <1>3, <1>4, <1>5

LEMMA OwnerEditsKeeps ==
    ASSUME MigrationInv, OwnerEdits
    PROVE  MigrationInv'
<1>0. /\ Typed /\ Progress /\ Phases /\ Progressing /\ Kept /\ Telling
      /\ CompleteMeansApplied /\ EffectsReported /\ Reported
  BY Unpack
<1>1. /\ UNCHANGED <<plan, tx, outcome, faults, journal, run, wrote, transitions, crashes>>
      /\ edits' = edits + 1 /\ edits' \in 0..MaxEdits /\ folder' \in {"none", "empty", "used"}
      /\ edits \in Nat
  BY <1>0, Editing, TransactionAssumption DEF Typed
<1>2. Progress' /\ Phases' /\ Current' = Current
  BY <1>0, <1>1 DEF Progress, Phases, Current
<1>3. CASE UNCHANGED <<disk, ours, raced, theirs>>
  <2>1. Typed'
    BY <1>0, <1>1, <1>3 DEF Typed
  <2>2. Kept' /\ CompleteMeansApplied' /\ LeftChanged' = LeftChanged
    BY <1>0, <1>1, <1>3, KeptFrame, LeftFrame
  <2>3. Telling' /\ EffectsReported'
    BY <1>0, <1>1, <2>2 DEF Telling, EffectsReported, LeftChanged, Accounted
  <2>4. Progressing' /\ Reported'
    BY <1>0, <1>1, <1>2, <1>3 DEF Progressing, Reported, ReportedWhatSurvives,
          RestoredMeansRestored, DoneMeansApplied, Stale
  <2> QED
    BY <1>2, <2>1, <2>2, <2>3, <2>4 DEF MigrationInv, ReportsTellTruth, Reported
<1>4. ASSUME NEW f \in Files, NEW c \in Held,
             c # disk[f], disk' = [disk EXCEPT ![f] = c], ours' = ours \ {f},
             raced' = IF Unseen(f, c) THEN raced \union {f} ELSE raced,
             theirs' = [theirs EXCEPT ![f] = c]
      PROVE  MigrationInv'
  <2>1. /\ disk' \in [Files -> Held] /\ theirs' \in [Files -> Held] /\ disk'[f] = c /\ theirs'[f] = c
        /\ \A g \in Files \ {f} : disk'[g] = disk[g] /\ theirs'[g] = theirs[g]
    BY <1>0, <1>4 DEF Typed
  <2>2. raced \subseteq raced' /\ raced' \subseteq raced \union {f} /\ (Unseen(f, c) => f \in raced')
    BY <1>4
  <2>3. Typed'
    BY <1>0, <1>1, <1>4, <2>1, <2>2 DEF Typed
  <2>4. Kept'
    <3>1. disk = theirs => disk' = theirs'
      BY <1>0, <1>4 DEF Typed
    <3>2. Unreleased' <=> Unreleased
      BY <1>1 DEF Unreleased
    <3>3. DOMAIN journal.before \subseteq Files
      BY <1>0, PartialFacts DEF Typed, Journals, Files
    <3> QED
      BY <1>0, <1>1, <1>4, <2>1, <2>2, <3>1, <3>2, <3>3 DEF Kept
  <2>5. CompleteMeansApplied'
    <3>1. DOMAIN journal.after \subseteq Files
      BY <1>0, PartialFacts DEF Typed, Journals, Files
    <3> QED
      BY <1>0, <1>1, <1>4, <2>1, <3>1 DEF CompleteMeansApplied
  <2>6. LeftChanged' \subseteq LeftChanged
    BY <1>0, <1>1, <1>4, <2>1, <2>2 DEF LeftChanged, Typed, Files
  <2>7. Telling' /\ EffectsReported'
    BY <1>0, <1>1, <2>6 DEF Telling, EffectsReported, LeftChanged, Accounted
  <2>8. Reported'
    <3>1. \A g \in ours' : g \in ours /\ disk'[g] = disk[g]
      BY <1>0, <1>4, <2>1 DEF Typed, Files
    <3>2. \A g \in Changes(plan) : disk'[g] = disk[g] \/ g \notin ours'
      BY <1>0, <1>4, <2>1, PlanFacts, BlankFacts DEF Typed, Files
    <3>3. ours' \subseteq ours
      BY <1>4
    <3> QED
      BY <1>0, <1>1, <3>1, <3>2, <3>3 DEF Reported, ReportedWhatSurvives, RestoredMeansRestored,
         DoneMeansApplied, Stale, Changes
  <2>9. Progressing'
    <3>1. CASE tx.pc \in Going
      <4>1. plan \in Plans /\ Changes(plan) \subseteq Files /\ Changes(plan) \subseteq DOMAIN plan.after
        BY <1>0, <3>1, PlanFacts DEF Phases, Going, Files
      <4>2. \A g \in Changes(plan) : disk'[g] = plan.after[g] => g \in ours' \union raced'
        BY <1>0, <1>4, <2>1, <2>2, <3>1, <4>1 DEF Progressing, Going, Unseen
      <4>3. \A g \in ours' : g \in ours /\ disk'[g] = disk[g]
        BY <1>0, <1>4, <2>1 DEF Typed, Files
      <4>4. \A g \in Changes(plan) : disk'[g] = disk[g] \/ g \notin ours'
        BY <1>4, <2>1, <4>1
      <4>5. tx.pc \in {"write", "unwrite"} =>
               Current \in Files /\ (disk'[Current] = disk[Current] \/ Current \in raced')
        <5>1. tx.pc \in {"write", "unwrite"} => Current \in Files
          BY <1>0, Ahead DEF Going, Progress, Files
        <5> QED
          BY <1>4, <2>1, <2>2, <5>1 DEF Unseen
      <4>6. ours' \subseteq ours
        BY <1>4
      <4> QED
        BY <1>0, <1>1, <1>2, <2>2, <4>2, <4>3, <4>4, <4>5, <4>6 DEF Progressing, Stale
    <3>2. CASE tx.pc \notin Going
      BY <1>1, <3>2 DEF Progressing, Going, Back
    <3> QED
      BY <3>1, <3>2
  <2> QED
    BY <1>2, <2>3, <2>4, <2>5, <2>7, <2>8, <2>9 DEF MigrationInv, ReportsTellTruth, Reported
<1> QED
  BY <1>3, <1>4, Editing
----------------------------------------------------------------------------
(* The theorems.                                                             *)

LEMMA InitMigration ==
    ASSUME MInit
    PROVE  MigrationInv
<1>1. /\ disk \in [Files -> Held] /\ folder = "none" /\ ours = {} /\ plan = Blank /\ tx = Idle
      /\ outcome = Unreported /\ raced = {} /\ edits = 0 /\ faults = 0 /\ journal = NoJournal
      /\ run = AtRest /\ theirs = disk /\ wrote = {} /\ transitions = 0 /\ crashes = 0
  BY DEF MInit, TxInit
<1>2. /\ tx.pc = "idle" /\ tx.errors = 0 /\ outcome.status = "none" /\ run.pc = "rest"
      /\ run.result = "none" /\ journal.phase = "none" /\ ~ journal.verified
  BY <1>1 DEF Idle, Unreported, AtRest, NoJournal
<1>3. << >> \in Partial /\ DOMAIN << >> = {}
  <2>1. << >> = [f \in {} |-> Absent]
    OBVIOUS
  <2>2. [f \in {} |-> Absent] \in [{} -> Held] /\ {} \in SUBSET Paths
    OBVIOUS
  <2> QED
    BY <2>1, <2>2, PartialFacts
<1>4. journal \in Journals
  BY <1>1, <1>3 DEF NoJournal, Journals
<1>5. Typed
  BY <1>1, <1>4, RestTypes, TransactionAssumption, MigrationAssumption DEF Typed
<1>6. Progress /\ Phases /\ Progressing
  BY <1>2, PathCounts DEF Progress, Phases, Progressing, Going, Back
<1>7. Kept /\ CompleteMeansApplied /\ Telling
  BY <1>1, <1>2 DEF Kept, Unreleased, CompleteMeansApplied, Telling
<1>8. ReportsTellTruth
  BY <1>2 DEF ReportsTellTruth, EffectsReported, ReportedWhatSurvives, RestoredMeansRestored,
        DoneMeansApplied
<1> QED
  BY <1>5, <1>6, <1>7, <1>8 DEF MigrationInv

LEMMA NextMigration ==
    ASSUME MigrationInv, [MNext]_vars
    PROVE  MigrationInv'
<1>1. CASE MNext /\ ~ Registry
  BY <1>1, StartKeeps, ResumeKeeps, VerifyTransitionKeeps, MakePlanKeeps, RecordKeeps, StepKeeps,
     AppliedFailedKeeps, FinishKeeps, CrashKeeps, OwnerEditsKeeps DEF MNext, Work
<1>2. CASE Registry \/ UNCHANGED vars
  <2>1. /\ UNCHANGED <<disk, ours, folder, plan, tx, outcome, raced, edits, faults, journal, run>>
        /\ UNCHANGED <<theirs, wrote, transitions, crashes>>
    BY <1>2 DEF Registry, vars, txvars, counts
  <2>2. /\ Typed /\ Progress /\ Phases /\ Progressing /\ Kept /\ Telling
        /\ CompleteMeansApplied /\ EffectsReported /\ Reported
    BY Unpack
  <2>3. Progress' /\ Progressing' /\ Kept' /\ CompleteMeansApplied' /\ Reported' /\ LeftChanged' = LeftChanged
    BY <2>1, <2>2, TxFrame, KeptFrame, ReportedFrame, LeftFrame
  <2>4. Typed' /\ Phases'
    BY <2>1, <2>2 DEF Typed, Phases
  <2>5. Telling' /\ EffectsReported'
    BY <2>1, <2>2, <2>3 DEF Telling, EffectsReported, LeftChanged, Accounted
  <2> QED
    BY <2>3, <2>4, <2>5 DEF MigrationInv, ReportsTellTruth, Reported
<1> QED
  BY <1>1, <1>2

LEMMA AlwaysMigration == MSpec => []MigrationInv
BY InitMigration, NextMigration, PTL DEF MSpec

\* What the registry allows is the one variable no other depends on.
Answered == known \in BOOLEAN
LEMMA AlwaysAnswered == MSpec => []Answered
<1>1. MInit => Answered
  BY DEF MInit, Answered
<1>2. Answered /\ [MNext]_vars => Answered'
  <2> SUFFICES ASSUME Answered, [MNext]_vars
               PROVE  Answered'
    OBVIOUS
  <2>1. CASE UNCHANGED known
    BY <2>1 DEF Answered
  <2>2. CASE Registry
    BY <2>2, Zenon DEF Registry, Answered
  <2>3. UNCHANGED known \/ Registry
    BY DEF MNext, Start, Work, Resume, VerifyTransition, MakePlan, Record, Step, AppliedFailed,
          Finish, Crash, OwnerEdits, vars
  <2> QED
    BY <2>1, <2>2, <2>3
<1> QED
  BY <1>1, <1>2, PTL DEF MSpec

\* What the invariant says of the journal and of the types.
LEMMA InvTellsJournal ==
    ASSUME MigrationInv, Answered
    PROVE  JournalTellsTruth
<1>0. Typed /\ Progress /\ Phases /\ Kept /\ CompleteMeansApplied
  BY DEF MigrationInv
<1>1. MTypeOK
  <2>1. tx.errors \in 0..(Cardinality(Paths) + 1)
    BY <1>0, PathCounts DEF Typed, Transactions, Progress
  <2>2. TypeOK
    BY <1>0, <2>1 DEF TypeOK, Typed, Transactions, Outcomes, Going
  <2>3. DOMAIN journal.before = DOMAIN journal.after /\ DOMAIN journal.after \subseteq Paths
    BY <1>0, PartialFacts DEF Typed, Journals
  <2>4. /\ theirs \in [Files -> Held] /\ wrote \subseteq Paths
        /\ journal.phase \in {"none", "pending", "complete"} /\ journal.verified \in BOOLEAN
        /\ run.pc \in {"rest", "resume", "verify", "plan", "journal", "applying", "verifyLast"}
        /\ run.report \subseteq Paths /\ run.committed \subseteq Paths
        /\ transitions \in 0..MaxTransitions /\ crashes \in 0..MaxCrashes
    BY <1>0 DEF Typed, Journals, Runs
  <2>5. known \in BOOLEAN
    BY DEF Answered
  <2> QED
    BY ONLY <2>2, <2>3, <2>4, <2>5, Zenon DEF MTypeOK
<1>2. OriginalsKept
  BY <1>0 DEF OriginalsKept, Kept, Typed, Files
<1>3. ConflictMeansEdit
  <2>1. DOMAIN journal.before \subseteq Files
    BY <1>0, PartialFacts DEF Typed, Journals, Files
  <2> QED
    BY <1>0, <2>1 DEF ConflictMeansEdit, Kept
<1> QED
  BY <1>0, <1>1, <1>2, <1>3 DEF JournalTellsTruth

\* The journal is a true account of the owner's files, whatever fails and
\* whenever the process dies: the originals of what is changed are in it, it is
\* complete only when everything holds its new content, and a file that holds
\* neither value was edited (apply_migration, resume_migration, _finish_journal).
THEOREM JournalTrue == MSpec => []JournalTellsTruth
BY AlwaysMigration, AlwaysAnswered, InvTellsJournal, PTL

\* What a transaction or a run reports is what it has left on disk: all that
\* survives a failure is named, a message that everything was restored or
\* applied is true (apply_file_changes, execute_migrate).
THEOREM ReportsTrue == MSpec => []ReportsTellTruth
<1>1. MigrationInv => ReportsTellTruth
  BY DEF MigrationInv
<1> QED
  BY <1>1, AlwaysMigration, PTL

\* No write of a transaction, on the way forth or back, goes over an edit that
\* a look at the file could have told (the looks of apply_file_changes).
LEMMA StepKeepsEdits ==
    ASSUME MigrationInv, [MNext]_vars, NEW f \in Paths \ raced, disk'[f] # disk[f], f \in ours'
    PROVE  f \in ours \/ disk[f] = plan.before[f]
<1>0. Typed /\ Progress /\ Phases /\ Progressing /\ f \in Files
  BY DEF MigrationInv, Files
<1>1. CASE Write \/ Unwrite
  <2>1. tx.pc \in {"write", "unwrite"} /\ tx.pc \in Going /\ tx.todo # {} /\ run.pc = "applying"
    BY <1>0, <1>1 DEF Write, Unwrite, Progress, Going, Phases
  <2>2. Current \in Changes(plan) /\ Current \in Paths /\ plan \in Plans
    BY <1>0, <2>1, Ahead DEF Phases
  <2>3. plan.after[Current] \in Held /\ plan.before[Current] \in Held
    BY <2>2, PlanFacts DEF Files
  <2>4. f = Current
    <3>1. CASE Write
      <4>1. UNCHANGED disk \/ disk' = [disk EXCEPT ![Current] = plan.after[Current]]
        BY <1>0, <2>2, <2>3, <3>1, PutWrites DEF Write
      <4> QED
        BY <1>0, <4>1 DEF Typed
    <3>2. CASE Unwrite
      <4>1. UNCHANGED disk \/ disk' = [disk EXCEPT ![Current] = plan.before[Current]]
        BY <1>0, <2>2, <2>3, <3>2, PutWrites DEF Unwrite
      <4> QED
        BY <1>0, <4>1 DEF Typed
    <3> QED
      BY <1>1, <3>1, <3>2
  <2> QED
    BY <1>0, <2>1, <2>2, <2>4 DEF Progressing, Stale
<1>2. CASE OwnerEdits
  BY <1>0, <1>2, Editing DEF Typed
<1>3. CASE ~ (Write \/ Unwrite \/ OwnerEdits)
  <2>1. UNCHANGED disk
    BY <1>3 DEF MNext, Start, Work, Resume, VerifyTransition, MakePlan, Record, Step, AppliedFailed,
          Finish, Crash, Registry, Apply, Begin, Verify, Look, Commit, Unlook, Reread, RemoveFolder,
          Report, vars, txvars, files
  <2> QED
    BY <2>1
<1> QED
  BY <1>1, <1>2, <1>3

THEOREM EditsAreKept == MSpec => EditsKept
<1>1. ASSUME MigrationInv, [MNext]_vars
      PROVE  [\A f \in Paths \ raced : disk'[f] # disk[f] /\ f \in ours' =>
                 f \in ours \/ disk[f] = plan.before[f]]_txvars
  BY <1>1, StepKeepsEdits
<1> QED
  BY <1>1, AlwaysMigration, PTL DEF MSpec, EditsKept
=============================================================================
