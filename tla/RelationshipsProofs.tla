------------------------- MODULE RelationshipsProofs -------------------------
(***************************************************************************)
(* Relationship records for any operations, records, edits, failures and   *)
(* deaths: an event tells the truth, what was abandoned is absent, a late  *)
(* repair revives nothing, and the index may be believed.                  *)
(*                                                                         *)
(* The inductive invariant says what a journal proves of its operation     *)
(* (JournalInv), what the running call has reached (RunInv), that whatever *)
(* is on disk at one time is noted, before and after a roll back (SeenInv),*)
(* and, as long as one operation at most was left open, in what the index  *)
(* may differ from the files (LeftInv, IndexInv).                          *)
(***************************************************************************)
EXTENDS Relationships, FiniteSetTheorems, TLAPS

PCs == {"free", "native", "admit", "records", "verify", "event", "project", "reconcile",
        "complete", "receipt", "scan"}
Contents == Ops \union {Old, Edited}
JournalType == [state : States, originals : UNION {[S -> Ops \union {Old}] : S \in SUBSET Records},
                before : Contents]
RunType == [op : Ops \union {Old}, pc : PCs, todo : SUBSET Records, repair : BOOLEAN]
IndexType == [rec : [Records -> Ops \union {Old}], events : SUBSET Ops, open : SUBSET Ops]

Typed ==
    /\ rec \in [Records -> Ops \union {Old}] /\ doc \in Contents
    /\ journal \in [Ops -> JournalType] /\ event \in [Ops -> {"none", "written", "cleaned"}]
    /\ \A o \in Ops : DOMAIN journal[o].originals = (IF o \in Unresolved THEN Writes[o] ELSE {})
    /\ index \in IndexType /\ stale \in BOOLEAN /\ incomplete \in BOOLEAN
    /\ run \in RunType /\ shown \subseteq Ops /\ happened \subseteq Ops
    /\ faults \in Nat /\ crashes \in Nat /\ edits \in Nat

\* The operations that have left no trace.
Absent(o) == event[o] = "none" /\ doc # o /\ \A r \in Records : rec[r] # o

JournalInv ==
    /\ \A o \in Ops :
         /\ journal[o].state \in {"none", "abandoned"} => Absent(o)
         /\ journal[o].state \in {"state-committed", "projection-pending", "complete"} => o \in happened
         /\ journal[o].state \in {"projection-pending", "complete"} => event[o] # "none"
         /\ event[o] # "none" => o \in happened
         /\ doc = o => o \in Native /\ o \in shown
    /\ \A r \in Records : rec[r] \in Ops => r \in Writes[rec[r]]
    /\ \A o \in Unresolved : \A r \in Writes[o] :
         LET p == journal[o].originals[r] IN
         p \in Ops => p # o /\ r \in Writes[p] /\ journal[p].state # "none"
    /\ \A o \in Unresolved : journal[o].before # o

\* The call's first attempt at its records: they can still be taken back.
Working == run.pc \in {"native", "admit", "records"} /\ ~run.repair

RunInv ==
    /\ run.pc \notin {"free", "scan"} => run.op \in Ops
    /\ run.pc \notin {"free", "scan", "receipt"} => run.op \in Unresolved
    /\ run.pc = "receipt" => journal[run.op].state \in {"complete", "abandoned"}
    /\ run.pc \in {"native", "admit"} =>
         ~run.repair /\ run.op \in Native /\ run.todo = Writes[run.op]
    /\ run.pc \in {"admit", "records", "verify"} => (run.op \in Native => run.op \in shown)
    /\ run.pc = "verify" => run.repair
    /\ run.pc = "records" =>
         /\ run.todo \subseteq Writes[run.op]
         /\ \A r \in Writes[run.op] \ run.todo : rec[r] = run.op
         /\ run.todo = {} => run.op \in happened
         /\ \A r \in run.todo : rec[r] \in {run.op, journal[run.op].originals[r]}
    /\ Working =>
         /\ event[run.op] = "none"
         /\ \A r \in run.todo : rec[r] = journal[run.op].originals[r]
         /\ \A r \in Writes[run.op] : journal[run.op].originals[r] \in Ops =>
              journal[journal[run.op].originals[r]].state # "abandoned"
         /\ \A q \in Unresolved : \A r \in Writes[q] : journal[q].originals[r] # run.op
    /\ run.pc \in {"event", "project", "reconcile", "complete"} => run.op \in happened
    /\ run.pc \in {"project", "reconcile", "complete"} => event[run.op] # "none"

\* What the records f say was on disk is noted.
Seen(f) == \A o \in Ops :
    (\A r \in Writes[o] : f[r] = o) /\ (o \in Native => o \in shown) => o \in happened
SeenInv == Seen(rec) /\ Seen(RolledBack)

RecordsInv == Typed /\ JournalInv /\ RunInv /\ SeenInv

-----------------------------------------------------------------------------
\* The operations that nobody is working on for the first time.
Left == Unresolved \ (IF run.pc \notin {"free", "scan"} /\ ~run.repair THEN {run.op} ELSE {})
Told == {o \in Ops : event[o] # "none"}
Interruptions == faults + crashes + edits

LeftInv == OneInterruption =>
    /\ \A p, q \in Left : p = q
    /\ Left # {} => Interruptions = 1
    /\ run.pc = "native" /\ doc # journal[run.op].before => Interruptions = 1 /\ Left = {}

\* The index agrees with the files in all that does not concern o.
AgreesBut(o) ==
    /\ \A r \in Records \ Writes[o] : index.rec[r] = rec[r]
    /\ \A p \in Ops \ {o} : p \in index.open <=> p \in Unresolved
    /\ \A p \in Ops \ {o} : p \in index.events <=> p \in Told
Agrees == index.rec = rec /\ index.open = Unresolved /\ index.events = Told

IndexInv ==
    /\ index.events \subseteq Told
    /\ run.pc = "scan" => incomplete
    /\ OneInterruption => \A o \in Unresolved : event[o] # "cleaned"
    /\ OneInterruption /\ run.pc # "scan" =>
         /\ incomplete => run.pc = "free" /\ Unresolved = {}
         /\ ~stale /\ ~incomplete => Agrees
         /\ run.pc # "free" => AgreesBut(run.op)
         /\ run.pc = "free" => \A o \in Unresolved : AgreesBut(o)
         /\ run.pc = "complete" => Agrees
         /\ run.pc = "receipt" => index.rec = rec /\ index.events = Told
         /\ Working => \A r \in Writes[run.op] : index.rec[r] = journal[run.op].originals[r]
         /\ \A o \in Unresolved : \A r \in Writes[o] :
              rec[r] = journal[o].originals[r] => index.rec[r] = rec[r]
-----------------------------------------------------------------------------
(* What the helpers of the actions do.                                       *)

LEMMA GoRun ==
    ASSUME run \in RunType, NEW pc \in PCs, Go(pc)
    PROVE  /\ run' \in RunType /\ run'.pc = pc
           /\ run'.op = run.op /\ run'.todo = run.todo /\ run'.repair = run.repair
BY DEF Go, RunType

LEMMA FreeRun == Free \in RunType /\ Free.pc = "free" /\ Free.repair = FALSE
BY DEF Free, RunType, PCs

LEMMA FreeRunAt ==
    ASSUME NEW o \in Ops \union {Old}, NEW pc \in PCs
    PROVE  /\ [Free EXCEPT !.op = o, !.pc = pc] \in RunType
           /\ [Free EXCEPT !.op = o, !.pc = pc].pc = pc
           /\ [Free EXCEPT !.op = o, !.pc = pc].op = o
           /\ [Free EXCEPT !.op = o, !.pc = pc].repair = FALSE
BY DEF Free, RunType

LEMMA TakeRun ==
    ASSUME RelationshipsAssumption, NEW o \in Ops, NEW pc \in PCs, NEW repair \in BOOLEAN,
           Take(o, pc, repair)
    PROVE  /\ run' \in RunType /\ run'.pc = pc
           /\ run'.op = o /\ run'.todo = Writes[o] /\ run'.repair = repair
BY DEF Take, RunType

LEMMA NoneJournal == None \in JournalType /\ DOMAIN None.originals = {}
<1>1. << >> \in [{} -> Ops \union {Old}]
  OBVIOUS
<1>2. {} \in SUBSET Records
  OBVIOUS
<1>3. << >> \in UNION {[S -> Ops \union {Old}] : S \in SUBSET Records}
  BY <1>1, <1>2
<1> QED BY <1>3 DEF None, JournalType, States, Contents

\* A journal that is written again keeps what it captured, unless its operation has ended.
LEMMA SavedJournal ==
    ASSUME Typed, NEW o \in Ops, NEW state \in States, Saved(o, state)
    PROVE  /\ journal' \in [Ops -> JournalType] /\ journal'[o].state = state
           /\ \A p \in Ops \ {o} : journal'[p] = journal[p]
           /\ state \notin Ended => /\ journal'[o].originals = journal[o].originals
                                    /\ journal'[o].before = journal[o].before
           /\ state \in Ended => DOMAIN journal'[o].originals = {}
<1>1. journal \in [Ops -> JournalType]
  BY DEF Typed
<1>2. journal' = [journal EXCEPT ![o] = [(IF state \in Ended THEN None ELSE @) EXCEPT !.state = state]]
  BY DEF Saved
<1>3. CASE state \in Ended
  <2>1. journal'[o] = [None EXCEPT !.state = state]
    BY <1>1, <1>2, <1>3
  <2>2. /\ [None EXCEPT !.state = state] \in JournalType
        /\ [None EXCEPT !.state = state].state = state
        /\ [None EXCEPT !.state = state].originals = None.originals
    BY NoneJournal DEF JournalType
  <2> QED BY <1>1, <1>2, <1>3, <2>1, <2>2, NoneJournal
<1>4. CASE state \notin Ended
  <2>1. journal'[o] = [journal[o] EXCEPT !.state = state]
    BY <1>1, <1>2, <1>4
  <2>2. /\ [journal[o] EXCEPT !.state = state] \in JournalType
        /\ [journal[o] EXCEPT !.state = state].state = state
        /\ [journal[o] EXCEPT !.state = state].originals = journal[o].originals
        /\ [journal[o] EXCEPT !.state = state].before = journal[o].before
    BY <1>1 DEF JournalType
  <2> QED BY <1>1, <1>2, <1>4, <2>1, <2>2
<1> QED BY <1>3, <1>4

\* Only the first attempt at the records can be taken back.
LEMMA NothingToTakeBack ==
    ASSUME rec \in [Records -> Ops \union {Old}], run.pc # "records" \/ run.repair
    PROVE  RolledBack = rec
BY DEF RolledBack, At

\* What is taken back is what the call found.
LEMMA TakenBack ==
    ASSUME RelationshipsAssumption, Typed, RunInv, JournalInv
    PROVE  /\ RolledBack \in [Records -> Ops \union {Old}]
           /\ \A r \in Records :
                \/ RolledBack[r] = rec[r]
                \/ /\ run.pc = "records" /\ ~run.repair /\ r \in Writes[run.op]
                   /\ RolledBack[r] = journal[run.op].originals[r]
           /\ Working => \A r \in Writes[run.op] : RolledBack[r] = journal[run.op].originals[r]
<1>1. CASE run.pc = "records" /\ ~run.repair
  <2>1. /\ run.op \in Unresolved /\ DOMAIN journal[run.op].originals = Writes[run.op]
        /\ journal[run.op].originals \in [Writes[run.op] -> Ops \union {Old}]
        /\ Writes[run.op] \subseteq Records
    BY <1>1 DEF Typed, RunInv, JournalType
  <2>2. RolledBack = [r \in Records |-> IF r \in Writes[run.op] \ run.todo
                                        THEN journal[run.op].originals[r] ELSE rec[r]]
    BY <1>1 DEF RolledBack, At
  <2> QED BY <1>1, <2>1, <2>2 DEF Typed, RunInv, Working
<1>2. CASE run.pc # "records" \/ run.repair
  <2>1. RolledBack = rec
    BY <1>2, NothingToTakeBack DEF Typed
  <2>2. Working => /\ run.pc \in {"native", "admit"} /\ run.todo = Writes[run.op]
                   /\ \A r \in run.todo : rec[r] = journal[run.op].originals[r]
    BY <1>2 DEF Working, RunInv
  <2> QED BY <2>1, <2>2 DEF Typed
<1> QED BY <1>1, <1>2
-----------------------------------------------------------------------------
(* Every action keeps the records, the journals and the events in order.     *)


LEMMA BeginStep ==
    ASSUME RelationshipsAssumption, RecordsInv, NEW o \in Ops, Begin(o)
    PROVE  RecordsInv'
<1> USE RelationshipsAssumption
<1>0. Typed /\ JournalInv /\ RunInv /\ SeenInv
  BY DEF RecordsInv
<1>a. /\ run.pc = "free"
      /\ run'.pc \in {"native", "records"} /\ run'.todo = Writes[o] /\ run'.op = o
  BY <1>0 DEF Begin, Take, At
<1>1. Typed'
  BY <1>0, <1>a
    DEF Typed, JournalType, RunType, IndexType, Contents, PCs, States, Ended, Unresolved,
        Begin, World, files, told, At, Take
<1>2. JournalInv'
  BY <1>0, <1>a, <1>1
    DEF JournalInv, RunInv, Absent, Typed, JournalType, RunType, States, Ended,
        Unresolved, Begin, World, files, told, At
<1>3. RunInv'
  BY <1>0, <1>a, <1>1, <1>2
    DEF RunInv, JournalInv, Typed, SeenInv, Seen, Working, Absent, JournalType, RunType,
        PCs, States, Ended, Unresolved, Begin, World, files, told, At, Take
<1>4. SeenInv'
  <2>1. rec' = rec /\ shown' = shown /\ happened' = happened
    BY DEF Begin, told
  <2>2. RolledBack' = rec'
    BY <1>0, <1>a, <1>1, <2>1 DEF RolledBack, Typed
  <2> QED BY <1>0, <2>1, <2>2 DEF SeenInv, Seen
<1> QED BY <1>1, <1>2, <1>3, <1>4 DEF RecordsInv

LEMMA RepairStep ==
    ASSUME RelationshipsAssumption, RecordsInv, NEW o \in Ops, Repair(o)
    PROVE  RecordsInv'
<1> USE RelationshipsAssumption
<1>0. Typed /\ JournalInv /\ RunInv /\ SeenInv
  BY DEF RecordsInv
<1>a. /\ run.pc = "free" /\ o \in Unresolved /\ UNCHANGED <<files, index, stale, incomplete, told>>
      /\ run' \in RunType /\ run'.op = o /\ run'.todo = Writes[o] /\ run'.repair = TRUE
      /\ \/ run'.pc = "event" /\ journal[o].state \in {"state-committed", "projection-pending"}
         \/ run'.pc = "verify" /\ o \notin Native
         \/ run'.pc = "records" /\ Guards(o) /\ Restorable(o)
  BY TakeRun DEF Repair, At, PCs
<1>1. Typed'
  BY <1>0, <1>a DEF Typed, Repair, files, told, World, Unresolved
<1>2. JournalInv'
  BY <1>0, <1>a, <1>1
    DEF JournalInv, RunInv, Absent, Typed, JournalType, RunType, States, Ended,
        Unresolved, Repair, World, files, told, At, Take
<1>3. RunInv'
  BY <1>0, <1>a, <1>1, <1>2
    DEF RunInv, JournalInv, Typed, SeenInv, Seen, Working, Absent, JournalType, RunType,
        PCs, States, Ended, Unresolved, Repair, World, files, told, At, Take,
        Restorable, Guards
<1>4. SeenInv'
  <2>1. rec' = rec /\ shown' = shown /\ happened' = happened
    BY DEF Repair, files, told
  <2>2. RolledBack' = rec'
    BY <1>0, <1>a, <1>1 DEF RolledBack, Typed
  <2> QED BY <1>0, <2>1, <2>2 DEF SeenInv, Seen
<1> QED BY <1>1, <1>2, <1>3, <1>4 DEF RecordsInv

LEMMA AbandonStep ==
    ASSUME RelationshipsAssumption, RecordsInv, NEW o \in Ops, Abandon(o)
    PROVE  RecordsInv'
<1> USE RelationshipsAssumption
<1>0. Typed /\ JournalInv /\ RunInv /\ SeenInv
  BY DEF RecordsInv
<1>a. /\ run.pc = "free" /\ o \in Unresolved
      /\ run' \in RunType /\ run'.pc = "receipt" /\ run'.op = o /\ run'.repair = FALSE
  BY FreeRunAt DEF Abandon, At, PCs
<1>b. /\ journal' \in [Ops -> JournalType] /\ journal'[o].state = "abandoned"
      /\ \A p \in Ops \ {o} : journal'[p] = journal[p]
      /\ DOMAIN journal'[o].originals = {}
  BY <1>0, SavedJournal DEF Abandon, States, Ended
<1>1. Typed'
  BY <1>0, <1>a, <1>b DEF Typed, Abandon, told, World, Unresolved, Ended
<1>2. JournalInv'
  <2>1. Absent(o)
    <3>1. \A r \in Writes[o] : rec[r] = journal[o].originals[r] /\ rec[r] # o
      BY <1>0, <1>a DEF Abandon, Untouched, JournalInv
    <3>2. \A r \in Records : rec[r] # o
      BY <1>0, <3>1 DEF JournalInv
    <3>3. doc # o
      BY <1>0, <1>a DEF Abandon, Untouched, JournalInv
    <3> QED BY <3>2, <3>3 DEF Absent, Abandon, Untouched
  <2> QED BY <1>0, <1>a, <1>b, <2>1 DEF JournalInv, Absent, Abandon, told, Unresolved, Ended
<1>3. RunInv'
  BY <1>0, <1>a, <1>b DEF RunInv, Working
<1>4. SeenInv'
  <2>1. rec' = rec /\ shown' = shown /\ happened' = happened
    BY DEF Abandon, told
  <2>2. RolledBack' = rec'
    BY <1>0, <1>a, <1>1 DEF RolledBack, At
  <2> QED BY <1>0, <2>1, <2>2 DEF SeenInv, Seen
<1> QED BY <1>1, <1>2, <1>3, <1>4 DEF RecordsInv

LEMMA CleanupStep ==
    ASSUME RelationshipsAssumption, RecordsInv, NEW o \in Ops, Cleanup(o)
    PROVE  RecordsInv'
<1> USE RelationshipsAssumption
<1>0. Typed /\ JournalInv /\ RunInv /\ SeenInv
  BY DEF RecordsInv
<1>1. Typed'
  BY <1>0
    DEF Typed, JournalType, RunType, IndexType, Contents, PCs, States, Ended, Unresolved,
        Cleanup, World, files, told
<1>2. JournalInv'
  BY <1>0, <1>1
    DEF JournalInv, RunInv, Absent, Typed, JournalType, RunType, States, Ended,
        Unresolved, Cleanup, World, files, told
<1>3. RunInv'
  BY <1>0, <1>1, <1>2
    DEF RunInv, JournalInv, Typed, SeenInv, Seen, Working, Absent, JournalType, RunType,
        PCs, States, Ended, Unresolved, Cleanup, World, files, told
<1>4. SeenInv'
  BY <1>0, <1>1
    DEF SeenInv, Seen, RunInv, Unresolved, RolledBack, Working, RunType, Ended, Cleanup,
        World, files, told, At
<1> QED BY <1>1, <1>2, <1>3, <1>4 DEF RecordsInv

LEMMA NativeWriteStep ==
    ASSUME RelationshipsAssumption, RecordsInv, NativeWrite
    PROVE  RecordsInv'
<1> USE RelationshipsAssumption
<1>0. Typed /\ JournalInv /\ RunInv /\ SeenInv
  BY DEF RecordsInv
<1>a. /\ run.pc = "native" /\ run.op \in Ops /\ run.op \in Unresolved /\ run.op \in Native
      /\ run' \in RunType /\ UNCHANGED <<rec, journal, event, index, stale, incomplete, happened>>
      /\ \/ /\ doc' = run.op /\ shown' = shown \union {run.op} /\ run'.pc = "admit"
            /\ run'.op = run.op /\ run'.todo = run.todo /\ run'.repair = run.repair
         \/ UNCHANGED <<doc, shown>> /\ run'.pc = "free"
  BY <1>0, GoRun, FreeRun DEF NativeWrite, At, PCs, Typed, RunInv
<1>1. Typed'
  BY <1>0, <1>a DEF Typed, NativeWrite, World, Unresolved, Contents
<1>2. JournalInv'
  BY <1>0, <1>a, <1>1
    DEF JournalInv, RunInv, Absent, Typed, JournalType, RunType, States, Ended,
        Unresolved, NativeWrite, World, files
<1>3. RunInv'
  BY <1>0, <1>a, <1>1, <1>2
    DEF RunInv, JournalInv, Typed, SeenInv, Seen, Working, Absent, JournalType, RunType,
        PCs, States, Ended, Unresolved, NativeWrite, World, files
<1>4. SeenInv'
  <2>1. RolledBack' = rec
    BY <1>0, <1>a, <1>1 DEF RolledBack, At
  <2>2. PICK r \in Writes[run.op] : TRUE
    BY <1>a
  <2>3. rec[r] # run.op
    BY <1>0, <1>a, <2>2 DEF RunInv, Working, JournalInv
  <2>4. Seen(rec)'
    BY <1>0, <1>a, <2>2, <2>3 DEF SeenInv, Seen
  <2> QED BY <1>a, <2>1, <2>4 DEF SeenInv, Seen
<1> QED BY <1>1, <1>2, <1>3, <1>4 DEF RecordsInv

LEMMA AdmitNativeStep ==
    ASSUME RelationshipsAssumption, RecordsInv, AdmitNative
    PROVE  RecordsInv'
<1> USE RelationshipsAssumption
<1>0. Typed /\ JournalInv /\ RunInv /\ SeenInv
  BY DEF RecordsInv
<1>a. /\ run.op \in Ops /\ run.op \in Unresolved
      /\ run' \in RunType /\ run'.pc = "records"
      /\ run'.op = run.op /\ run'.todo = run.todo /\ run'.repair = run.repair
  BY <1>0, GoRun DEF AdmitNative, At, PCs, Typed, RunInv
<1>b. /\ journal' \in [Ops -> JournalType] /\ journal'[run.op].state = "pending"
      /\ \A p \in Ops \ {run.op} : journal'[p] = journal[p]
      /\ journal'[run.op].originals = journal[run.op].originals /\ journal'[run.op].before = journal[run.op].before
  BY <1>0, <1>a, SavedJournal DEF AdmitNative, States, Ended
<1>1. Typed'
  BY <1>0, <1>a, <1>b DEF Typed, AdmitNative, told, World, Unresolved, Ended
<1>2. JournalInv'
  BY <1>0, <1>a, <1>b, <1>1 DEF JournalInv, RunInv, Absent, AdmitNative, told, At, Unresolved
<1>3. RunInv'
  BY <1>0, <1>a, <1>b, <1>1, <1>2 DEF RunInv, Working, AdmitNative, told, At, Unresolved, Ended
<1>4. SeenInv'
  <2>1. rec' = rec /\ shown' = shown /\ happened' = happened
    BY DEF AdmitNative, told
  <2>2. run.todo = Writes[run.op]
    BY <1>0 DEF AdmitNative, At, RunInv
  <2>3. RolledBack' = rec'
    BY <1>0, <1>a, <1>1, <2>1, <2>2 DEF RolledBack, Typed
  <2> QED BY <1>0, <2>1, <2>3 DEF SeenInv, Seen
<1> QED BY <1>1, <1>2, <1>3, <1>4 DEF RecordsInv

LEMMA WriteRecordStep ==
    ASSUME RelationshipsAssumption, RecordsInv, WriteRecord
    PROVE  RecordsInv'
<1> USE RelationshipsAssumption
<1>0. Typed /\ JournalInv /\ RunInv /\ SeenInv
  BY DEF RecordsInv
<1>1. Typed'
  BY <1>0
    DEF Typed, JournalType, RunType, IndexType, Contents, PCs, States, Ended, Unresolved,
        WriteRecord, World, files, told, Happens
<1>2. JournalInv'
  BY <1>0, <1>1
    DEF JournalInv, RunInv, Absent, Typed, JournalType, RunType, States, Ended,
        Unresolved, WriteRecord, World, files, told, At, Happens
<1>3. RunInv'
  BY <1>0, <1>1, <1>2
    DEF RunInv, JournalInv, Typed, SeenInv, Seen, Working, Absent, JournalType, RunType,
        PCs, States, Ended, Unresolved, WriteRecord, World, files, told, At, Happens
<1>4. SeenInv'
  <2>0. PICK r \in run.todo : /\ rec' = [rec EXCEPT ![r] = run.op]
                              /\ run' = [run EXCEPT !.todo = @ \ {r}]
    BY DEF WriteRecord
  <2>1. /\ shown' = shown /\ happened \subseteq happened' /\ journal' = journal
        /\ run.pc = "records" /\ run.todo \subseteq Writes[run.op]
        /\ run'.pc = "records" /\ run'.op = run.op /\ run'.repair = run.repair /\ run'.todo = run.todo \ {r}
    BY <1>0, <2>0 DEF WriteRecord, Happens, At, Typed, RunType, RunInv
  <2>2. Seen(rec)'
    BY <2>1 DEF WriteRecord, Happens, Seen
  <2>3. CASE run.repair
    <3>1. RolledBack' = rec'
      BY <1>1, <2>1, <2>3 DEF RolledBack, Typed
    <3> QED BY <2>2, <3>1 DEF SeenInv, Seen
  <2>4. CASE ~run.repair
    <3>1. rec[r] = journal[run.op].originals[r]
      BY <1>0, <2>0, <2>1, <2>4 DEF RunInv, Working
    <3>2. RolledBack' = RolledBack
      BY <1>0, <2>0, <2>1, <2>4, <3>1 DEF RolledBack, At
    <3> QED BY <1>0, <2>1, <2>2, <3>2 DEF SeenInv, Seen
  <2> QED BY <2>3, <2>4
<1> QED BY <1>1, <1>2, <1>3, <1>4 DEF RecordsInv

LEMMA RecordsWrittenStep ==
    ASSUME RelationshipsAssumption, RecordsInv, RecordsWritten
    PROVE  RecordsInv'
<1> USE RelationshipsAssumption
<1>0. Typed /\ JournalInv /\ RunInv /\ SeenInv
  BY DEF RecordsInv
<1>a. /\ run.pc = "records" /\ run.todo = {} /\ run.op \in Ops /\ run.op \in Unresolved
      /\ run.op \in happened
      /\ run' \in RunType /\ run'.op = run.op /\ run'.todo = run.todo /\ run'.repair = run.repair
      /\ run'.pc = IF run.repair THEN "verify" ELSE "event"
  BY <1>0, GoRun DEF RecordsWritten, At, PCs, Typed, RunInv
<1>b. /\ journal' \in [Ops -> JournalType]
      /\ \A p \in Ops \ {run.op} : journal'[p] = journal[p]
      /\ journal'[run.op].originals = journal[run.op].originals
      /\ journal'[run.op].before = journal[run.op].before
      /\ IF run.repair THEN journal' = journal ELSE journal'[run.op].state = "state-committed"
  BY <1>0, <1>a, SavedJournal DEF RecordsWritten, States, Ended, Typed
<1>1. Typed'
  BY <1>0, <1>a, <1>b DEF Typed, RecordsWritten, told, World, Unresolved, Ended
<1>2. JournalInv'
  BY <1>0, <1>a, <1>b, <1>1 DEF JournalInv, Absent, RecordsWritten, told, Unresolved
<1>3. RunInv'
  BY <1>0, <1>a, <1>b, <1>1, <1>2 DEF RunInv, Working, RecordsWritten, told, Unresolved, Ended
<1>4. SeenInv'
  <2>1. rec' = rec /\ shown' = shown /\ happened' = happened
    BY DEF RecordsWritten, told
  <2>2. RolledBack' = rec'
    BY <1>0, <1>a, <1>1 DEF RolledBack, At
  <2> QED BY <1>0, <2>1, <2>2 DEF SeenInv, Seen
<1> QED BY <1>1, <1>2, <1>3, <1>4 DEF RecordsInv

LEMMA VerifyStep ==
    ASSUME RelationshipsAssumption, RecordsInv, Verify
    PROVE  RecordsInv'
<1> USE RelationshipsAssumption
<1>0. Typed /\ JournalInv /\ RunInv /\ SeenInv
  BY DEF RecordsInv
<1>a. /\ run.pc = "verify" /\ run.op \in Ops /\ run.op \in Unresolved
      /\ UNCHANGED <<files, index, stale, incomplete, told>>
      /\ run' \in RunType
      /\ \/ /\ Images(run.op) /\ run'.pc = "event"
            /\ run'.op = run.op /\ run'.todo = run.todo /\ run'.repair = run.repair
         \/ run'.pc = "free"
  BY <1>0, GoRun, FreeRun DEF Verify, At, PCs, Typed, RunInv
<1>1. Typed'
  BY <1>0, <1>a DEF Typed, Verify, files, told, World, Unresolved
<1>2. JournalInv'
  BY <1>0, <1>a, <1>1
    DEF JournalInv, RunInv, Absent, Typed, JournalType, RunType, States, Ended,
        Unresolved, Verify, World, files, told
<1>3. RunInv'
  BY <1>0, <1>a, <1>1, <1>2
    DEF RunInv, JournalInv, Typed, SeenInv, Seen, Working, Absent, JournalType, RunType,
        PCs, States, Ended, Unresolved, Verify, World, files, told, Images
<1>4. SeenInv'
  <2>1. rec' = rec /\ shown' = shown /\ happened' = happened
    BY DEF Verify, files, told
  <2>2. RolledBack' = rec'
    BY <1>0, <1>a, <1>1 DEF RolledBack, At
  <2> QED BY <1>0, <2>1, <2>2 DEF SeenInv, Seen
<1> QED BY <1>1, <1>2, <1>3, <1>4 DEF RecordsInv

LEMMA WriteEventStep ==
    ASSUME RelationshipsAssumption, RecordsInv, WriteEvent
    PROVE  RecordsInv'
<1> USE RelationshipsAssumption
<1>0. Typed /\ JournalInv /\ RunInv /\ SeenInv
  BY DEF RecordsInv
<1>a. /\ run.pc = "event" /\ run.op \in Ops /\ run.op \in Unresolved /\ run.op \in happened
      /\ UNCHANGED <<rec, doc, journal, index, incomplete, told>>
      /\ run' \in RunType
      /\ \/ /\ run'.pc = "project" /\ event' = [event EXCEPT ![run.op] = "written"] /\ stale' = TRUE
            /\ run'.op = run.op /\ run'.todo = run.todo /\ run'.repair = run.repair
         \/ run'.pc = "free" /\ UNCHANGED <<event, stale>>
  BY <1>0, GoRun, FreeRun DEF WriteEvent, At, PCs, Typed, RunInv
<1>1. Typed'
  BY <1>0, <1>a DEF Typed, WriteEvent, told, World, Unresolved
<1>2. JournalInv'
  BY <1>0, <1>a, <1>1
    DEF JournalInv, RunInv, Absent, Typed, JournalType, RunType, States, Ended,
        Unresolved, WriteEvent, World, files, told
<1>3. RunInv'
  BY <1>0, <1>a, <1>1, <1>2
    DEF RunInv, JournalInv, Typed, SeenInv, Seen, Working, Absent, JournalType, RunType,
        PCs, States, Ended, Unresolved, WriteEvent, World, files
<1>4. SeenInv'
  <2>1. rec' = rec /\ shown' = shown /\ happened' = happened
    BY DEF WriteEvent, told
  <2>2. RolledBack' = rec'
    BY <1>0, <1>a, <1>1 DEF RolledBack, At
  <2> QED BY <1>0, <2>1, <2>2 DEF SeenInv, Seen
<1> QED BY <1>1, <1>2, <1>3, <1>4 DEF RecordsInv

LEMMA ProjectStep ==
    ASSUME RelationshipsAssumption, RecordsInv, Project
    PROVE  RecordsInv'
<1> USE RelationshipsAssumption
<1>0. Typed /\ JournalInv /\ RunInv /\ SeenInv
  BY DEF RecordsInv
<1>a. /\ run.op \in Ops /\ run.op \in Unresolved
      /\ run' \in RunType /\ run'.pc = "reconcile"
      /\ run'.op = run.op /\ run'.todo = run.todo /\ run'.repair = run.repair
  BY <1>0, GoRun DEF Project, At, PCs, Typed, RunInv
<1>b. /\ journal' \in [Ops -> JournalType] /\ journal'[run.op].state = "projection-pending"
      /\ \A p \in Ops \ {run.op} : journal'[p] = journal[p]
      /\ journal'[run.op].originals = journal[run.op].originals /\ journal'[run.op].before = journal[run.op].before
  BY <1>0, <1>a, SavedJournal DEF Project, States, Ended
<1>1. Typed'
  BY <1>0, <1>a, <1>b DEF Typed, Project, told, World, Unresolved, Ended
<1>2. JournalInv'
  BY <1>0, <1>a, <1>b, <1>1 DEF JournalInv, RunInv, Absent, Project, told, At, Unresolved
<1>3. RunInv'
  BY <1>0, <1>a, <1>b, <1>1, <1>2 DEF RunInv, Working, Project, told, At, Unresolved, Ended
<1>4. SeenInv'
  <2>1. rec' = rec /\ shown' = shown /\ happened' = happened
    BY DEF Project, told
  <2>2. RolledBack' = rec'
    BY <1>0, <1>a, <1>1 DEF RolledBack, At
  <2> QED BY <1>0, <2>1, <2>2 DEF SeenInv, Seen
<1> QED BY <1>1, <1>2, <1>3, <1>4 DEF RecordsInv

LEMMA ReconcileStep ==
    ASSUME RelationshipsAssumption, RecordsInv, Reconcile
    PROVE  RecordsInv'
<1> USE RelationshipsAssumption
<1>0. Typed /\ JournalInv /\ RunInv /\ SeenInv
  BY DEF RecordsInv
<1>a. /\ run.op \in Ops /\ run.pc = "reconcile"
      /\ run' \in RunType /\ run'.pc = "complete"
      /\ run'.op = run.op /\ run'.todo = run.todo /\ run'.repair = run.repair
  BY <1>0, GoRun DEF Reconcile, At, PCs, Typed, RunInv
<1>1. Typed'
  BY <1>0, <1>a DEF Typed, IndexType, Reconcile, files, told, World, Unresolved
<1>2. JournalInv'
  BY <1>0, <1>a, <1>1
    DEF JournalInv, RunInv, Absent, Typed, JournalType, RunType, States, Ended,
        Unresolved, Reconcile, World, files, told
<1>3. RunInv'
  BY <1>0, <1>a, <1>1, <1>2
    DEF RunInv, JournalInv, Typed, SeenInv, Seen, Working, Absent, JournalType, RunType,
        PCs, States, Ended, Unresolved, Reconcile, World, files, told
<1>4. SeenInv'
  <2>1. rec' = rec /\ shown' = shown /\ happened' = happened
    BY DEF Reconcile, files, told
  <2>2. RolledBack' = rec'
    BY <1>0, <1>a, <1>1 DEF RolledBack, At
  <2> QED BY <1>0, <2>1, <2>2 DEF SeenInv, Seen
<1> QED BY <1>1, <1>2, <1>3, <1>4 DEF RecordsInv

LEMMA CompleteStep ==
    ASSUME RelationshipsAssumption, RecordsInv, Complete
    PROVE  RecordsInv'
<1> USE RelationshipsAssumption
<1>0. Typed /\ JournalInv /\ RunInv /\ SeenInv
  BY DEF RecordsInv
<1>a. /\ run.op \in Ops /\ run.op \in Unresolved
      /\ run' \in RunType /\ run'.pc = "receipt"
      /\ run'.op = run.op /\ run'.todo = run.todo /\ run'.repair = run.repair
  BY <1>0, GoRun DEF Complete, At, PCs, Typed, RunInv
<1>b. /\ journal' \in [Ops -> JournalType] /\ journal'[run.op].state = "complete"
      /\ \A p \in Ops \ {run.op} : journal'[p] = journal[p]
      /\ DOMAIN journal'[run.op].originals = {}
  BY <1>0, <1>a, SavedJournal DEF Complete, States, Ended
<1>1. Typed'
  BY <1>0, <1>a, <1>b DEF Typed, Complete, told, World, Unresolved, Ended
<1>2. JournalInv'
  BY <1>0, <1>a, <1>b, <1>1 DEF JournalInv, RunInv, Absent, Complete, told, At, Unresolved, Ended
<1>3. RunInv'
  BY <1>0, <1>a, <1>b, <1>1, <1>2 DEF RunInv, Working, Complete, told, At
<1>4. SeenInv'
  <2>1. rec' = rec /\ shown' = shown /\ happened' = happened
    BY DEF Complete, told
  <2>2. RolledBack' = rec'
    BY <1>0, <1>a, <1>1 DEF RolledBack, At
  <2> QED BY <1>0, <2>1, <2>2 DEF SeenInv, Seen
<1> QED BY <1>1, <1>2, <1>3, <1>4 DEF RecordsInv

LEMMA ReceiptStep ==
    ASSUME RelationshipsAssumption, RecordsInv, Receipt
    PROVE  RecordsInv'
<1> USE RelationshipsAssumption
<1>0. Typed /\ JournalInv /\ RunInv /\ SeenInv
  BY DEF RecordsInv
<1>1. Typed'
  BY <1>0
    DEF Typed, JournalType, RunType, IndexType, Contents, PCs, States, Ended, Unresolved,
        Receipt, World, files, told, Free
<1>2. JournalInv'
  BY <1>0, <1>1
    DEF JournalInv, RunInv, Absent, Typed, JournalType, RunType, States, Ended,
        Unresolved, Receipt, World, files, told
<1>3. RunInv'
  BY <1>0, <1>1, <1>2
    DEF RunInv, JournalInv, Typed, SeenInv, Seen, Working, Absent, JournalType, RunType,
        PCs, States, Ended, Unresolved, Receipt, World, files, told, Free
<1>4. SeenInv'
  BY <1>0, <1>1
    DEF SeenInv, Seen, RunInv, Unresolved, RolledBack, Working, RunType, Ended, Receipt,
        World, files, told, At, Free
<1> QED BY <1>1, <1>2, <1>3, <1>4 DEF RecordsInv

LEMMA ScanStep ==
    ASSUME RelationshipsAssumption, RecordsInv, Scan
    PROVE  RecordsInv'
<1> USE RelationshipsAssumption
<1>0. Typed /\ JournalInv /\ RunInv /\ SeenInv
  BY DEF RecordsInv
<1>1. Typed'
  BY <1>0
    DEF Typed, JournalType, RunType, IndexType, Contents, PCs, States, Ended, Unresolved,
        Scan, World, files, told, Free
<1>2. JournalInv'
  BY <1>0, <1>1
    DEF JournalInv, RunInv, Absent, Typed, JournalType, RunType, States, Ended,
        Unresolved, Scan, World, files, told
<1>3. RunInv'
  BY <1>0, <1>1, <1>2
    DEF RunInv, JournalInv, Typed, SeenInv, Seen, Working, Absent, JournalType, RunType,
        PCs, States, Ended, Unresolved, Scan, World, files, told, Free
<1>4. SeenInv'
  BY <1>0, <1>1
    DEF SeenInv, Seen, RunInv, Unresolved, RolledBack, Working, RunType, Ended, Scan,
        World, files, told, At, Free
<1> QED BY <1>1, <1>2, <1>3, <1>4 DEF RecordsInv

LEMMA RefreshStep ==
    ASSUME RelationshipsAssumption, RecordsInv, Refresh
    PROVE  RecordsInv'
<1> USE RelationshipsAssumption
<1>0. Typed /\ JournalInv /\ RunInv /\ SeenInv
  BY DEF RecordsInv
<1>1. Typed'
  BY <1>0
    DEF Typed, JournalType, RunType, IndexType, Contents, PCs, States, Ended, Unresolved,
        Refresh, World, files, told, At, Free, EmptyIndex
<1>2. JournalInv'
  BY <1>0, <1>1
    DEF JournalInv, RunInv, Absent, Typed, JournalType, RunType, States, Ended,
        Unresolved, Refresh, World, files, told, At
<1>3. RunInv'
  BY <1>0, <1>1, <1>2
    DEF RunInv, JournalInv, Typed, SeenInv, Seen, Working, Absent, JournalType, RunType,
        PCs, States, Ended, Unresolved, Refresh, World, files, told, At
<1>4. SeenInv'
  BY <1>0, <1>1
    DEF SeenInv, Seen, RunInv, Unresolved, RolledBack, Working, RunType, Ended, Refresh,
        World, files, told, At
<1> QED BY <1>1, <1>2, <1>3, <1>4 DEF RecordsInv

LEMMA FailStep ==
    ASSUME RelationshipsAssumption, RecordsInv, Fail
    PROVE  RecordsInv'
<1> USE RelationshipsAssumption
<1>0. Typed /\ JournalInv /\ RunInv /\ SeenInv
  BY DEF RecordsInv
<1>a. /\ run' \in RunType /\ run'.pc = "free" /\ run'.repair = FALSE
      /\ rec' = RolledBack /\ UNCHANGED <<doc, journal, event, index, stale, incomplete, told, crashes, edits>>
  BY FreeRun DEF Fail
<1>1. Typed'
  BY <1>0, <1>a, TakenBack DEF Typed, Fail, told, Unresolved
<1>2. JournalInv'
  <2>1. \A r \in Records :
          \/ rec'[r] = rec[r]
          \/ /\ Working /\ r \in Writes[run.op] /\ run.op \in Unresolved /\ run.op \in Ops
             /\ rec'[r] = journal[run.op].originals[r]
    BY <1>0, <1>a, TakenBack DEF Working, RunInv
  <2>2. \A o \in Ops : journal[o].state \in {"none", "abandoned"} => Absent(o)'
    <3> SUFFICES ASSUME NEW o \in Ops, journal[o].state \in {"none", "abandoned"}, NEW r \in Records
                 PROVE  rec'[r] # o
      BY <1>0, <1>a DEF JournalInv, Absent
    <3> QED BY <1>0, <2>1 DEF JournalInv, Absent, RunInv
  <2>3. \A r \in Records : rec'[r] \in Ops => r \in Writes[rec'[r]]
    BY <1>0, <2>1 DEF JournalInv
  <2> QED BY <1>0, <1>a, <2>2, <2>3 DEF JournalInv, told, Unresolved
<1>3. RunInv'
  BY <1>a DEF RunInv, Working
<1>4. SeenInv'
  <2>1. RolledBack' = rec'
    BY <1>a, <1>1 DEF RolledBack, At
  <2> QED BY <1>0, <1>a, <2>1 DEF SeenInv, Seen, told
<1> QED BY <1>1, <1>2, <1>3, <1>4 DEF RecordsInv

LEMMA CrashStep ==
    ASSUME RelationshipsAssumption, RecordsInv, Crash
    PROVE  RecordsInv'
<1> USE RelationshipsAssumption
<1>0. Typed /\ JournalInv /\ RunInv /\ SeenInv
  BY DEF RecordsInv
<1>1. Typed'
  BY <1>0
    DEF Typed, JournalType, RunType, IndexType, Contents, PCs, States, Ended, Unresolved,
        Crash, World, files, told, Free
<1>2. JournalInv'
  BY <1>0, <1>1
    DEF JournalInv, RunInv, Absent, Typed, JournalType, RunType, States, Ended,
        Unresolved, Crash, World, files, told
<1>3. RunInv'
  BY <1>0, <1>1, <1>2
    DEF RunInv, JournalInv, Typed, SeenInv, Seen, Working, Absent, JournalType, RunType,
        PCs, States, Ended, Unresolved, Crash, World, files, told, Free
<1>4. SeenInv'
  BY <1>0, <1>1
    DEF SeenInv, Seen, RunInv, Unresolved, RolledBack, Working, RunType, Ended, Crash,
        World, files, told, At, Free
<1> QED BY <1>1, <1>2, <1>3, <1>4 DEF RecordsInv

LEMMA EditStep ==
    ASSUME RelationshipsAssumption, RecordsInv, Edit
    PROVE  RecordsInv'
<1> USE RelationshipsAssumption
<1>0. Typed /\ JournalInv /\ RunInv /\ SeenInv
  BY DEF RecordsInv
<1>1. Typed'
  BY <1>0
    DEF Typed, JournalType, RunType, IndexType, Contents, PCs, States, Ended, Unresolved,
        Edit, World, files, told
<1>2. JournalInv'
  BY <1>0, <1>1
    DEF JournalInv, RunInv, Absent, Typed, JournalType, RunType, States, Ended,
        Unresolved, Edit, World, files, told
<1>3. RunInv'
  BY <1>0, <1>1, <1>2
    DEF RunInv, JournalInv, Typed, SeenInv, Seen, Working, Absent, JournalType, RunType,
        PCs, States, Ended, Unresolved, Edit, World, files, told
<1>4. SeenInv'
  BY <1>0, <1>1
    DEF SeenInv, Seen, RunInv, Unresolved, RolledBack, Working, RunType, Ended, Edit,
        World, files, told, At
<1> QED BY <1>1, <1>2, <1>3, <1>4 DEF RecordsInv

-----------------------------------------------------------------------------
\* What the invariants are about: everything but the bindings of the endpoints.
allButBound ==
    <<rec, doc, journal, event, index, stale, incomplete, run, shown, happened, faults, crashes, edits>>

LEMMA InitRecords ==
    ASSUME RelationshipsAssumption, Init
    PROVE  RecordsInv
<1>1. Typed
  BY NoneJournal, FreeRun DEF Init, Typed, Contents, IndexType, EmptyIndex, Unresolved, Ended, None
<1>2. Unresolved = {} /\ \A o \in Ops : journal[o].state = "none"
  BY DEF Init, Unresolved, Ended, None
<1>3. JournalInv /\ RunInv
  BY <1>2, FreeRun DEF Init, JournalInv, RunInv, Absent, Working
<1>4. SeenInv
  <2>1. RolledBack = rec
    BY <1>1, FreeRun DEF Init, RolledBack, At
  <2>2. Seen(rec)
    BY DEF Init, Seen
  <2> QED BY <2>1, <2>2 DEF SeenInv
<1> QED BY <1>1, <1>3, <1>4 DEF RecordsInv

LEMMA NextRecords ==
    ASSUME RelationshipsAssumption, RecordsInv, [Next]_vars
    PROVE  RecordsInv'
<1>1. ASSUME NEW o \in Ops, Begin(o) \/ Repair(o) \/ Abandon(o) \/ Cleanup(o)
      PROVE  RecordsInv'
  BY <1>1, BeginStep, RepairStep, AbandonStep, CleanupStep
<1>2. CASE Publishing
  BY <1>2, NativeWriteStep, AdmitNativeStep, WriteRecordStep, RecordsWrittenStep,
      VerifyStep, WriteEventStep,
     ProjectStep, ReconcileStep, CompleteStep, ReceiptStep, ScanStep DEF Publishing
<1>3. CASE Refresh \/ Fail \/ Crash \/ Edit
  BY <1>3, RefreshStep, FailStep, CrashStep, EditStep
<1>4. CASE Rebind \/ UNCHANGED vars
  <2>0. UNCHANGED allButBound
    BY <1>4 DEF Rebind, vars, files, told, allButBound
  <2>1. Typed' /\ JournalInv' /\ RunInv'
    BY <2>0 DEF allButBound, RecordsInv, Typed, JournalInv, RunInv, Absent, Working, Unresolved
  <2>2. RolledBack' = RolledBack
    BY <2>0 DEF allButBound, RolledBack, At
  <2>3. SeenInv'
    BY <2>0, <2>2 DEF allButBound, RecordsInv, SeenInv, Seen
  <2> QED BY <2>1, <2>3 DEF RecordsInv
<1> QED BY <1>1, <1>2, <1>3, <1>4 DEF Next

THEOREM RecordsHold == Spec => []RecordsInv
<1>1. Init => RecordsInv
  BY RelationshipsAssumption, InitRecords
<1>2. RecordsInv /\ [Next]_vars => RecordsInv'
  BY RelationshipsAssumption, NextRecords
<1> QED BY <1>1, <1>2, PTL DEF Spec

\* Whatever fails, dies or is edited: an event is only told of what was on disk at one time,
\* a complete publication is told, and what was abandoned is absent for good (repair, abandon).
BoundTyped == bound \in BOOLEAN
THEOREM EventsTrue == Spec => []EventsSound
<1>1. RecordsInv /\ BoundTyped => EventsSound
  <2> SUFFICES ASSUME RecordsInv, BoundTyped PROVE EventsSound
    OBVIOUS
  <2>1. Typed /\ JournalInv
    BY DEF RecordsInv
  <2>2. TypeOK
    <3>1. /\ index.events \subseteq Ops /\ index.open \subseteq Ops
          /\ stale \in BOOLEAN /\ incomplete \in BOOLEAN
          /\ run.op \in Ops \union {Old} /\ run.todo \subseteq Records
      BY <2>1 DEF Typed, RunType, IndexType
    <3>2. \A o \in Ops : journal[o].state \in States
      BY <2>1 DEF Typed, JournalType
    <3>3. bound \in BOOLEAN
      BY DEF BoundTyped
    <3> QED BY <2>1, <3>1, <3>2, <3>3, Zenon DEF Typed, TypeOK, Contents
  <2>3. EventsTellTruth /\ AbandonedIsAbsent /\ CompleteIsTold
    BY <2>1 DEF JournalInv, EventsTellTruth, AbandonedIsAbsent, CompleteIsTold, Absent
  <2> QED BY <2>2, <2>3 DEF EventsSound
<1>2. Init => BoundTyped
  BY DEF Init, BoundTyped
<1>3. BoundTyped /\ [Next]_vars => BoundTyped'
  <2> SUFFICES ASSUME BoundTyped, [Next]_vars PROVE BoundTyped'
    OBVIOUS
  <2>1. CASE UNCHANGED bound
    BY <2>1 DEF BoundTyped
  <2>2. CASE Rebind
    BY <2>2, Zenon DEF Rebind, BoundTyped
  <2>3. UNCHANGED bound \/ Rebind
    BY DEF Next, Publishing, vars, World, Begin, Repair, Abandon, Cleanup, NativeWrite, AdmitNative,
       WriteRecord, RecordsWritten, Verify, WriteEvent, Project, Reconcile, Complete, Receipt, Scan,
       Refresh, Fail, Crash, Edit
  <2> QED BY <2>1, <2>2, <2>3
<1> QED BY <1>1, <1>2, <1>3, RecordsHold, PTL DEF Spec

-----------------------------------------------------------------------------
(* A late repair brings nothing back.                                        *)

\* The only steps that change a record are the writes of the call and their roll back.
LEMMA WritesOverTheCaptured ==
    ASSUME RelationshipsAssumption, RecordsInv, [Next]_vars, NEW r \in Records,
           At("records"), rec'[r] # rec[r], rec'[r] = run.op
    PROVE  rec[r] = journal[run.op].originals[r]
<1>0. Typed /\ JournalInv /\ RunInv
  BY DEF RecordsInv
<1>1. CASE WriteRecord
  BY <1>0, <1>1 DEF WriteRecord, At, RunInv
<1>2. CASE Fail
  <2>1. rec' = RolledBack
    BY <1>2 DEF Fail
  <2>2. /\ run.op \in Unresolved /\ r \in Writes[run.op] /\ run.op \in Ops
        /\ rec'[r] = journal[run.op].originals[r]
    BY <1>0, <2>1, TakenBack DEF RunInv, At
  <2> QED BY <1>0, <2>2 DEF JournalInv
<1>3. CASE rec' = rec
  BY <1>3
<1> QED
  BY <1>1, <1>2, <1>3
    DEF Next, Publishing, vars, Begin, Repair, Abandon, Cleanup, NativeWrite, AdmitNative,
     RecordsWritten, Verify, WriteEvent, Project, Reconcile, Complete, Receipt, Scan, Refresh, Crash, Edit, Rebind, files

LEMMA CleanedIsLeft ==
    ASSUME RecordsInv, [Next]_vars, NEW o \in Ops, event[o] = "cleaned"
    PROVE  event'[o] = "cleaned"
<1>0. Typed
  BY DEF RecordsInv
<1>1. CASE WriteEvent
  BY <1>0, <1>1 DEF WriteEvent, Typed
<1>2. ASSUME NEW p \in Ops, Cleanup(p)
      PROVE  event'[o] = "cleaned"
  BY <1>0, <1>2 DEF Cleanup
<1>3. CASE event' = event
  BY <1>3
<1> QED
  BY <1>1, <1>2, <1>3
    DEF Next, Publishing, vars, Begin, Repair, Abandon, NativeWrite, AdmitNative,
        WriteRecord,
     RecordsWritten, Verify, Project, Reconcile, Complete, Receipt, Scan, Refresh, Fail, Crash, Edit, Rebind, files

\* No publication and no repair writes over a record that changed since it was captured, and
\* an event that was cleaned up is not told again (repair).
THEOREM NothingComesBack == Spec => NothingRevived
<1>1. RecordsInv /\ [Next]_vars =>
        [\A r \in Records :
           At("records") /\ rec'[r] # rec[r] /\ rec'[r] = run.op => rec[r] = journal[run.op].originals[r]]_vars
  BY WritesOverTheCaptured, RelationshipsAssumption
<1>2. RecordsInv /\ [Next]_vars => [\A o \in Ops : event[o] = "cleaned" => event'[o] = "cleaned"]_vars
  BY CleanedIsLeft
<1> QED BY <1>1, <1>2, RecordsHold, PTL DEF Spec, NothingRevived, NewerStays, CleanedStays

-----------------------------------------------------------------------------
(* The index, as long as one operation at most has been left open.           *)

LEMMA BeginIndex ==
    ASSUME RelationshipsAssumption, RecordsInv, RecordsInv', LeftInv, IndexInv, NEW o \in Ops, Begin(o)
    PROVE  LeftInv' /\ IndexInv'
<1> USE RelationshipsAssumption
<1>0. Typed /\ JournalInv /\ RunInv /\ Typed' /\ JournalInv' /\ RunInv'
  BY DEF RecordsInv
<1>1. LeftInv'
  BY <1>0
    DEF LeftInv, Left, Interruptions, OneInterruption, Typed, JournalInv, RunInv, Begin,
        World, files, told, At, Take, None, JournalType, RunType, Ended, Unresolved
<1>2. IndexInv'
  BY <1>0
    DEF IndexInv, LeftInv, Left, Told, Interruptions, OneInterruption, Agrees, AgreesBut,
        Working, Typed, JournalInv, RunInv, Absent, Begin, World, files, told, At,
        Take, None, JournalType, RunType, IndexType, Ended, Unresolved
<1> QED BY <1>1, <1>2

LEMMA RepairIndex ==
    ASSUME RelationshipsAssumption, RecordsInv, RecordsInv', LeftInv, IndexInv, NEW o \in Ops, Repair(o)
    PROVE  LeftInv' /\ IndexInv'
<1> USE RelationshipsAssumption
<1>0. Typed /\ JournalInv /\ RunInv /\ Typed' /\ JournalInv' /\ RunInv'
  BY DEF RecordsInv
<1>1. LeftInv'
  BY <1>0
    DEF LeftInv, Left, Interruptions, OneInterruption, Typed, JournalInv, RunInv, Repair,
        World, files, told, At, Take, Restorable, Guards, JournalType, RunType, Ended,
        Unresolved
<1>2. IndexInv'
  BY <1>0
    DEF IndexInv, LeftInv, Left, Told, Interruptions, OneInterruption, Agrees, AgreesBut,
        Working, Typed, JournalInv, RunInv, Absent, Repair, World, files, told, At,
        Take, Restorable, Guards, JournalType, RunType, IndexType, Ended, Unresolved
<1> QED BY <1>1, <1>2

LEMMA AbandonIndex ==
    ASSUME RelationshipsAssumption, RecordsInv, RecordsInv', LeftInv, IndexInv, NEW o \in Ops, Abandon(o)
    PROVE  LeftInv' /\ IndexInv'
<1> USE RelationshipsAssumption
<1>0. Typed /\ JournalInv /\ RunInv /\ Typed' /\ JournalInv' /\ RunInv'
  BY DEF RecordsInv
<1>1. LeftInv'
  BY <1>0
    DEF LeftInv, Left, Interruptions, OneInterruption, Typed, JournalInv, RunInv, Abandon,
        World, files, told, At, Untouched, Free, Saved, None, JournalType, RunType,
        Ended, Unresolved
<1>2. IndexInv'
  BY <1>0
    DEF IndexInv, LeftInv, Left, Told, Interruptions, OneInterruption, Agrees, AgreesBut,
        Working, Typed, JournalInv, RunInv, Absent, Abandon, World, files, told, At,
        Untouched, Free, Saved, None, JournalType, RunType, IndexType, Ended, Unresolved
<1> QED BY <1>1, <1>2

LEMMA CleanupIndex ==
    ASSUME RelationshipsAssumption, RecordsInv, RecordsInv', LeftInv, IndexInv, NEW o \in Ops, Cleanup(o)
    PROVE  LeftInv' /\ IndexInv'
<1> USE RelationshipsAssumption
<1>0. Typed /\ JournalInv /\ RunInv /\ Typed' /\ JournalInv' /\ RunInv'
  BY DEF RecordsInv
<1>1. LeftInv'
  BY <1>0
    DEF LeftInv, Left, Interruptions, OneInterruption, Typed, JournalInv, RunInv, Cleanup,
        World, files, told, At, Captured, JournalType, RunType, Ended, Unresolved
<1>2. IndexInv'
  BY <1>0
    DEF IndexInv, LeftInv, Left, Told, Interruptions, OneInterruption, Agrees, AgreesBut,
        Working, Typed, JournalInv, RunInv, Absent, Cleanup, World, files, told, At,
        Captured, JournalType, RunType, IndexType, Ended, Unresolved
<1> QED BY <1>1, <1>2

LEMMA NativeWriteIndex ==
    ASSUME RelationshipsAssumption, RecordsInv, RecordsInv', LeftInv, IndexInv, NativeWrite
    PROVE  LeftInv' /\ IndexInv'
<1> USE RelationshipsAssumption
<1>0. Typed /\ JournalInv /\ RunInv /\ Typed' /\ JournalInv' /\ RunInv'
  BY DEF RecordsInv
<1>1. LeftInv'
  BY <1>0
    DEF LeftInv, Left, Interruptions, OneInterruption, Typed, JournalInv, RunInv,
        NativeWrite, World, files, told, At, Go, Free, JournalType, RunType, Ended,
        Unresolved
<1>2. IndexInv'
  BY <1>0
    DEF IndexInv, LeftInv, Left, Told, Interruptions, OneInterruption, Agrees, AgreesBut,
        Working, Typed, JournalInv, RunInv, Absent, NativeWrite, World, files, told,
        At, Go, Free, JournalType, RunType, IndexType, Ended, Unresolved
<1> QED BY <1>1, <1>2

LEMMA AdmitNativeIndex ==
    ASSUME RelationshipsAssumption, RecordsInv, RecordsInv', LeftInv, IndexInv, AdmitNative
    PROVE  LeftInv' /\ IndexInv'
<1> USE RelationshipsAssumption
<1>0. Typed /\ JournalInv /\ RunInv /\ Typed' /\ JournalInv' /\ RunInv'
  BY DEF RecordsInv
<1>1. LeftInv'
  BY <1>0
    DEF LeftInv, Left, Interruptions, OneInterruption, Typed, JournalInv, RunInv,
        AdmitNative, World, files, told, At, Go, Saved, JournalType, RunType, Ended,
        Unresolved
<1>2. IndexInv'
  BY <1>0
    DEF IndexInv, LeftInv, Left, Told, Interruptions, OneInterruption, Agrees, AgreesBut,
        Working, Typed, JournalInv, RunInv, Absent, AdmitNative, World, files, told,
        At, Go, Saved, JournalType, RunType, IndexType, Ended, Unresolved
<1> QED BY <1>1, <1>2

LEMMA WriteRecordIndex ==
    ASSUME RelationshipsAssumption, RecordsInv, RecordsInv', LeftInv, IndexInv, WriteRecord
    PROVE  LeftInv' /\ IndexInv'
<1> USE RelationshipsAssumption
<1>0. Typed /\ JournalInv /\ RunInv /\ Typed' /\ JournalInv' /\ RunInv'
  BY DEF RecordsInv
<1>1. LeftInv'
  BY <1>0
    DEF LeftInv, Left, Interruptions, OneInterruption, Typed, JournalInv, RunInv,
        WriteRecord, World, files, told, At, Happens, JournalType, RunType, Ended,
        Unresolved
<1>2. IndexInv'
  BY <1>0
    DEF IndexInv, LeftInv, Left, Told, Interruptions, OneInterruption, Agrees, AgreesBut,
        Working, Typed, JournalInv, RunInv, Absent, WriteRecord, World, files, told,
        At, Happens, JournalType, RunType, IndexType, Ended, Unresolved
<1> QED BY <1>1, <1>2

LEMMA RecordsWrittenIndex ==
    ASSUME RelationshipsAssumption, RecordsInv, RecordsInv', LeftInv, IndexInv, RecordsWritten
    PROVE  LeftInv' /\ IndexInv'
<1> USE RelationshipsAssumption
<1>0. Typed /\ JournalInv /\ RunInv /\ Typed' /\ JournalInv' /\ RunInv'
  BY DEF RecordsInv
<1>1. LeftInv'
  BY <1>0
    DEF LeftInv, Left, Interruptions, OneInterruption, Typed, JournalInv, RunInv,
        RecordsWritten, World, files, told, At, Go, Saved, JournalType, RunType, Ended,
        Unresolved
<1>2. IndexInv'
  <2>1. /\ run.pc = "records" /\ run.op \in Unresolved /\ run' \in RunType /\ run'.op = run.op
        /\ run'.pc \in {"verify", "event"} /\ stale' = (IF run.repair THEN stale ELSE TRUE)
    BY <1>0, GoRun DEF RecordsWritten, At, PCs, Typed, RunInv
  <2>2. \/ journal' = journal
        \/ /\ \A p \in Ops \ {run.op} : journal'[p] = journal[p]
           /\ journal'[run.op].state = "state-committed"
           /\ journal'[run.op].originals = journal[run.op].originals
    BY <1>0, SavedJournal DEF RecordsWritten, States, Ended, RunInv, At
  <2>3. /\ Unresolved' = Unresolved /\ Unresolved \subseteq Ops
        /\ \A o \in Ops : journal'[o].originals = journal[o].originals
    BY <1>0, <2>1, <2>2 DEF Unresolved, Ended
  <2>4. /\ rec' = rec /\ event' = event /\ index' = index /\ incomplete' = incomplete
        /\ faults' = faults /\ crashes' = crashes /\ edits' = edits
    BY DEF RecordsWritten, World
  <2>5. Told' = Told
    BY <2>4 DEF Told
  <2> QED BY <1>0, <2>1, <2>3, <2>4, <2>5 DEF IndexInv, OneInterruption, Agrees, AgreesBut, Working
<1> QED BY <1>1, <1>2

LEMMA VerifyIndex ==
    ASSUME RelationshipsAssumption, RecordsInv, RecordsInv', LeftInv, IndexInv, Verify
    PROVE  LeftInv' /\ IndexInv'
<1> USE RelationshipsAssumption
<1>0. Typed /\ JournalInv /\ RunInv /\ Typed' /\ JournalInv' /\ RunInv'
  BY DEF RecordsInv
<1>1. LeftInv'
  BY <1>0
    DEF LeftInv, Left, Interruptions, OneInterruption, Typed, JournalInv, RunInv, Verify,
        World, files, told, At, Go, Free, Images, JournalType, RunType, Ended,
        Unresolved
<1>2. IndexInv'
  BY <1>0
    DEF IndexInv, LeftInv, Left, Told, Interruptions, OneInterruption, Agrees, AgreesBut,
        Working, Typed, JournalInv, RunInv, Absent, Verify, World, files, told, At, Go,
        Free, Images, JournalType, RunType, IndexType, Ended, Unresolved
<1> QED BY <1>1, <1>2

LEMMA WriteEventIndex ==
    ASSUME RelationshipsAssumption, RecordsInv, RecordsInv', LeftInv, IndexInv, WriteEvent
    PROVE  LeftInv' /\ IndexInv'
<1> USE RelationshipsAssumption
<1>0. Typed /\ JournalInv /\ RunInv /\ Typed' /\ JournalInv' /\ RunInv'
  BY DEF RecordsInv
<1>a. /\ run.pc = "event" /\ run.op \in Ops /\ run.op \in Unresolved /\ run.op \in happened
      /\ UNCHANGED <<rec, doc, journal, index, incomplete, shown, happened, faults, crashes, edits>>
      /\ run' \in RunType
      /\ \/ /\ run'.pc = "project" /\ event' = [event EXCEPT ![run.op] = "written"] /\ stale' = TRUE
            /\ event[run.op] # "cleaned"
            /\ run'.op = run.op /\ run'.todo = run.todo /\ run'.repair = run.repair
         \/ /\ run' = Free /\ UNCHANGED <<event, stale>>
            /\ run.repair \/ event[run.op] = "cleaned"
  BY <1>0, GoRun, FreeRun DEF WriteEvent, Locates, World, told, At, PCs, Typed, RunInv
<1>1. LeftInv'
  BY <1>0, <1>a
    DEF LeftInv, IndexInv, Left, Interruptions, OneInterruption, Typed, Free, RunType, Unresolved
<1>2. IndexInv'
  <2>1. CASE run'.pc = "project"
    BY <1>0, <1>a, <2>1
      DEF IndexInv, LeftInv, Left, Told, Interruptions, OneInterruption, Agrees, AgreesBut,
          Working, Typed, RunInv, JournalType, RunType, IndexType, Ended, Unresolved
  <2>2. CASE run' = Free /\ UNCHANGED <<event, stale>>
    BY <1>0, <1>a, <2>2
      DEF IndexInv, LeftInv, Left, Told, Interruptions, OneInterruption, Agrees, AgreesBut,
          Working, Typed, RunInv, Free, JournalType, RunType, IndexType, Ended, Unresolved
  <2> QED BY <1>a, <2>1, <2>2
<1> QED BY <1>1, <1>2

LEMMA ProjectIndex ==
    ASSUME RelationshipsAssumption, RecordsInv, RecordsInv', LeftInv, IndexInv, Project
    PROVE  LeftInv' /\ IndexInv'
<1> USE RelationshipsAssumption
<1>0. Typed /\ JournalInv /\ RunInv /\ Typed' /\ JournalInv' /\ RunInv'
  BY DEF RecordsInv
<1>1. LeftInv'
  BY <1>0
    DEF LeftInv, Left, Interruptions, OneInterruption, Typed, JournalInv, RunInv, Project,
        World, files, told, At, Go, Saved, JournalType, RunType, Ended, Unresolved
<1>2. IndexInv'
  BY <1>0
    DEF IndexInv, LeftInv, Left, Told, Interruptions, OneInterruption, Agrees, AgreesBut,
        Working, Typed, JournalInv, RunInv, Absent, Project, World, files, told, At,
        Go, Saved, JournalType, RunType, IndexType, Ended, Unresolved
<1> QED BY <1>1, <1>2

LEMMA ReconcileIndex ==
    ASSUME RelationshipsAssumption, RecordsInv, RecordsInv', LeftInv, IndexInv, Reconcile
    PROVE  LeftInv' /\ IndexInv'
<1> USE RelationshipsAssumption
<1>0. Typed /\ JournalInv /\ RunInv /\ Typed' /\ JournalInv' /\ RunInv'
  BY DEF RecordsInv
<1>1. LeftInv'
  BY <1>0
    DEF LeftInv, Left, Interruptions, OneInterruption, Typed, JournalInv, RunInv,
        Reconcile, World, files, told, At, Go, JournalType, RunType, Ended, Unresolved
<1>2. IndexInv'
  BY <1>0
    DEF IndexInv, LeftInv, Left, Told, Interruptions, OneInterruption, Agrees, AgreesBut,
        Working, Typed, JournalInv, RunInv, Absent, Reconcile, World, files, told, At,
        Go, JournalType, RunType, IndexType, Ended, Unresolved
<1> QED BY <1>1, <1>2

LEMMA CompleteIndex ==
    ASSUME RelationshipsAssumption, RecordsInv, RecordsInv', LeftInv, IndexInv, Complete
    PROVE  LeftInv' /\ IndexInv'
<1> USE RelationshipsAssumption
<1>0. Typed /\ JournalInv /\ RunInv /\ Typed' /\ JournalInv' /\ RunInv'
  BY DEF RecordsInv
<1>1. LeftInv'
  BY <1>0
    DEF LeftInv, Left, Interruptions, OneInterruption, Typed, JournalInv, RunInv,
        Complete, World, files, told, At, Go, Saved, None, JournalType, RunType, Ended,
        Unresolved
<1>2. IndexInv'
  BY <1>0
    DEF IndexInv, LeftInv, Left, Told, Interruptions, OneInterruption, Agrees, AgreesBut,
        Working, Typed, JournalInv, RunInv, Absent, Complete, World, files, told, At,
        Go, Saved, None, JournalType, RunType, IndexType, Ended, Unresolved
<1> QED BY <1>1, <1>2

LEMMA ReceiptIndex ==
    ASSUME RelationshipsAssumption, RecordsInv, RecordsInv', LeftInv, IndexInv, Receipt
    PROVE  LeftInv' /\ IndexInv'
<1> USE RelationshipsAssumption
<1>0. Typed /\ JournalInv /\ RunInv /\ Typed' /\ JournalInv' /\ RunInv'
  BY DEF RecordsInv
<1>a. /\ run.pc = "receipt" /\ run.op \in Ops /\ journal[run.op].state \in {"complete", "abandoned"}
      /\ run' = Free /\ UNCHANGED <<doc, journal, faults, crashes, edits>>
  BY <1>0 DEF Receipt, World, files, At, RunInv
<1>1. LeftInv'
  <2>1. Left' = Left
    BY <1>a DEF Left, Unresolved, Ended, Free
  <2> QED BY <1>a, <2>1 DEF LeftInv, Interruptions, OneInterruption, Free
<1>2. IndexInv'
  BY <1>0
    DEF IndexInv, LeftInv, Left, Told, Interruptions, OneInterruption, Agrees, AgreesBut,
        Working, Typed, JournalInv, RunInv, Absent, Receipt, World, files, told, At,
        Free, JournalType, RunType, IndexType, Ended, Unresolved
<1> QED BY <1>1, <1>2

LEMMA ScanIndex ==
    ASSUME RelationshipsAssumption, RecordsInv, RecordsInv', LeftInv, IndexInv, Scan
    PROVE  LeftInv' /\ IndexInv'
<1> USE RelationshipsAssumption
<1>0. Typed /\ JournalInv /\ RunInv /\ Typed' /\ JournalInv' /\ RunInv'
  BY DEF RecordsInv
<1>1. LeftInv'
  BY <1>0
    DEF LeftInv, Left, Interruptions, OneInterruption, Typed, JournalInv, RunInv, Scan,
        World, files, told, At, Free, JournalType, RunType, Ended, Unresolved
<1>2. IndexInv'
  <2>1. /\ index'.rec = rec' /\ index'.open = Unresolved' /\ index'.events = Told'
        /\ ~stale' /\ ~incomplete' /\ run'.pc = "free" /\ rec' = rec /\ event' = event /\ journal' = journal
    BY <1>0 DEF Scan, files, Free, Told, Unresolved
  <2>2. Agrees' /\ ~Working'
    BY <2>1 DEF Agrees, Working
  <2>3. \A o \in Ops : AgreesBut(o)'
    BY <2>2 DEF Agrees, AgreesBut
  <2>4. Unresolved' = Unresolved /\ (OneInterruption' => OneInterruption) /\ event' = event
    BY <2>1 DEF OneInterruption, Scan, World
  <2> QED BY <2>1, <2>2, <2>3, <2>4 DEF IndexInv, Unresolved
<1> QED BY <1>1, <1>2

LEMMA RefreshIndex ==
    ASSUME RelationshipsAssumption, RecordsInv, RecordsInv', LeftInv, IndexInv, Refresh
    PROVE  LeftInv' /\ IndexInv'
<1> USE RelationshipsAssumption
<1>0. Typed /\ JournalInv /\ RunInv /\ Typed' /\ JournalInv' /\ RunInv'
  BY DEF RecordsInv
<1>1. LeftInv'
  BY <1>0
    DEF LeftInv, Left, Interruptions, OneInterruption, Typed, JournalInv, RunInv, Refresh,
        World, files, told, At, Free, EmptyIndex, JournalType, RunType, Ended,
        Unresolved
<1>2. IndexInv'
  BY <1>0
    DEF IndexInv, LeftInv, Left, Told, Interruptions, OneInterruption, Agrees, AgreesBut,
        Working, Typed, JournalInv, RunInv, Absent, Refresh, World, files, told, At,
        Free, EmptyIndex, JournalType, RunType, IndexType, Ended, Unresolved
<1> QED BY <1>1, <1>2

LEMMA FailIndex ==
    ASSUME RelationshipsAssumption, RecordsInv, RecordsInv', LeftInv, IndexInv, Fail
    PROVE  LeftInv' /\ IndexInv'
<1> USE RelationshipsAssumption
<1>0. Typed /\ JournalInv /\ RunInv /\ Typed' /\ JournalInv' /\ RunInv'
  BY DEF RecordsInv
<1>1. LeftInv'
  BY <1>0
    DEF LeftInv, Left, Interruptions, OneInterruption, Typed, JournalInv, RunInv, Fail,
        World, files, told, At, Free, RolledBack, JournalType, RunType, Ended,
        Unresolved
<1>2. IndexInv'
  BY <1>0
    DEF IndexInv, LeftInv, Left, Told, Interruptions, OneInterruption, Agrees, AgreesBut,
        Working, Typed, JournalInv, RunInv, Absent, Fail, World, files, told, At, Free,
        RolledBack, JournalType, RunType, IndexType, Ended, Unresolved, States
<1> QED BY <1>1, <1>2

LEMMA CrashIndex ==
    ASSUME RelationshipsAssumption, RecordsInv, RecordsInv', LeftInv, IndexInv, Crash
    PROVE  LeftInv' /\ IndexInv'
<1> USE RelationshipsAssumption
<1>0. Typed /\ JournalInv /\ RunInv /\ Typed' /\ JournalInv' /\ RunInv'
  BY DEF RecordsInv
<1>1. LeftInv'
  BY <1>0
    DEF LeftInv, Left, Interruptions, OneInterruption, Typed, JournalInv, RunInv, Crash,
        World, files, told, At, Free, JournalType, RunType, Ended, Unresolved
<1>2. IndexInv'
  BY <1>0
    DEF IndexInv, LeftInv, Left, Told, Interruptions, OneInterruption, Agrees, AgreesBut,
        Working, Typed, JournalInv, RunInv, Absent, Crash, World, files, told, At,
        Free, JournalType, RunType, IndexType, Ended, Unresolved
<1> QED BY <1>1, <1>2

LEMMA EditIndex ==
    ASSUME RelationshipsAssumption, RecordsInv, RecordsInv', LeftInv, IndexInv, Edit
    PROVE  LeftInv' /\ IndexInv'
<1> USE RelationshipsAssumption
<1>0. Typed /\ JournalInv /\ RunInv /\ Typed' /\ JournalInv' /\ RunInv'
  BY DEF RecordsInv
<1>1. LeftInv'
  BY <1>0
    DEF LeftInv, Left, Interruptions, OneInterruption, Typed, JournalInv, RunInv, Edit,
        World, files, told, At, JournalType, RunType, Ended, Unresolved
<1>2. IndexInv'
  BY <1>0
    DEF IndexInv, LeftInv, Left, Told, Interruptions, OneInterruption, Agrees, AgreesBut,
        Working, Typed, JournalInv, RunInv, Absent, Edit, World, files, told, At,
        JournalType, RunType, IndexType, Ended, Unresolved, States
<1> QED BY <1>1, <1>2

LEMMA InitIndex ==
    ASSUME RelationshipsAssumption, Init
    PROVE  LeftInv /\ IndexInv
<1>1. Unresolved = {} /\ Told = {}
  BY DEF Init, Unresolved, Told, Ended, None
<1>2. LeftInv
  BY <1>1, FreeRun DEF Init, LeftInv, Left
<1>3. Agrees
  BY <1>1 DEF Init, Agrees, EmptyIndex
<1>4. IndexInv
  BY <1>1, <1>3, FreeRun DEF Init, IndexInv, EmptyIndex, Working
<1> QED BY <1>2, <1>4

LEMMA NextIndex ==
    ASSUME RelationshipsAssumption, RecordsInv, RecordsInv', LeftInv, IndexInv, [Next]_vars
    PROVE  LeftInv' /\ IndexInv'
<1>1. ASSUME NEW o \in Ops, Begin(o) \/ Repair(o) \/ Abandon(o) \/ Cleanup(o)
      PROVE  LeftInv' /\ IndexInv'
  BY <1>1, BeginIndex, RepairIndex, AbandonIndex, CleanupIndex
<1>2. CASE Publishing
  BY <1>2, NativeWriteIndex, AdmitNativeIndex, WriteRecordIndex, RecordsWrittenIndex,
      VerifyIndex, WriteEventIndex,
     ProjectIndex, ReconcileIndex, CompleteIndex, ReceiptIndex, ScanIndex DEF Publishing
<1>3. CASE Refresh \/ Fail \/ Crash \/ Edit
  BY <1>3, RefreshIndex, FailIndex, CrashIndex, EditIndex
<1>4. CASE Rebind \/ UNCHANGED vars
  <2>1. UNCHANGED allButBound
    BY <1>4 DEF Rebind, vars, files, told, allButBound
  <2> QED BY <2>1
    DEF allButBound, LeftInv, IndexInv, Left, Told, Interruptions, OneInterruption, Agrees,
        AgreesBut, Working, Unresolved
<1> QED BY <1>1, <1>2, <1>3, <1>4 DEF Next

\* As long as one operation at most was left open, an index that counts as fresh agrees with
\* the files, and the event of an open publication is not cleaned up (generation).
THEOREM IndexBelieved == Spec => []IndexServes
<1>1. Init => LeftInv /\ IndexInv
  BY RelationshipsAssumption, InitIndex
<1>2. RecordsInv /\ RecordsInv' /\ (LeftInv /\ IndexInv) /\ [Next]_vars => (LeftInv /\ IndexInv)'
  BY RelationshipsAssumption, NextIndex
<1>3. IndexInv => IndexServes
  BY DEF IndexInv, IndexServes, FreshMeansIndexed, CapturedStays, Agrees, Told
<1> QED BY <1>1, <1>2, <1>3, RecordsHold, PTL DEF Spec
=============================================================================
