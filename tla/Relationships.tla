----------------------------- MODULE Relationships -----------------------------
(* The publication of relationship records and events, and its repair        *)
(* (_relationships/storage.py, _application/relationship): an operation      *)
(* writes its journal, its records, its event and its rows of the index, one *)
(* after the other.  Any write may fail and the process may die between two; *)
(* repair completes what has happened, abandonment ends what has not.  All   *)
(* of them hold the vault's mutation lock; edits by others do not.           *)
EXTENDS Naturals, FiniteSets

CONSTANTS Ops, Records,
          Writes,      \* Writes[o]: the records that operation o changes
          Native,      \* the operations that accompany a change of a document
          Mentions,    \* Mentions[o]: the endpoint records its event refers to
          Old, Edited, \* contents of a record or of the document that no operation made
          MaxFaults, MaxCrashes, MaxEdits    \* bounds

ASSUME RelationshipsAssumption ==
    /\ IsFiniteSet(Ops) /\ IsFiniteSet(Records) /\ Native \subseteq Ops
    /\ Writes \in [Ops -> (SUBSET Records) \ {{}}] /\ Mentions \in [Ops -> SUBSET Records]
    /\ {Old, Edited} \intersect Ops = {} /\ Old # Edited
    /\ MaxFaults \in Nat /\ MaxCrashes \in Nat /\ MaxEdits \in Nat

VARIABLES rec,       \* rec[r]: the operation whose image of record r is on disk, or Old
          doc,       \* the operation whose content the document has, Old or Edited
          journal,   \* journal[o]: its state and what it captured
          event,     \* event[o]: "none", "written" or "cleaned"
          index,     \* what the index holds of records, events and open journals
          stale,     \* the stamps of the directories differ from those in the index
          incomplete, \* a rebuild of the index was begun and not finished
          run,       \* the call that holds the lock: whose it is and where
          shown,     \* the operations whose document was on disk at some time
          happened,  \* those whose records then were on disk all at one time
          bound,     \* can each endpoint that an event mentions be told from the others?
          faults, crashes, edits

vars == <<rec, doc, journal, event, index, stale, incomplete, run, shown, happened, bound, faults, crashes, edits>>
files == <<rec, doc, journal, event>>
told == <<shown, happened>>

None == [state |-> "none", originals |-> << >>, before |-> Old]
Free == [op |-> Old, pc |-> "free", todo |-> {}, repair |-> FALSE]
EmptyIndex == [rec |-> [r \in Records |-> Old], events |-> {}, open |-> {}]

Init ==
    /\ rec = [r \in Records |-> Old] /\ doc = Old /\ journal = [o \in Ops |-> None]
    /\ event = [o \in Ops |-> "none"] /\ index = EmptyIndex /\ stale = FALSE /\ incomplete = FALSE
    /\ run = Free /\ shown = {} /\ happened = {} /\ bound = TRUE /\ faults = 0 /\ crashes = 0 /\ edits = 0

Ended == {"none", "complete", "abandoned"}
Unresolved == {o \in Ops : journal[o].state \notin Ended}
Images(o) == \A r \in Writes[o] : rec[r] = o
Guards(o) == o \in Native => doc = o

At(pc) == run.pc = pc
Go(pc) == run' = [run EXCEPT !.pc = pc]
Take(o, pc, repair) == run' = [op |-> o, pc |-> pc, todo |-> Writes[o], repair |-> repair]
World == UNCHANGED <<bound, faults, crashes, edits>>

\* The journal is written; what has ended keeps nothing of what it captured.
Saved(o, state) ==
    journal' = [journal EXCEPT ![o] = [(IF state \in Ended THEN None ELSE @) EXCEPT !.state = state]]
Happens ==
    happened' = happened \union
        {o \in Ops : (\A r \in Writes[o] : rec'[r] = o) /\ (o \in Native => o \in shown)}

----------------------------------------------------------------------------
(* A mutation: planned from records that are read under the lock, refused    *)
(* when the index is not up to date.                                         *)
\* Whatever is written changes the stamp of its directory.
\* Mutant: the state of the index is not looked at.
Begin_Stale(o) ==
    /\ At("free") /\ journal[o].state = "none"
    /\ Take(o, IF o \in Native THEN "native" ELSE "records", FALSE)
    /\ journal' = [journal EXCEPT ![o] = [state |-> IF o \in Native THEN "native-pending" ELSE "pending",
                                          originals |-> [r \in Writes[o] |-> rec[r]], before |-> doc]]
    /\ stale' = TRUE /\ UNCHANGED <<rec, doc, event, index, incomplete, told>> /\ World

Begin(o) ==
    /\ At("free") /\ journal[o].state = "none" /\ ~ stale /\ ~ incomplete
    /\ Take(o, IF o \in Native THEN "native" ELSE "records", FALSE)
    /\ journal' = [journal EXCEPT ![o] = [state |-> IF o \in Native THEN "native-pending" ELSE "pending",
                                          originals |-> [r \in Writes[o] |-> rec[r]], before |-> doc]]
    /\ stale' = TRUE /\ UNCHANGED <<rec, doc, event, index, incomplete, told>> /\ World

\* The document is changed by its own owner, unless it has been edited.
NativeWrite ==
    /\ At("native")
    /\ IF doc = journal[run.op].before
          THEN doc' = run.op /\ shown' = shown \union {run.op} /\ Go("admit")
          ELSE UNCHANGED <<doc, shown>> /\ run' = Free
    /\ UNCHANGED <<rec, journal, event, index, stale, incomplete, happened>> /\ World

\* publish: the captured before-state is kept when the journal is written again.
AdmitNative ==
    /\ At("admit") /\ Saved(run.op, "pending") /\ stale' = TRUE /\ Go("records")
    /\ UNCHANGED <<rec, doc, event, index, incomplete, told>> /\ World

\* One file of a file transaction after the other.
WriteRecord ==
    /\ At("records") /\ run.todo # {}
    /\ \E r \in run.todo :
          /\ rec' = [rec EXCEPT ![r] = run.op] /\ run' = [run EXCEPT !.todo = @ \ {r}]
    /\ stale' = TRUE /\ Happens
    /\ UNCHANGED <<doc, journal, event, index, incomplete, shown>> /\ World

RecordsWritten ==
    /\ At("records") /\ run.todo = {}
    /\ IF run.repair THEN Go("verify") /\ UNCHANGED <<journal, stale>>
       ELSE Saved(run.op, "state-committed") /\ stale' = TRUE /\ Go("event")
    /\ UNCHANGED <<rec, doc, event, index, incomplete, told>> /\ World

\* _current_event_locators: a repair that misses the event brings the endpoints it
\* mentions up to date, from rows of the index.  It refuses a row of another record
\* than the one on disk; of what no operation has written there may be no row.
Locates == run.repair /\ event[run.op] = "none"
Refusable == ~ bound \/ \E r \in Mentions[run.op] : index.rec[r] # rec[r]
Located == bound /\ \A r \in Mentions[run.op] : index.rec[r] \in {Old, rec[r]}

\* A repair finds the event there, or another content under its identity.
WriteEvent ==
    /\ At("event")
    /\ \/ /\ event[run.op] = "cleaned" \/ (Locates /\ Refusable)
          /\ run' = Free /\ UNCHANGED <<event, stale>>
       \/ /\ event[run.op] # "cleaned" /\ (Locates => Located)
          /\ event' = [event EXCEPT ![run.op] = "written"] /\ stale' = TRUE /\ Go("project")
    /\ UNCHANGED <<rec, doc, journal, index, incomplete, told>> /\ World

Project ==
    /\ At("project") /\ Saved(run.op, "projection-pending") /\ stale' = TRUE /\ Go("reconcile")
    /\ UNCHANGED <<rec, doc, event, index, incomplete, told>> /\ World

\* reconcile: the rows of this operation, and the stamps of all directories.
Reconcile ==
    /\ At("reconcile") /\ Go("complete") /\ stale' = FALSE
    /\ index' = [rec |-> [r \in Records |-> (IF r \in Writes[run.op] THEN rec ELSE index.rec)[r]],
                 events |-> index.events \union {run.op}, open |-> index.open \union {run.op}]
    /\ UNCHANGED <<files, incomplete, told>> /\ World

Complete ==
    /\ At("complete") /\ Saved(run.op, "complete") /\ stale' = TRUE /\ Go("receipt")
    /\ UNCHANGED <<rec, doc, event, index, incomplete, told>> /\ World

Receipt ==
    /\ At("receipt") /\ stale' = FALSE /\ run' = Free /\ index' = [index EXCEPT !.open = @ \ {run.op}]
    /\ UNCHANGED <<files, incomplete, told>> /\ World

----------------------------------------------------------------------------
(* Repair: what has been committed is completed; before that, only what can  *)
(* be proved to be this operation's.                                         *)

\* Mutant: the records are written again without a look at what they hold now.
Restorable_Always(o) == TRUE
\* No record that is to be written has changed since it was captured.
Restorable(o) == \A r \in Writes[o] : rec[r] \in {o, journal[o].originals[r]}

\* Mutant: the marker of a committed state is no proof.
Repair_Verified(o) ==
    /\ At("free") /\ o \in Unresolved /\ Take(o, "verify", TRUE)
    /\ UNCHANGED <<files, index, stale, incomplete, told>> /\ World

Repair(o) ==
    /\ At("free") /\ o \in Unresolved
    /\ \/ journal[o].state \in {"state-committed", "projection-pending"} /\ Take(o, "event", TRUE)
       \/ journal[o].state \in {"native-pending", "pending"} /\ o \notin Native /\ Take(o, "verify", TRUE)
       \/ /\ journal[o].state \in {"native-pending", "pending"} /\ o \in Native
          /\ Guards(o) /\ Restorable(o) /\ Take(o, "records", TRUE)
    /\ UNCHANGED <<files, index, stale, incomplete, told>> /\ World

\* Mutant: the journal is taken as the proof.
Verify_Trust ==
    /\ At("verify") /\ Go("event")
    /\ UNCHANGED <<files, index, stale, incomplete, told>> /\ World

Verify ==
    /\ At("verify") /\ IF Images(run.op) THEN Go("event") ELSE run' = Free
    /\ UNCHANGED <<files, index, stale, incomplete, told>> /\ World

\* The exact before-state is still there.
Untouched(o) ==
    /\ event[o] = "none" /\ \A r \in Writes[o] : rec[r] = journal[o].originals[r]
    /\ o \in Native => doc = journal[o].before

Abandon(o) ==
    /\ At("free") /\ o \in Unresolved /\ Untouched(o)
    /\ Saved(o, "abandoned") /\ stale' = TRUE /\ run' = [Free EXCEPT !.op = o, !.pc = "receipt"]
    /\ UNCHANGED <<rec, doc, event, index, incomplete, told>> /\ World

----------------------------------------------------------------------------
\* refresh: everything is forgotten, then read again.
Refresh ==
    /\ At("free") /\ (stale \/ incomplete)
    /\ index' = EmptyIndex /\ incomplete' = TRUE /\ run' = [Free EXCEPT !.pc = "scan"]
    /\ UNCHANGED <<files, stale, told>> /\ World

Scan ==
    /\ At("scan") /\ stale' = FALSE /\ incomplete' = FALSE /\ run' = Free
    /\ index' = [rec |-> rec, events |-> {o \in Ops : event[o] # "none"}, open |-> Unresolved]
    /\ UNCHANGED <<files, told>> /\ World

\* The index says that an open publication has captured the event.
Captured(o) == o \in index.open

\* history.cleanup of one event; its own publication is not interrupted here.
Cleanup(o) ==
    /\ At("free") /\ ~ stale /\ ~ incomplete /\ event[o] = "written" /\ ~ Captured(o)
    /\ event' = [event EXCEPT ![o] = "cleaned"] /\ index' = [index EXCEPT !.events = @ \union {o}]
    /\ UNCHANGED <<rec, doc, journal, stale, incomplete, run, told>> /\ World

----------------------------------------------------------------------------
\* A write of several records that fails takes back what it has written.
RolledBack ==
    IF At("records") THEN [r \in Records |-> IF r \in Writes[run.op] \ run.todo /\ ~ run.repair
                                                THEN journal[run.op].originals[r] ELSE rec[r]]
    ELSE rec
Fail ==
    /\ ~ At("free") /\ faults < MaxFaults /\ faults' = faults + 1
    /\ run' = Free /\ rec' = RolledBack
    /\ UNCHANGED <<doc, journal, event, index, stale, incomplete, told, bound, crashes, edits>>

Crash ==
    /\ ~ At("free") /\ crashes < MaxCrashes /\ crashes' = crashes + 1 /\ run' = Free
    /\ UNCHANGED <<files, index, stale, incomplete, told, bound, faults, edits>>

\* The document is also changed by its reader, at any time.
Edit ==
    /\ edits < MaxEdits /\ edits' = edits + 1 /\ doc' = Edited
    /\ UNCHANGED <<rec, journal, event, index, stale, incomplete, run, told, bound, faults, crashes>>

\* Which bindings the endpoints have is not followed: they may fail to be told apart.
Rebind ==
    /\ bound' = ~ bound
    /\ UNCHANGED <<files, index, stale, incomplete, run, told, faults, crashes, edits>>

Publishing ==
    \/ NativeWrite \/ AdmitNative \/ WriteRecord \/ RecordsWritten \/ Verify \/ WriteEvent \/ Project
    \/ Reconcile \/ Complete \/ Receipt \/ Scan
Next ==
    \/ \E o \in Ops : Begin(o) \/ Repair(o) \/ Abandon(o) \/ Cleanup(o)
    \/ Publishing \/ Refresh \/ Fail \/ Crash \/ Edit \/ Rebind
Spec == Init /\ [][Next]_vars
\* A call goes on; the operator repairs every operation that is reported, again
\* when that is interrupted, and refreshes the index that a repair refuses.
FairSpec ==
    Spec /\ WF_vars(Publishing) /\ SF_vars(Refresh) /\ \A o \in Ops : WF_vars(Repair(o))
----------------------------------------------------------------------------
States ==
    {"none", "native-pending", "pending", "state-committed", "projection-pending", "complete", "abandoned"}
TypeOK ==
    /\ rec \in [Records -> Ops \union {Old}] /\ doc \in Ops \union {Old, Edited}
    /\ \A o \in Ops :
          /\ journal[o].state \in States
          /\ DOMAIN journal[o].originals = (IF o \in Unresolved THEN Writes[o] ELSE {})
    /\ event \in [Ops -> {"none", "written", "cleaned"}]
    /\ index.events \subseteq Ops /\ index.open \subseteq Ops /\ stale \in BOOLEAN /\ incomplete \in BOOLEAN
    /\ bound \in BOOLEAN /\ run.op \in Ops \union {Old} /\ run.todo \subseteq Records /\ happened \subseteq Ops

\* An event is only ever told of something that happened: all of its records,
\* and the document it accompanies, were on disk at one time (repair, :390).
EventsTellTruth == \A o \in Ops : event[o] # "none" => o \in happened

\* What was abandoned left nothing behind and never comes back (abandon, :452).
AbandonedIsAbsent ==
    \A o \in Ops : journal[o].state = "abandoned" =>
        event[o] = "none" /\ doc # o /\ \A r \in Records : rec[r] # o

\* No step, of a publication or of its repair, writes over a record that has
\* changed since the operation captured it (repair, :400).
NewerStays ==
    [][\A r \in Records :
          At("records") /\ rec'[r] # rec[r] /\ rec'[r] = run.op => rec[r] = journal[run.op].originals[r]]_vars

\* An event that was cleaned up is not told again by a repair that comes late
\* (repair, :423).
CleanedStays == [][\A o \in Ops : event[o] = "cleaned" => event'[o] = "cleaned"]_vars

\* After a complete publication the event is told, or was told and cleaned.
CompleteIsTold == \A o \in Ops : journal[o].state = "complete" => event[o] # "none" /\ o \in happened

\* An operation is left open by a failure, a death, or an edit that keeps it from changing
\* its document; two of them may leave two operations open at the same time.
OneInterruption == faults + crashes + edits <= 1

\* Between calls, an index that counts as fresh agrees with the records on disk as long as
\* one operation at most has been left open (generation, :205).
FreshMeansIndexed ==
    OneInterruption /\ At("free") /\ ~ stale /\ ~ incomplete =>
        /\ index.rec = rec /\ index.open = Unresolved /\ index.events = {o \in Ops : event[o] # "none"}

\* The event of a publication that is still open is not cleaned up, with the same limit
\* (standards/semantic-relationships.md:242, "cannot be cleaned up").
CapturedStays == OneInterruption => \A o \in Unresolved : event[o] # "cleaned"

\* What is durably committed is told in the end, although the process dies or a write
\* fails, when its repair is asked for again, and a refresh whenever it refuses for the
\* index, as long as the endpoints can be told apart (repair, :386; checked, :265).
CommittedIsTold ==
    \A o \in Ops : journal[o].state = "state-committed" ~>
        journal[o].state = "complete" \/ ~ OneInterruption \/ ~ bound

\* Events, records and journals fit each other (publish, repair, abandon).
EventsSound == TypeOK /\ EventsTellTruth /\ AbandonedIsAbsent /\ CompleteIsTold

\* The index may be believed, and a cleanup that believes it does no harm (generation).
IndexServes == FreshMeansIndexed /\ CapturedStays

\* A late repair brings back neither an old record nor an event that is gone (repair).
NothingRevived == NewerStays /\ CleanedStays
=============================================================================
