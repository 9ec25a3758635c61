------------------------------ MODULE Receipts ------------------------------
(***************************************************************************)
(* The owned receipt ledger (_command_interface/receipts.py): for every    *)
(* invocation an immutable intent, published before the command is entered *)
(* and at most once, and later an immutable outcome; an index of the       *)
(* intents bounds how many are kept and for how long.                      *)
(*                                                                         *)
(* The processes of a machine share the ledger's directory.  Writers hold  *)
(* a file lock, that the system releases when they die; readers take no    *)
(* file lock.  Every file is replaced or removed atomically, and a process *)
(* may die (or fail with an I/O error) between any two of those steps.     *)
(***************************************************************************)
EXTENDS Integers, FiniteSets

CONSTANTS
    Processes,      \* processes that use the ledger
    Ids,            \* invocation ids, each naming one intent and one outcome file
    None,           \* no file, or no one
    Retention,      \* ReceiptPolicy.retention
    MaxRecords,     \* ReceiptPolicy.max_records
    MaxTime         \* bound: the clock's readings explored

ASSUME ReceiptAssumption ==
    /\ Processes # {} /\ Ids # {} /\ IsFiniteSet(Ids) /\ None \notin Processes \cup Nat
    /\ Retention \in Nat \ {0} /\ MaxRecords \in Nat \ {0} /\ MaxTime \in Nat

VARIABLES
    now,        \* the clock
    index,      \* the index file: id -> time of its intent; None when missing or damaged
    intent,     \* intent[i]: the time recorded in i's intent file, or None
    outcomes,   \* the ids with an outcome file
    lock,       \* the process that holds .receipts.lock, or None
    op,         \* op[p]: what p is doing
    claims,     \* history: claims[i], how often i was claimed since its record was last evicted
    seen        \* history: seen[p], what the ledger held of p's id while p was reading it

files == <<index, intent, outcomes>>
vars == <<now, files, lock, op, claims, seen>>

\* index, doomed: the index in memory, and the records still to be removed.
Idle == [does |-> "nothing", stage |-> "idle", id |-> None, at |-> 0, time |-> 0,
         index |-> [i \in {} |-> 0], doomed |-> {}, answer |-> "none"]

Init ==
    /\ now = 0
    /\ index = None
    /\ intent = [i \in Ids |-> None]
    /\ outcomes = {}
    /\ lock = None
    /\ op = [p \in Processes |-> Idle]
    /\ claims = [i \in Ids |-> 0]
    /\ seen = [p \in Processes |-> {}]

Recorded == {i \in Ids : intent[i] # None}
Expired(at, time) == at < time - Retention
Without(idx, S) == [i \in DOMAIN idx \ S |-> idx[i]]

Rebuilt == [i \in Recorded |-> intent[i]]

Move(p, next) == op' = [op EXCEPT ![p] = next]
Release(p) == lock' = None /\ Move(p, Idle)

-----------------------------------------------------------------------------
(* begin() and cleanup(), under the lock                                   *)

StartBegin(p, i) ==
    /\ op[p].stage = "idle"
    /\ Move(p, [Idle EXCEPT !.does = "begin", !.stage = "lock", !.id = i, !.at = now])
    /\ UNCHANGED <<now, files, lock, claims>>

StartCleanup(p) ==
    /\ op[p].stage = "idle"
    /\ Move(p, [Idle EXCEPT !.does = "cleanup", !.stage = "lock"])
    /\ UNCHANGED <<now, files, lock, claims>>

\* Take the lock and read the clock and the index, rebuilt when it is not there;
\* a cleanup reads the records instead.  Then remove what has expired.
Open(p) ==
    LET loaded == IF index = None \/ op[p].does = "cleanup" THEN Rebuilt ELSE index
        expired == {i \in DOMAIN loaded : Expired(loaded[i], now)} IN
    /\ op[p].stage = "lock" /\ lock = None
    /\ lock' = p
    /\ index' = IF op[p].does = "cleanup" THEN index ELSE loaded
    /\ Move(p, [op[p] EXCEPT !.stage = "expire", !.time = now,
                             !.index = Without(loaded, expired), !.doomed = expired])
    /\ UNCHANGED <<now, intent, outcomes, claims>>

\* _remove_record: the outcome before the intent (mutant: after it).
Unlink_IntentFirst(p, i) ==
    /\ op[p].stage \in {"expire", "trim"} /\ i \in op[p].doomed
    /\ intent' = [intent EXCEPT ![i] = None]
    /\ claims' = [claims EXCEPT ![i] = 0]
    /\ IF intent[i] = None
       THEN outcomes' = outcomes \ {i} /\ Move(p, [op[p] EXCEPT !.doomed = @ \ {i}])
       ELSE UNCHANGED <<outcomes, op>>
    /\ UNCHANGED <<now, index, lock>>
Unlink(p, i) ==
    /\ op[p].stage \in {"expire", "trim"} /\ i \in op[p].doomed
    /\ outcomes' = outcomes \ {i}
    /\ IF i \in outcomes THEN UNCHANGED <<intent, claims, op>>
       ELSE /\ intent' = [intent EXCEPT ![i] = None]
            /\ claims' = [claims EXCEPT ![i] = 0]
            /\ Move(p, [op[p] EXCEPT !.doomed = @ \ {i}])
    /\ UNCHANGED <<now, index, lock>>

Overflow(idx) == Cardinality(DOMAIN idx) - MaxRecords

\* The choices of the oldest records that _trim_index_locked may remove; those
\* of one age go by name (mutant: the ages are not looked at).
Oldest_Any(idx) ==
    {S \in SUBSET DOMAIN idx : Cardinality(S) = IF Overflow(idx) > 0 THEN Overflow(idx) ELSE 0}
Oldest(idx) ==
    {S \in SUBSET DOMAIN idx :
        /\ Cardinality(S) = IF Overflow(idx) > 0 THEN Overflow(idx) ELSE 0
        /\ \A i \in S, j \in DOMAIN idx \ S : idx[i] <= idx[j]}

\* What forbids to claim the id: an intent that is there (mutant: only one that
\* has its outcome), or an orphan outcome.
Claimed_Final(i) == i \in outcomes
Claimed(i) == intent[i] # None \/ i \in outcomes

\* The expired records are gone.  begin refuses an intent that is itself too
\* old, and an id that is recorded with another intent.
Refuse(p) ==
    /\ op[p].stage = "expire" /\ op[p].doomed = {} /\ op[p].does = "begin"
    /\ \/ Expired(op[p].at, op[p].time)
       \/ Claimed(op[p].id) /\ intent[op[p].id] # op[p].at
    /\ Release(p)
    /\ UNCHANGED <<now, files, claims>>

\* Otherwise it indexes the intent, and makes room.
Enrol(p) ==
    LET i == op[p].id
        enrolled == [j \in DOMAIN op[p].index \cup {i} |->
                        IF j = i THEN op[p].at ELSE op[p].index[j]] IN
    /\ op[p].stage = "expire" /\ op[p].doomed = {} /\ op[p].does = "begin"
    /\ ~Expired(op[p].at, op[p].time)
    /\ Claimed(i) => intent[i] = op[p].at
    /\ \E S \in Oldest(enrolled) :
         Move(p, [op[p] EXCEPT !.stage = "trim", !.index = Without(enrolled, S), !.doomed = S])
    /\ UNCHANGED <<now, files, lock, claims>>

\* The index is written before the intent, which was not itself the oldest
\* (mutant: the index is left for later).  An identical retry claims nothing.
WriteIndex_Deferred(p) ==
    /\ op[p].stage = "trim" /\ op[p].doomed = {}
    /\ UNCHANGED <<index, lock>>
    /\ Move(p, [op[p] EXCEPT !.stage = "publish"])
    /\ UNCHANGED <<now, intent, outcomes, claims>>
WriteIndex(p) ==
    /\ op[p].stage = "trim" /\ op[p].doomed = {}
    /\ IF op[p].id \in DOMAIN op[p].index
       THEN /\ index' = op[p].index
            /\ IF Claimed(op[p].id) THEN Release(p)
               ELSE Move(p, [op[p] EXCEPT !.stage = "publish"]) /\ UNCHANGED lock
       ELSE Release(p) /\ UNCHANGED index
    /\ UNCHANGED <<now, intent, outcomes, claims>>

\* begin publishes the intent and returns True.
Publish(p) ==
    /\ op[p].stage = "publish"
    /\ intent' = [intent EXCEPT ![op[p].id] = op[p].at]
    /\ claims' = [claims EXCEPT ![op[p].id] = @ + 1]
    /\ Release(p)
    /\ UNCHANGED <<now, index, outcomes>>

\* cleanup writes the index of what it kept.
EndCleanup(p) ==
    /\ op[p].does = "cleanup" /\ op[p].stage = "expire" /\ op[p].doomed = {}
    /\ index' = op[p].index
    /\ Release(p)
    /\ UNCHANGED <<now, intent, outcomes, claims>>

-----------------------------------------------------------------------------
(* finalise() and read()                                                   *)

Finalise(p, i) ==
    /\ op[p].stage = "idle" /\ lock = None
    /\ intent[i] # None /\ ~Expired(intent[i], now)
    /\ outcomes' = outcomes \cup {i}
    /\ UNCHANGED <<now, index, intent, lock, op, claims>>

\* read takes no file lock: the intent, and then the outcome.
ReadIntent(p, i) ==
    /\ op[p].stage = "idle"
    /\ Move(p, [Idle EXCEPT !.does = "read", !.id = i,
                            !.stage = IF intent[i] = None \/ Expired(intent[i], now)
                                      THEN "answered" ELSE "outcome",
                            !.answer = "absent"])
    /\ UNCHANGED <<now, files, lock, claims>>

ReadOutcome(p) ==
    /\ op[p].stage = "outcome"
    /\ Move(p, [op[p] EXCEPT !.stage = "answered",
                             !.answer = IF op[p].id \in outcomes THEN "final" ELSE "unknown"])
    /\ UNCHANGED <<now, files, lock, claims>>

Deliver(p) ==
    /\ op[p].stage = "answered"
    /\ Move(p, Idle)
    /\ UNCHANGED <<now, files, lock, claims>>

-----------------------------------------------------------------------------
(* The environment                                                         *)

\* The process dies, or an I/O error ends the call.
Crash(p) ==
    /\ op[p].stage # "idle"
    /\ lock' = IF lock = p THEN None ELSE lock
    /\ Move(p, Idle)
    /\ UNCHANGED <<now, files, claims>>

\* The index file is lost or damaged.
LoseIndex ==
    /\ index # None
    /\ index' = None
    /\ UNCHANGED <<now, intent, outcomes, lock, op, claims>>

Tick ==
    /\ now < MaxTime
    /\ now' = now + 1
    /\ UNCHANGED <<files, lock, op, claims>>

\* What the ledger says of each id at this moment; an expired record may also be
\* reported as absent.
Statuses ==
    [i \in Ids |->
       {IF intent[i] = None THEN "absent" ELSE IF i \in outcomes THEN "final" ELSE "unknown"}
         \cup (IF intent[i] # None /\ Expired(intent[i], now) THEN {"absent"} ELSE {})]

Watch ==
    seen' = [p \in Processes |->
               IF op'[p].does # "read" THEN {}
               ELSE (IF op[p].does = "read" THEN seen[p] ELSE Statuses[op'[p].id])
                      \cup Statuses'[op'[p].id]]

Next ==
    /\ \/ \E p \in Processes :
            \/ \E i \in Ids : StartBegin(p, i) \/ Unlink(p, i) \/ Finalise(p, i) \/ ReadIntent(p, i)
            \/ StartCleanup(p) \/ Open(p) \/ Refuse(p) \/ Enrol(p) \/ WriteIndex(p)
            \/ Publish(p) \/ EndCleanup(p) \/ ReadOutcome(p) \/ Deliver(p) \/ Crash(p)
       \/ LoseIndex \/ Tick
    /\ Watch

Spec == Init /\ [][Next]_vars

-----------------------------------------------------------------------------
(* Properties                                                              *)

IsIndex(f) == DOMAIN f \subseteq Ids /\ \A i \in DOMAIN f : f[i] \in Nat

Fields == {"does", "stage", "id", "at", "time", "index", "doomed", "answer"}
Stages == {"idle", "lock", "expire", "trim", "publish", "outcome", "answered"}
IsOp(o) ==
    /\ DOMAIN o = Fields
    /\ o.does \in {"nothing", "begin", "cleanup", "read"} /\ o.stage \in Stages
    /\ o.id \in Ids \cup {None} /\ o.at \in Nat /\ o.time \in Nat
    /\ IsIndex(o.index) /\ o.doomed \subseteq Ids
    /\ o.answer \in {"none", "absent", "unknown", "final"}

\* The files, and what each process holds in memory, are well formed.
TypeOK ==
    /\ now \in Nat
    /\ index = None \/ IsIndex(index)
    /\ intent \in [Ids -> Nat \cup {None}]
    /\ outcomes \subseteq Ids
    /\ lock \in Processes \cup {None}
    /\ DOMAIN op = Processes /\ \A p \in Processes : IsOp(op[p])
    /\ claims \in [Ids -> Nat]
    /\ seen \in [Processes -> SUBSET {"absent", "unknown", "final"}]

\* "A crash can leave an absent record, never an unindexed durable intent"
\* (begin): whatever dies where, and however often the index is rebuilt, each
\* intent on disk is in the index with its own time, so that it can expire.
NoUnindexedIntent ==
    index # None => \A i \in Recorded : i \in DOMAIN index /\ index[i] = intent[i]

\* The directory stays within its capacity at every moment, not only between
\* calls, and stale index entries left by crashes do not accumulate.
Bounded ==
    /\ Cardinality(Recorded) <= MaxRecords
    /\ index # None => Cardinality(DOMAIN index) <= MaxRecords

\* A final outcome never stands without the intent that it completes, in the
\* middle of an eviction included: lock-free readers rely on it.
OutcomeHasIntent == outcomes \subseteq Recorded

\* begin lets an invocation enter at most once for as long as its record is
\* kept, through crashes between its index and intent writes, and identical
\* and conflicting retries by several processes.
OneClaim == \A i \in Ids : claims[i] <= 1

\* Replay protection is given up by age only: a record is evicted when it has
\* expired, or as (one of) the oldest.
EvictsOldest ==
    [][\A i \in Ids : intent[i] # None /\ intent'[i] = None =>
         Expired(intent[i], now) \/ \A j \in Recorded : intent[i] <= intent[j]]_vars

\* A read takes no lock and looks at two files, and still reports what the
\* ledger held at one moment between its start and its end.
ReadOfOneInstant ==
    \A p \in Processes : op[p].stage = "answered" => op[p].answer \in seen[p]

\* The three files of the ledger fit each other at every moment (begin, finalise).
LedgerSound == TypeOK /\ NoUnindexedIntent /\ Bounded /\ OutcomeHasIntent
=============================================================================
