--------------------------- MODULE ReceiptsProofs ---------------------------
(***************************************************************************)
(* The receipt ledger keeps its promises for every number of processes,    *)
(* invocations and records, and every retention.                           *)
(*                                                                         *)
(* NoUnindexedIntent is not inductive: a writer replaces the index by the   *)
(* copy it has in memory.  The invariant therefore also says what the      *)
(* lock's holder has in memory (Sound), and that there is one (Locking).   *)
(***************************************************************************)
EXTENDS Receipts, FiniteSetTheorems, TLAPS

-----------------------------------------------------------------------------
(* The inductive invariant                                                 *)

Typed ==
    /\ now \in Nat
    /\ index = None \/ IsIndex(index)
    /\ intent \in [Ids -> Nat \cup {None}]
    /\ outcomes \subseteq Ids
    /\ lock \in Processes \cup {None}
    /\ DOMAIN op = Processes /\ \A p \in Processes : IsOp(op[p])
    /\ claims \in [Ids -> Nat]

Held(o) == o.stage \in {"expire", "trim", "publish"}
Locking == \A p \in Processes : Held(op[p]) <=> lock = p

\* Every intent is in f with its own time, or about to be removed.
Covers(f, D) == \A i \in Recorded : i \in D \/ (i \in DOMAIN f /\ f[i] = intent[i])

\* What a process in the middle of a call may rely on.
Sound(o) ==
    /\ o.does = "begin" => o.id \in Ids
    /\ Held(o) => Covers(o.index, o.doomed) /\ Cardinality(DOMAIN o.index) <= MaxRecords
    /\ o.stage = "expire" => \A i \in o.doomed \cap Recorded : Expired(intent[i], now)
    /\ o.stage = "trim" => /\ o.does = "begin"
                           /\ o.id \in DOMAIN o.index => o.index[o.id] = o.at
                           /\ \A i \in o.doomed \cap Recorded, j \in Recorded :
                                 intent[i] <= intent[j]
    /\ o.stage = "publish" => /\ o.does = "begin" /\ o.doomed = {} /\ ~Claimed(o.id)
                              /\ o.id \in DOMAIN o.index /\ o.index[o.id] = o.at
                              /\ index # None => index = o.index
SoundOps == \A p \in Processes : Sound(op[p])

\* An invocation is claimed exactly while its intent is there.
Claims == \A i \in Ids : claims[i] = IF intent[i] = None THEN 0 ELSE 1

Core ==
    /\ Typed /\ Locking /\ SoundOps
    /\ NoUnindexedIntent /\ OutcomeHasIntent /\ Claims /\ Bounded

-----------------------------------------------------------------------------
(* Data                                                                    *)

\* A change of one process's operation leaves the others alone.
LEMMA Moved ==
    ASSUME DOMAIN op = Processes, NEW p \in Processes, NEW o, Move(p, o)
    PROVE  /\ DOMAIN op' = Processes /\ op'[p] = o
           /\ \A q \in Processes : q # p => op'[q] = op[q]
BY DEF Move

LEMMA IdleOp == IsOp(Idle) /\ Idle.stage = "idle" /\ ~Held(Idle) /\ Sound(Idle)
BY DEF Idle, IsOp, Fields, Stages, IsIndex, Held, Sound

\* A part of the ids is finite, and its own parts are no larger.
LEMMA Finite ==
    ASSUME NEW T \in SUBSET Ids, NEW U \in SUBSET T
    PROVE  /\ IsFiniteSet(T) /\ IsFiniteSet(U)
           /\ Cardinality(T) \in Nat /\ Cardinality(U) \in Nat
           /\ Cardinality(U) <= Cardinality(T)
<1>1. IsFiniteSet(T)
  BY FS_Subset, ReceiptAssumption
<1>2. QED
  BY <1>1, FS_Subset, FS_CardinalityType

LEMMA RecordedType == Typed => Recorded \subseteq Ids /\ \A i \in Recorded : intent[i] \in Nat
BY DEF Typed, Recorded

-----------------------------------------------------------------------------
(* The initial state                                                       *)

LEMMA InitCore == Init => Core
<1> SUFFICES ASSUME Init PROVE Core
  OBVIOUS
<1>1. Recorded = {}
  BY DEF Init, Recorded
<1>2. Typed
  BY IdleOp DEF Init, Typed
<1>3. Locking /\ SoundOps
  BY IdleOp, ReceiptAssumption DEF Init, Locking, SoundOps
<1>4. NoUnindexedIntent /\ OutcomeHasIntent /\ Claims
  BY <1>1 DEF Init, NoUnindexedIntent, OutcomeHasIntent, Claims
<1>5. Bounded
  BY <1>1, FS_EmptySet, ReceiptAssumption DEF Init, Bounded
<1>6. QED
  BY <1>2, <1>3, <1>4, <1>5 DEF Core
-----------------------------------------------------------------------------
(* Steps that leave the lock or change nothing that is shared              *)

\* What a process may rely on does not depend on whose operation it is.
LEMMA SameSound ==
    ASSUME UNCHANGED <<now, files>>, NEW CONSTANT o, Sound(o)
    PROVE  Sound(o)'
BY DEF files, Sound, Covers, Recorded, Claimed

LEMMA SameFiles ==
    ASSUME Core, UNCHANGED <<now, files, claims>>
    PROVE  /\ (now \in Nat /\ (index = None \/ IsIndex(index)) /\ intent \in [Ids -> Nat \cup {None}]
                 /\ outcomes \subseteq Ids /\ claims \in [Ids -> Nat])'
           /\ (NoUnindexedIntent /\ OutcomeHasIntent /\ Claims /\ Bounded)'
BY DEF Core, Typed, files, IsIndex, NoUnindexedIntent, OutcomeHasIntent, Claims, Bounded, Recorded

\* p is, or ends, outside the lock.
LEMMA LeaveKeepsCore ==
    ASSUME Core, NEW p \in Processes, NEW CONSTANT o, Move(p, o),
           IsOp(o), ~Held(o), o.does = "begin" => o.id \in Ids,
           lock' = IF lock = p THEN None ELSE lock,
           UNCHANGED <<now, files, claims>>
    PROVE  Core'
<1>1. /\ DOMAIN op' = Processes /\ op'[p] = o
      /\ \A q \in Processes : q # p => op'[q] = op[q]
  BY Moved DEF Core, Typed
<1>2. Typed'
  BY <1>1, SameFiles DEF Core, Typed
<1>3. Locking'
  BY <1>1, ReceiptAssumption DEF Core, Locking
<1>4. SoundOps'
  <2> SUFFICES ASSUME NEW q \in Processes PROVE Sound(op[q])'
    BY DEF SoundOps
  <2>1. CASE q = p
    BY <2>1, <1>1 DEF Held, Sound
  <2>2. CASE q # p
    <3>1. PICK r : r = op[q] /\ r = op'[q]
      BY <2>2, <1>1
    <3>2. Sound(r)
      BY <3>1 DEF Core, SoundOps
    <3>3. Sound(r)'
      BY <3>2, SameSound
    <3>4. QED
      BY <3>1, <3>3 DEF Sound, Covers, Recorded, Claimed, Held
  <2>3. QED
    BY <2>1, <2>2
<1>5. QED
  BY <1>2, <1>3, <1>4, SameFiles DEF Core

LEMMA OutsideKeepsCore ==
    ASSUME Core, NEW p \in Processes, NEW i \in Ids,
           \/ StartBegin(p, i) \/ StartCleanup(p) \/ ReadIntent(p, i) \/ ReadOutcome(p)
           \/ Deliver(p) \/ Crash(p) \/ Refuse(p)
    PROVE  Core'
<1>1. lock = p <=> Held(op[p])
  BY DEF Core, Locking
<1>2. IsOp(op[p]) /\ now \in Nat
  BY DEF Core, Typed
<1>3. CASE StartBegin(p, i)
  <2>1. PICK o : o = [Idle EXCEPT !.does = "begin", !.stage = "lock", !.id = i, !.at = now]
    OBVIOUS
  <2>2. IsOp(o) /\ ~Held(o) /\ o.id \in Ids
    BY <2>1, <1>2 DEF Idle, IsOp, Fields, Stages, IsIndex, Held
  <2>3. Move(p, o) /\ lock # p /\ UNCHANGED <<now, files, lock, claims>>
    BY <1>3, <1>1, <2>1 DEF StartBegin, Held
  <2>4. QED
    BY <2>2, <2>3, LeaveKeepsCore
<1>4. CASE StartCleanup(p)
  <2>1. PICK o : o = [Idle EXCEPT !.does = "cleanup", !.stage = "lock"]
    OBVIOUS
  <2>2. IsOp(o) /\ ~Held(o) /\ o.does # "begin"
    BY <2>1 DEF Idle, IsOp, Fields, Stages, IsIndex, Held
  <2>3. Move(p, o) /\ lock # p /\ UNCHANGED <<now, files, lock, claims>>
    BY <1>4, <1>1, <2>1 DEF StartCleanup, Held
  <2>4. QED
    BY <2>2, <2>3, LeaveKeepsCore
<1>5. CASE ReadIntent(p, i)
  <2>1. PICK o : /\ Move(p, o)
                 /\ \E s \in {"answered", "outcome"} :
                      o = [Idle EXCEPT !.does = "read", !.id = i, !.stage = s, !.answer = "absent"]
    BY <1>5 DEF ReadIntent
  <2>2. IsOp(o) /\ ~Held(o) /\ o.does # "begin"
    BY <2>1 DEF Idle, IsOp, Fields, Stages, IsIndex, Held
  <2>3. lock # p /\ UNCHANGED <<now, files, lock, claims>>
    BY <1>5, <1>1 DEF ReadIntent, Held
  <2>4. QED
    BY <2>1, <2>2, <2>3, LeaveKeepsCore
<1>6. CASE ReadOutcome(p)
  <2>1. PICK o : /\ Move(p, o)
                 /\ \E a \in {"final", "unknown"} : o = [op[p] EXCEPT !.stage = "answered", !.answer = a]
    BY <1>6 DEF ReadOutcome
  <2>2. IsOp(o) /\ ~Held(o) /\ (o.does = "begin" => o.id \in Ids)
    <3>1. op[p].does = "begin" => op[p].id \in Ids
      BY DEF Core, SoundOps, Sound
    <3>2. QED
      BY <2>1, <1>2, <3>1 DEF IsOp, Fields, Stages, IsIndex, Held
  <2>3. lock # p /\ UNCHANGED <<now, files, lock, claims>>
    BY <1>6, <1>1 DEF ReadOutcome, Held
  <2>4. QED
    BY <2>1, <2>2, <2>3, LeaveKeepsCore
<1>7. CASE Deliver(p)
  <2>1. Move(p, Idle) /\ lock # p /\ UNCHANGED <<now, files, lock, claims>>
    BY <1>7, <1>1 DEF Deliver, Held
  <2>2. QED
    BY <2>1, IdleOp, LeaveKeepsCore DEF Idle
<1>8. CASE Crash(p)
  BY <1>8, IdleOp, LeaveKeepsCore DEF Crash, Idle
<1>9. CASE Refuse(p)
  <2>1. Move(p, Idle) /\ lock = p /\ lock' = None /\ UNCHANGED <<now, files, claims>>
    BY <1>9, <1>1 DEF Refuse, Release, Held
  <2>2. QED
    BY <2>1, IdleOp, LeaveKeepsCore DEF Idle
<1>10. QED
  BY <1>3, <1>4, <1>5, <1>6, <1>7, <1>8, <1>9

-----------------------------------------------------------------------------
(* Steps on the outcomes, the index and the clock that take no lock        *)

\* What a process may rely on survives new outcomes, the loss of the index and
\* the passage of time.
LEMMA AgingSound ==
    ASSUME Core, intent' = intent, now' \in Nat, now <= now',
           index' = index \/ index' = None,
           \A i \in Ids : i \in outcomes' => i \in outcomes \/ i \in Recorded,
           NEW CONSTANT o, IsOp(o), Sound(o)
    PROVE  Sound(o)'
<1>1. Recorded' = Recorded /\ Recorded \subseteq Ids
  BY RecordedType DEF Recorded, Core
<1>2. (o.does = "begin" => o.id \in Ids)'
  BY DEF Sound
<1>3. (Held(o) => Covers(o.index, o.doomed) /\ Cardinality(DOMAIN o.index) <= MaxRecords)'
  BY <1>1 DEF Sound, Covers, Held
<1>4. (o.stage = "expire" => \A i \in o.doomed \cap Recorded : Expired(intent[i], now))'
  BY <1>1, RecordedType, ReceiptAssumption DEF Core, Typed, Sound, Expired
<1>5. (o.stage = "trim" => /\ o.does = "begin"
                           /\ o.id \in DOMAIN o.index => o.index[o.id] = o.at
                           /\ \A i \in o.doomed \cap Recorded, j \in Recorded :
                                 intent[i] <= intent[j])'
  BY <1>1 DEF Sound
<1>6. (o.stage = "publish" => /\ o.does = "begin" /\ o.doomed = {} /\ ~Claimed(o.id)
                              /\ o.id \in DOMAIN o.index /\ o.index[o.id] = o.at
                              /\ index # None => index = o.index)'
  BY <1>1 DEF Sound, Claimed, Recorded
<1>7. QED
  BY <1>2, <1>3, <1>4, <1>5, <1>6 DEF Sound

LEMMA AgingKeepsCore ==
    ASSUME Core, NEW p \in Processes, NEW i \in Ids, Finalise(p, i) \/ LoseIndex \/ Tick
    PROVE  Core'
<1>1. /\ intent' = intent /\ now' \in Nat /\ now <= now'
      /\ index' = index \/ index' = None
      /\ \A j \in Ids : j \in outcomes' => j \in outcomes \/ j \in Recorded
      /\ outcomes' \subseteq Ids /\ UNCHANGED <<lock, op, claims>>
  BY DEF Core, Typed, Finalise, LoseIndex, Tick, files, Recorded
<1>2. Recorded' = Recorded
  BY <1>1 DEF Recorded
<1>3. Typed'
  BY <1>1 DEF Core, Typed, IsIndex
<1>4. Locking'
  BY <1>1 DEF Core, Locking
<1>5. SoundOps'
  <2> SUFFICES ASSUME NEW q \in Processes PROVE Sound(op[q])'
    BY DEF SoundOps
  <2>1. PICK r : r = op[q] /\ r = op'[q]
    BY <1>1
  <2>2. IsOp(r) /\ Sound(r)
    BY <2>1 DEF Core, SoundOps, Typed
  <2>3. Sound(r)'
    BY <2>2, <1>1, AgingSound
  <2>4. QED
    BY <2>1, <2>3 DEF Sound, Covers, Recorded, Claimed, Held
<1>6. (NoUnindexedIntent /\ Claims /\ Bounded)'
  BY <1>1, <1>2 DEF Core, NoUnindexedIntent, Claims, Bounded
<1>7. OutcomeHasIntent'
  BY <1>1, <1>2 DEF Core, Typed, OutcomeHasIntent
<1>8. QED
  BY <1>3, <1>4, <1>5, <1>6, <1>7 DEF Core

-----------------------------------------------------------------------------
(* Steps of the lock's holder                                              *)

\* Nobody else is in a state that depends on the files.
LEMMA OthersOutside ==
    ASSUME Core, NEW p \in Processes, lock = None \/ lock = p,
           NEW q \in Processes, q # p
    PROVE  ~Held(op[q]) /\ (op[q].does = "begin" => op[q].id \in Ids)
BY ReceiptAssumption DEF Core, Locking, SoundOps, Sound

\* A step of p that has, or has just taken, the lock.
LEMMA HolderKeepsSoundOps ==
    ASSUME Core, NEW p \in Processes, lock = None \/ lock = p, NEW CONSTANT o,
           Move(p, o) \/ (o = op[p] /\ op' = op),
           Sound(o)', lock' = IF Held(o) THEN p ELSE None
    PROVE  Locking' /\ SoundOps'
<1>1. /\ DOMAIN op' = Processes /\ op'[p] = o
      /\ \A q \in Processes : q # p => op'[q] = op[q]
  BY Moved DEF Core, Typed
<1>2. \A q \in Processes : q # p => ~Held(op'[q]) /\ (op'[q].does = "begin" => op'[q].id \in Ids)
  BY <1>1, OthersOutside
<1>3. Locking'
  BY <1>1, <1>2, ReceiptAssumption DEF Locking, Held
<1>4. SoundOps'
  <2> SUFFICES ASSUME NEW q \in Processes PROVE Sound(op[q])'
    BY DEF SoundOps
  <2>1. CASE q = p
    BY <2>1, <1>1 DEF Sound, Covers, Recorded, Claimed, Held
  <2>2. CASE q # p
    BY <2>2, <1>2 DEF Sound, Held
  <2>3. QED
    BY <2>1, <2>2
<1>5. QED
  BY <1>3, <1>4

LEMMA OpenKeepsCore ==
    ASSUME Core, NEW p \in Processes, Open(p)
    PROVE  Core'
<1> DEFINE loaded == IF index = None \/ op[p].does = "cleanup" THEN Rebuilt ELSE index
           expired == {i \in DOMAIN loaded : Expired(loaded[i], now)}
<1>1. PICK f : f = loaded
  OBVIOUS
<1>2. IsIndex(f) /\ \A i \in Recorded : i \in DOMAIN f /\ f[i] = intent[i]
  BY <1>1, RecordedType DEF Core, Typed, IsIndex, Rebuilt, NoUnindexedIntent
<1>3. Cardinality(DOMAIN f) <= MaxRecords
  BY <1>1 DEF Core, Bounded, Rebuilt
<1>4. PICK E : E = {i \in DOMAIN f : Expired(f[i], now)}
  OBVIOUS
<1>5. PICK o : o = [op[p] EXCEPT !.stage = "expire", !.time = now,
                                !.index = Without(f, E), !.doomed = E]
  OBVIOUS
<1>6. /\ Move(p, o) /\ lock = None /\ lock' = p /\ op[p].stage = "lock"
      /\ index' = IF op[p].does = "cleanup" THEN index ELSE f
      /\ UNCHANGED <<now, intent, outcomes, claims>>
  BY <1>1, <1>4, <1>5 DEF Open
<1>7. IsOp(op[p]) /\ now \in Nat /\ Recorded' = Recorded
  BY <1>6 DEF Core, Typed, Recorded
<1>8. /\ o.stage = "expire" /\ o.does = op[p].does /\ o.id = op[p].id
      /\ o.index = Without(f, E) /\ o.doomed = E
  BY <1>5, <1>7 DEF IsOp, Fields
<1>9. IsIndex(Without(f, E)) /\ DOMAIN Without(f, E) = DOMAIN f \ E
  BY <1>2 DEF IsIndex, Without
<1>10. IsOp(o)
  BY <1>5, <1>7, <1>2, <1>4, <1>9 DEF IsOp, Fields, Stages, IsIndex
<1>11. Typed'
  <2>1. DOMAIN op' = Processes /\ \A q \in Processes : IsOp(op'[q])
    BY <1>6, <1>10, Moved DEF Core, Typed
  <2>2. (index = None \/ IsIndex(index))'
    BY <1>6, <1>2 DEF Core, Typed, IsIndex
  <2>3. QED
    BY <2>1, <2>2, <1>6 DEF Core, Typed
<1>12. Sound(o)'
  <2>1. (Covers(o.index, o.doomed))'
    BY <1>2, <1>6, <1>7, <1>8, <1>9 DEF Covers, Without
  <2>2. Cardinality(DOMAIN o.index) <= MaxRecords
    BY <1>2, <1>3, <1>8, <1>9, Finite, ReceiptAssumption DEF IsIndex
  <2>5. \A i \in o.doomed \cap Recorded : Expired(intent[i], now)
    BY <1>2, <1>4, <1>8
  <2>6. o.does = "begin" => o.id \in Ids
    BY <1>8 DEF Core, SoundOps, Sound
  <2>7. QED
    BY <2>1, <2>2, <2>5, <2>6, <1>6, <1>7, <1>8 DEF Sound, Held, Expired
<1>13. Locking' /\ SoundOps'
  BY <1>6, <1>8, <1>12, HolderKeepsSoundOps DEF Held
<1>14. (NoUnindexedIntent /\ OutcomeHasIntent /\ Claims /\ Bounded)'
  BY <1>2, <1>3, <1>6, <1>7
  DEF Core, NoUnindexedIntent, OutcomeHasIntent, Claims, Bounded
<1>15. QED
  BY <1>11, <1>13, <1>14 DEF Core

LEMMA UnlinkKeepsCore ==
    ASSUME Core, NEW p \in Processes, NEW i \in Ids, Unlink(p, i)
    PROVE  Core'
<1>1. /\ op[p].stage \in {"expire", "trim"} /\ i \in op[p].doomed
      /\ outcomes' = outcomes \ {i} /\ UNCHANGED <<now, index, lock>>
  BY DEF Unlink
<1>2. /\ IsOp(op[p]) /\ Sound(op[p]) /\ Held(op[p]) /\ lock = p
      /\ intent \in [Ids -> Nat \cup {None}] /\ claims \in [Ids -> Nat]
  BY <1>1 DEF Core, Typed, SoundOps, Locking, Held
<1>3. CASE i \in outcomes
  <2>1. UNCHANGED <<intent, claims, op>>
    BY <1>3 DEF Unlink
  <2>2. PICK o : o = op[p]
    OBVIOUS
  <2>4. Recorded' = Recorded
    BY <2>1 DEF Recorded
  <2>5. Sound(o)'
    BY <1>1, <1>2, <2>1, <2>2, <2>4 DEF Sound, Covers, Held
  <2>6. Locking' /\ SoundOps'
    BY <1>1, <1>2, <2>1, <2>2, <2>5, HolderKeepsSoundOps
  <2>7. Typed'
    BY <1>1, <2>1 DEF Core, Typed, IsIndex
  <2>8. (NoUnindexedIntent /\ OutcomeHasIntent /\ Claims /\ Bounded)'
    BY <1>1, <2>1, <2>4 DEF Core, NoUnindexedIntent, OutcomeHasIntent, Claims, Bounded
  <2>9. QED
    BY <2>6, <2>7, <2>8 DEF Core
<1>4. CASE i \notin outcomes
  <2>1. PICK o : o = [op[p] EXCEPT !.doomed = @ \ {i}]
    OBVIOUS
  <2>2. /\ intent' = [intent EXCEPT ![i] = None] /\ claims' = [claims EXCEPT ![i] = 0]
        /\ Move(p, o)
    BY <1>4, <2>1 DEF Unlink
  <2>3. /\ o.stage = op[p].stage /\ o.does = op[p].does /\ o.id = op[p].id /\ o.at = op[p].at
        /\ o.index = op[p].index /\ o.doomed = op[p].doomed \ {i} /\ IsOp(o)
    BY <2>1, <1>2 DEF IsOp, Fields
  <2>4. /\ Recorded' = Recorded \ {i}
        /\ \A j \in Recorded' : j \in Recorded /\ intent'[j] = intent[j]
    BY <1>2, <2>2 DEF Recorded
  <2>5. Sound(o)'
    <3>1. (o.does = "begin" => o.id \in Ids)
      BY <1>2, <2>3 DEF Sound
    <3>2. (Covers(o.index, o.doomed))' /\ Cardinality(DOMAIN o.index) <= MaxRecords
      BY <1>2, <2>3, <2>4 DEF Sound, Covers
    <3>3. o.stage = "expire" => (\A j \in o.doomed \cap Recorded : Expired(intent[j], now))'
      BY <1>1, <1>2, <2>3, <2>4 DEF Sound, Expired
    <3>4. o.stage = "trim" => (/\ o.does = "begin"
                               /\ o.id \in DOMAIN o.index => o.index[o.id] = o.at
                               /\ \A j \in o.doomed \cap Recorded, k \in Recorded :
                                     intent[j] <= intent[k])'
      BY <1>1, <1>2, <2>3, <2>4 DEF Sound
    <3>5. o.stage \in {"expire", "trim"}
      BY <1>1, <2>3
    <3>6. o.stage # "publish"
      BY <3>5
    <3>7. QED
      BY <3>1, <3>2, <3>3, <3>4, <3>6 DEF Sound, Held, Covers, Expired
  <2>6. Held(o)
    BY <1>1, <2>3 DEF Held
  <2>7. Locking' /\ SoundOps'
    BY <1>1, <1>2, <2>2, <2>5, <2>6, HolderKeepsSoundOps
  <2>8. Typed'
    <3>1. DOMAIN op' = Processes /\ \A q \in Processes : IsOp(op'[q])
      BY <2>2, <2>3, Moved DEF Core, Typed
    <3>2. QED
      BY <1>1, <1>2, <2>2, <3>1 DEF Core, Typed, IsIndex
  <2>9. NoUnindexedIntent'
    BY <1>1, <2>4 DEF Core, NoUnindexedIntent
  <2>10. OutcomeHasIntent'
    BY <1>1, <1>4, <2>4 DEF Core, OutcomeHasIntent
  <2>11. Claims'
    BY <1>2, <2>2 DEF Core, Claims
  <2>12. Bounded'
    <3>1. Recorded \in SUBSET Ids /\ Recorded' \in SUBSET Recorded
      BY <2>4, RecordedType DEF Core
    <3>2. Cardinality(Recorded') <= MaxRecords
      BY <3>1, Finite, ReceiptAssumption DEF Core, Bounded
    <3>3. QED
      BY <3>2, <1>1 DEF Core, Bounded
  <2>13. QED
    BY <2>7, <2>8, <2>9, <2>10, <2>11, <2>12 DEF Core
<1>5. QED
  BY <1>3, <1>4

\* What is removed to make room leaves no more than the capacity, and is a
\* single record when there is one too many.
LEMMA RoomMade ==
    ASSUME NEW f, IsIndex(f), NEW S \in Oldest(f)
    PROVE  /\ DOMAIN Without(f, S) = DOMAIN f \ S
           /\ Cardinality(DOMAIN f \ S) <= MaxRecords
           /\ Cardinality(DOMAIN f) <= MaxRecords + 1 => \A i, j \in S : i = j
<1> DEFINE D == DOMAIN f
<1>1. D \in SUBSET Ids /\ S \in SUBSET D
  BY DEF IsIndex, Oldest
<1>2. /\ IsFiniteSet(D) /\ IsFiniteSet(S) /\ Cardinality(D) \in Nat /\ Cardinality(S) \in Nat
      /\ Cardinality(D \ S) \in Nat
  BY <1>1, Finite
<1>3. Cardinality(S) = IF Cardinality(D) - MaxRecords > 0 THEN Cardinality(D) - MaxRecords ELSE 0
  BY DEF Oldest, Overflow
<1>4. Cardinality(D \ S) = Cardinality(D) - Cardinality(S)
  <2>1. D \cap S = S
    BY <1>1
  <2>2. QED
    BY <2>1, <1>2, FS_Difference
<1>5. Cardinality(D \ S) <= MaxRecords
  BY <1>2, <1>3, <1>4, ReceiptAssumption
<1>6. ASSUME Cardinality(D) <= MaxRecords + 1, NEW i \in S, NEW j \in S
      PROVE  i = j
  <2>1. Cardinality(S) <= 1
    BY <1>2, <1>3, <1>6, ReceiptAssumption
  <2>2. SUFFICES ASSUME i # j PROVE FALSE
    OBVIOUS
  <2>3. IsFiniteSet({i, j}) /\ Cardinality({i, j}) = 2
    <3>1. IsFiniteSet({j}) /\ Cardinality({j}) = 1
      BY FS_Singleton
    <3>2. {j} \cup {i} = {i, j} /\ i \notin {j}
      BY <2>2
    <3>3. IsFiniteSet({j} \cup {i}) /\ Cardinality({j} \cup {i}) = 2
      BY <3>1, <3>2, FS_AddElement
    <3>4. QED
      BY <3>2, <3>3
  <2>4. Cardinality({i, j}) <= Cardinality(S)
    BY <1>2, FS_Subset
  <2>5. QED
    BY <2>1, <2>3, <2>4, <1>2
<1>7. QED
  BY <1>5, <1>6 DEF Without

LEMMA EnrolKeepsCore ==
    ASSUME Core, NEW p \in Processes, Enrol(p)
    PROVE  Core'
<1> DEFINE enrolled(i) == [j \in DOMAIN op[p].index \cup {i} |->
                             IF j = i THEN op[p].at ELSE op[p].index[j]]
<1>1. PICK i, f : i = op[p].id /\ f = enrolled(i)
  OBVIOUS
<1>2. /\ op[p].stage = "expire" /\ op[p].doomed = {} /\ op[p].does = "begin"
      /\ Claimed(i) => intent[i] = op[p].at
      /\ UNCHANGED <<now, files, lock, claims>>
  BY <1>1 DEF Enrol
<1>3. PICK S \in Oldest(f) :
         Move(p, [op[p] EXCEPT !.stage = "trim", !.index = Without(f, S), !.doomed = S])
  BY <1>1 DEF Enrol
<1>4. PICK o : o = [op[p] EXCEPT !.stage = "trim", !.index = Without(f, S), !.doomed = S]
  OBVIOUS
<1>5. /\ IsOp(op[p]) /\ Sound(op[p]) /\ Held(op[p]) /\ lock = p /\ i \in Ids
      /\ intent \in [Ids -> Nat \cup {None}]
  BY <1>1, <1>2 DEF Core, Typed, SoundOps, Locking, Held, Sound
<1>6. IsIndex(f) /\ DOMAIN f = DOMAIN op[p].index \cup {i} /\ f[i] = op[p].at
  BY <1>1, <1>5 DEF IsIndex, IsOp
<1>7. \A j \in Recorded : j \in DOMAIN f /\ f[j] = intent[j]
  <2>1. i \in Recorded => f[i] = intent[i]
    BY <1>2, <1>6 DEF Recorded, Claimed
  <2>2. \A j \in Recorded : j \in DOMAIN op[p].index /\ op[p].index[j] = intent[j]
    BY <1>2, <1>5 DEF Sound, Covers
  <2>3. QED
    BY <2>1, <2>2, <1>1, <1>6
<1>8. Cardinality(DOMAIN f) <= MaxRecords + 1
  <2>1. DOMAIN op[p].index \in SUBSET Ids /\ Cardinality(DOMAIN op[p].index) <= MaxRecords
    BY <1>5 DEF Sound, IsOp, IsIndex
  <2>2. /\ IsFiniteSet(DOMAIN op[p].index) /\ Cardinality(DOMAIN op[p].index) \in Nat
    BY <2>1, Finite
  <2>3. Cardinality(DOMAIN op[p].index \cup {i}) <= Cardinality(DOMAIN op[p].index) + 1
    <3>1. PICK D : D = DOMAIN op[p].index
      OBVIOUS
    <3>2. IsFiniteSet(D) /\ Cardinality(D) \in Nat
      BY <2>2, <3>1
    <3>3. Cardinality(D \cup {i}) = IF i \in D THEN Cardinality(D) ELSE Cardinality(D) + 1
      BY <3>2, FS_AddElement
    <3>4. QED
      BY <3>1, <3>2, <3>3
  <2>4. Cardinality(DOMAIN op[p].index \cup {i}) \in Nat
    BY <2>1, <1>5, Finite
  <2>5. QED
    BY <2>1, <2>2, <2>3, <2>4, <1>6, ReceiptAssumption
<1>9. /\ DOMAIN Without(f, S) = DOMAIN f \ S /\ Cardinality(DOMAIN f \ S) <= MaxRecords
      /\ \A j, k \in S : j = k
  BY <1>6, <1>8, RoomMade
<1>10. S \subseteq DOMAIN f /\ \A j \in S, k \in DOMAIN f \ S : f[j] <= f[k]
  BY DEF Oldest
<1>11. /\ o.stage = "trim" /\ o.does = "begin" /\ o.id = i /\ o.at = op[p].at
       /\ o.index = Without(f, S) /\ o.doomed = S
  BY <1>1, <1>2, <1>4, <1>5 DEF IsOp, Fields
<1>12. IsIndex(Without(f, S)) /\ S \subseteq Ids
  BY <1>6, <1>9, <1>10 DEF IsIndex, Without
<1>13. IsOp(o)
  BY <1>4, <1>5, <1>12 DEF IsOp, Fields, Stages
<1>14. Sound(o)
  <2>1. Covers(o.index, o.doomed)
    BY <1>7, <1>9, <1>11 DEF Covers, Without
  <2>2. o.id \in DOMAIN o.index => o.index[o.id] = o.at
    BY <1>6, <1>9, <1>11 DEF Without
  <2>3. \A j \in S \cap Recorded, k \in Recorded : intent[j] <= intent[k]
    <3> SUFFICES ASSUME NEW j \in S \cap Recorded, NEW k \in Recorded PROVE intent[j] <= intent[k]
      OBVIOUS
    <3>1. CASE k \in S
      BY <3>1, <1>9, <1>5, RecordedType DEF Core
    <3>2. CASE k \notin S
      BY <3>2, <1>7, <1>10
    <3>3. QED
      BY <3>1, <3>2
  <2>4. QED
    BY <2>1, <2>2, <2>3, <1>5, <1>9, <1>11 DEF Sound
<1>15. Sound(o)'
  BY <1>2, <1>14, SameSound
<1>16. Locking' /\ SoundOps'
  BY <1>2, <1>3, <1>4, <1>5, <1>11, <1>15, HolderKeepsSoundOps DEF Held
<1>17. DOMAIN op' = Processes /\ \A q \in Processes : IsOp(op'[q])
  BY <1>3, <1>4, <1>13, Moved DEF Core, Typed
<1>18. QED
  BY <1>2, <1>5, <1>16, <1>17, SameFiles DEF Core, Typed

\* The holder puts the index it has in memory in the place of the file's.
LEMMA IndexReplaced ==
    ASSUME Core, NEW p \in Processes, Held(op[p]), op[p].doomed = {}, index' = op[p].index,
           UNCHANGED <<now, intent, outcomes, claims>>
    PROVE  (IsIndex(index) /\ NoUnindexedIntent /\ OutcomeHasIntent /\ Claims /\ Bounded)'
<1>1. Recorded' = Recorded
  BY DEF Recorded
<1>2. \A i \in Recorded : i \in DOMAIN op[p].index /\ op[p].index[i] = intent[i]
  BY DEF Core, SoundOps, Sound, Covers
<1>3. IsIndex(op[p].index) /\ Cardinality(DOMAIN op[p].index) <= MaxRecords
  BY DEF Core, Typed, IsOp, SoundOps, Sound
<1>4. QED
  BY <1>1, <1>2, <1>3
  DEF Core, IsIndex, NoUnindexedIntent, OutcomeHasIntent, Claims, Bounded

\* The holder is done, and lets go of the lock.
LEMMA ReleaseKeepsLocking ==
    ASSUME Core, NEW p \in Processes, lock = p, Release(p)
    PROVE  /\ Locking' /\ SoundOps' /\ lock' = None
           /\ (DOMAIN op = Processes /\ \A q \in Processes : IsOp(op[q]))'
<1>1. PICK o : o = Idle
  OBVIOUS
<1>2. Sound(o)' /\ ~Held(o) /\ Move(p, o) /\ lock' = None /\ IsOp(o)
  BY <1>1, IdleOp DEF Release, Sound, Held, Idle
<1>3. Locking' /\ SoundOps'
  BY <1>2, HolderKeepsSoundOps
<1>4. DOMAIN op' = Processes /\ \A q \in Processes : IsOp(op'[q])
  BY <1>2, Moved DEF Core, Typed
<1>5. QED
  BY <1>2, <1>3, <1>4

LEMMA WriteIndexKeepsCore ==
    ASSUME Core, NEW p \in Processes, WriteIndex(p)
    PROVE  Core'
<1>1. /\ op[p].stage = "trim" /\ op[p].doomed = {} /\ UNCHANGED <<now, intent, outcomes, claims>>
  BY DEF WriteIndex
<1>2. /\ IsOp(op[p]) /\ Sound(op[p]) /\ Held(op[p]) /\ lock = p
      /\ op[p].does = "begin" /\ op[p].id \in Ids
  BY <1>1 DEF Core, Typed, SoundOps, Locking, Held, Sound
<1>3. CASE op[p].id \notin DOMAIN op[p].index
  <2>1. Release(p) /\ index' = index
    BY <1>3 DEF WriteIndex
  <2>2. Move(p, Idle) /\ lock' = None
    BY <2>1 DEF Release
  <2>3. UNCHANGED <<now, files, claims>>
    BY <1>1, <2>1 DEF files
  <2>4. QED
    BY <1>2, <2>2, <2>3, IdleOp, LeaveKeepsCore DEF Idle
<1>4. CASE op[p].id \in DOMAIN op[p].index /\ Claimed(op[p].id)
  <2>1. Release(p) /\ index' = op[p].index
    BY <1>4 DEF WriteIndex
  <2>2. QED
    BY <1>1, <1>2, <2>1, IndexReplaced, ReleaseKeepsLocking DEF Core, Typed, IsIndex
<1>5. CASE op[p].id \in DOMAIN op[p].index /\ ~Claimed(op[p].id)
  <2>1. PICK o : o = [op[p] EXCEPT !.stage = "publish"]
    OBVIOUS
  <2>2. Move(p, o) /\ lock' = lock /\ index' = op[p].index
    BY <1>5, <2>1 DEF WriteIndex
  <2>3. /\ o.stage = "publish" /\ o.does = "begin" /\ o.id = op[p].id /\ o.at = op[p].at
        /\ o.index = op[p].index /\ o.doomed = {} /\ IsOp(o)
    BY <1>1, <1>2, <2>1 DEF IsOp, Fields, Stages
  <2>4. Sound(o)'
    <3>1. (Covers(o.index, o.doomed))'
      BY <1>1, <1>2, <2>3 DEF Sound, Covers, Recorded
    <3>2. Cardinality(DOMAIN o.index) <= MaxRecords /\ o.id \in Ids
      BY <1>2, <2>3 DEF Sound
    <3>3. o.id \in DOMAIN o.index /\ o.index[o.id] = o.at /\ index' = o.index
      BY <1>1, <1>2, <1>5, <2>2, <2>3 DEF Sound
    <3>4. (~Claimed(o.id))'
      BY <1>1, <1>5, <2>3 DEF Claimed
    <3>5. QED
      BY <2>3, <3>1, <3>2, <3>3, <3>4 DEF Sound, Covers, Held, Claimed
  <2>5. Locking' /\ SoundOps'
    BY <1>2, <2>2, <2>3, <2>4, HolderKeepsSoundOps DEF Held
  <2>6. DOMAIN op' = Processes /\ \A q \in Processes : IsOp(op'[q])
    BY <2>2, <2>3, Moved DEF Core, Typed
  <2>7. QED
    BY <1>1, <1>2, <2>2, <2>5, <2>6, IndexReplaced DEF Core, Typed
<1>6. QED
  BY <1>3, <1>4, <1>5

LEMMA EndCleanupKeepsCore ==
    ASSUME Core, NEW p \in Processes, EndCleanup(p)
    PROVE  Core'
<1>1. /\ op[p].stage = "expire" /\ op[p].doomed = {} /\ index' = op[p].index /\ Release(p)
      /\ UNCHANGED <<now, intent, outcomes, claims>>
  BY DEF EndCleanup
<1>2. Held(op[p]) /\ lock = p
  BY <1>1 DEF Core, Locking, Held
<1>3. QED
  BY <1>1, <1>2, IndexReplaced, ReleaseKeepsLocking DEF Core, Typed, IsIndex

LEMMA PublishKeepsCore ==
    ASSUME Core, NEW p \in Processes, Publish(p)
    PROVE  Core'
<1>1. PICK i : i = op[p].id
  OBVIOUS
<1>2. /\ op[p].stage = "publish" /\ Release(p) /\ UNCHANGED <<now, index, outcomes>>
      /\ intent' = [intent EXCEPT ![i] = op[p].at]
      /\ claims' = [claims EXCEPT ![i] = @ + 1]
  BY <1>1 DEF Publish
<1>3. /\ IsOp(op[p]) /\ Sound(op[p]) /\ Held(op[p]) /\ lock = p
      /\ intent \in [Ids -> Nat \cup {None}] /\ claims \in [Ids -> Nat]
  BY <1>2 DEF Core, Typed, SoundOps, Locking, Held
<1>4. /\ i \in Ids /\ intent[i] = None /\ i \in DOMAIN op[p].index /\ op[p].index[i] = op[p].at
      /\ index # None => index = op[p].index
      /\ Covers(op[p].index, {}) /\ Cardinality(DOMAIN op[p].index) <= MaxRecords
      /\ op[p].at \in Nat
  BY <1>1, <1>2, <1>3 DEF Sound, Claimed, IsOp
<1>5. /\ Recorded' = Recorded \cup {i} /\ intent'[i] = op[p].at
      /\ \A j \in Recorded : intent'[j] = intent[j]
  BY <1>2, <1>3, <1>4, ReceiptAssumption DEF Recorded
<1>6. Locking' /\ SoundOps' /\ (DOMAIN op = Processes /\ \A q \in Processes : IsOp(op[q]))'
  BY <1>2, <1>3, ReleaseKeepsLocking
<1>7. Typed'
  <2>1. (now \in Nat /\ (index = None \/ IsIndex(index)) /\ outcomes \subseteq Ids)'
    BY <1>2 DEF Core, Typed, IsIndex
  <2>2. intent' \in [Ids -> Nat \cup {None}] /\ claims' \in [Ids -> Nat]
    BY <1>2, <1>3, <1>4
  <2>3. lock' \in Processes \cup {None}
    BY <1>2 DEF Release
  <2>4. QED
    BY <2>1, <2>2, <2>3, <1>6 DEF Typed
<1>8. \A j \in Recorded' : j \in DOMAIN op[p].index /\ op[p].index[j] = intent'[j]
  BY <1>4, <1>5 DEF Covers
<1>9. NoUnindexedIntent'
  BY <1>2, <1>4, <1>8 DEF NoUnindexedIntent
<1>10. OutcomeHasIntent'
  BY <1>2, <1>5 DEF Core, OutcomeHasIntent
<1>11. Claims'
  BY <1>2, <1>3, <1>4, ReceiptAssumption DEF Core, Claims
<1>12. Bounded'
  <2>1. DOMAIN op[p].index \in SUBSET Ids /\ Recorded' \in SUBSET DOMAIN op[p].index
    BY <1>3, <1>8 DEF IsOp, IsIndex
  <2>2. Cardinality(Recorded') <= MaxRecords
    BY <2>1, <1>4, Finite, ReceiptAssumption
  <2>3. QED
    BY <2>2, <1>2 DEF Core, Bounded
<1>13. QED
  BY <1>6, <1>7, <1>9, <1>10, <1>11, <1>12 DEF Core

-----------------------------------------------------------------------------
(* The invariant holds                                                     *)

Step(p, i) ==
    \/ StartBegin(p, i) \/ Unlink(p, i) \/ Finalise(p, i) \/ ReadIntent(p, i)
    \/ StartCleanup(p) \/ Open(p) \/ Refuse(p) \/ Enrol(p) \/ WriteIndex(p)
    \/ Publish(p) \/ EndCleanup(p) \/ ReadOutcome(p) \/ Deliver(p) \/ Crash(p)

LEMMA StepKeepsCore ==
    ASSUME Core, NEW p \in Processes, NEW i \in Ids, Step(p, i) \/ LoseIndex \/ Tick
    PROVE  Core'
<1>1. CASE \/ StartBegin(p, i) \/ StartCleanup(p) \/ ReadIntent(p, i) \/ ReadOutcome(p)
           \/ Deliver(p) \/ Crash(p) \/ Refuse(p)
  BY <1>1, OutsideKeepsCore
<1>2. CASE Finalise(p, i) \/ LoseIndex \/ Tick
  BY <1>2, AgingKeepsCore
<1>3. CASE Open(p) \/ Unlink(p, i) \/ Enrol(p)
  BY <1>3, OpenKeepsCore, UnlinkKeepsCore, EnrolKeepsCore
<1>4. CASE WriteIndex(p) \/ Publish(p) \/ EndCleanup(p)
  BY <1>4, WriteIndexKeepsCore, PublishKeepsCore, EndCleanupKeepsCore
<1>5. QED
  BY <1>1, <1>2, <1>3, <1>4 DEF Step

\* What a read has been told, and what it may still be told.
Reading ==
    /\ seen \in [Processes -> SUBSET {"absent", "unknown", "final"}]
    /\ \A p \in Processes :
         /\ op[p].stage \in {"outcome", "answered"} => op[p].does = "read"
         /\ op[p].does = "read" => op[p].id \in Ids /\ Statuses[op[p].id] \subseteq seen[p]
         /\ op[p].stage = "outcome" => intent[op[p].id] # None \/ "unknown" \in seen[p]
         /\ op[p].stage = "answered" => op[p].answer \in seen[p]

IInv == Core /\ Reading

LEMMA InitIInv == Init => IInv
BY InitCore DEF IInv, Reading, Init, Idle

\* The moves of p that are not part of a read.
NoRead(p) ==
    \/ op' = op
    \/ \E o : /\ Move(p, o) /\ o.stage \notin {"outcome", "answered"}
              /\ o.does # "read" \/ (o.does = op[p].does /\ o.id = op[p].id)

LEMMA StepNoRead ==
    ASSUME Core, NEW p \in Processes, NEW i \in Ids, Step(p, i) \/ LoseIndex \/ Tick,
           ~ReadIntent(p, i), ~ReadOutcome(p)
    PROVE  NoRead(p)
<1>1. IsOp(op[p])
  BY DEF Core, Typed
<1>2. Move(p, Idle) => NoRead(p)
  BY DEF NoRead, Idle
<1>3. CASE StartBegin(p, i)
  <2>1. PICK o : o = [Idle EXCEPT !.does = "begin", !.stage = "lock", !.id = i, !.at = now]
    OBVIOUS
  <2>2. Move(p, o) /\ o.does = "begin" /\ o.stage = "lock"
    BY <1>3, <2>1 DEF StartBegin, Idle
  <2>3. QED
    BY <2>2 DEF NoRead
<1>4. CASE StartCleanup(p)
  <2>1. PICK o : o = [Idle EXCEPT !.does = "cleanup", !.stage = "lock"]
    OBVIOUS
  <2>2. Move(p, o) /\ o.does = "cleanup" /\ o.stage = "lock"
    BY <1>4, <2>1 DEF StartCleanup, Idle
  <2>3. QED
    BY <2>2 DEF NoRead
<1>5. CASE Open(p)
  <2>1. PICK f, D, o : /\ o = [op[p] EXCEPT !.stage = "expire", !.time = now, !.index = f, !.doomed = D]
                       /\ Move(p, o)
    BY <1>5 DEF Open
  <2>2. o.stage = "expire" /\ o.does = op[p].does /\ o.id = op[p].id
    BY <1>1, <2>1 DEF IsOp, Fields
  <2>3. QED
    BY <2>1, <2>2 DEF NoRead
<1>6. CASE Enrol(p)
  <2>1. PICK f, D, o : /\ o = [op[p] EXCEPT !.stage = "trim", !.index = f, !.doomed = D]
                       /\ Move(p, o)
    BY <1>6 DEF Enrol
  <2>2. o.stage = "trim" /\ o.does = op[p].does /\ o.id = op[p].id
    BY <1>1, <2>1 DEF IsOp, Fields
  <2>3. QED
    BY <2>1, <2>2 DEF NoRead
<1>7. CASE Unlink(p, i)
  <2>1. CASE op' = op
    BY <2>1 DEF NoRead
  <2>2. CASE op' # op
    <3>1. PICK o : o = [op[p] EXCEPT !.doomed = @ \ {i}] /\ Move(p, o)
      BY <1>7, <2>2 DEF Unlink
    <3>2. o.stage = op[p].stage /\ o.does = op[p].does /\ o.id = op[p].id
      BY <1>1, <3>1 DEF IsOp, Fields
    <3>3. op[p].stage \in {"expire", "trim"}
      BY <1>7 DEF Unlink
    <3>4. QED
      BY <3>1, <3>2, <3>3 DEF NoRead
  <2>3. QED
    BY <2>1, <2>2
<1>8. CASE WriteIndex(p)
  <2>1. CASE Move(p, Idle)
    BY <1>2, <2>1
  <2>2. CASE ~Move(p, Idle)
    <3>1. PICK o : o = [op[p] EXCEPT !.stage = "publish"] /\ Move(p, o)
      BY <1>8, <2>2 DEF WriteIndex, Release
    <3>2. o.stage = "publish" /\ o.does = op[p].does /\ o.id = op[p].id
      BY <1>1, <3>1 DEF IsOp, Fields
    <3>3. QED
      BY <3>1, <3>2 DEF NoRead
  <2>3. QED
    BY <2>1, <2>2
<1>9. CASE Refuse(p) \/ Publish(p) \/ EndCleanup(p) \/ Deliver(p) \/ Crash(p)
  BY <1>2, <1>9 DEF Refuse, Publish, EndCleanup, Deliver, Crash, Release
<1>10. CASE Finalise(p, i) \/ LoseIndex \/ Tick
  BY <1>10 DEF NoRead, Finalise, LoseIndex, Tick
<1>11. QED
  BY <1>3, <1>4, <1>5, <1>6, <1>7, <1>8, <1>9, <1>10 DEF Step

LEMMA StatusType ==
    /\ \A i \in Ids : Statuses[i] \subseteq {"absent", "unknown", "final"}
    /\ \A i \in Ids : Statuses'[i] \subseteq {"absent", "unknown", "final"}
BY DEF Statuses

\* Intents are removed by evictions only.
LEMMA RemovedByUnlink ==
    ASSUME Core, NEW p \in Processes, NEW i \in Ids, Step(p, i) \/ LoseIndex \/ Tick,
           NEW j \in Ids, intent[j] # None, intent'[j] = None
    PROVE  Unlink(p, j)
<1>1. intent \in [Ids -> Nat \cup {None}]
  BY DEF Core, Typed
<1>2. CASE Publish(p)
  <2>1. op[p].at \in Nat
    BY DEF Core, Typed, IsOp
  <2>2. intent'[j] = intent[j] \/ intent'[j] = op[p].at
    BY <1>1, <1>2 DEF Publish
  <2>3. QED
    BY <2>1, <2>2, ReceiptAssumption
<1>3. CASE Unlink(p, i)
  BY <1>1, <1>3 DEF Unlink
<1>4. CASE ~Publish(p) /\ ~Unlink(p, i)
  BY <1>4 DEF Step, StartBegin, Finalise, ReadIntent, StartCleanup, Open, Refuse, Enrol,
              WriteIndex, EndCleanup, ReadOutcome, Deliver, Crash, LoseIndex, Tick, files
<1>5. QED
  BY <1>2, <1>3, <1>4

\* An intent is removed after its outcome: in between, the ledger says "unknown".
LEMMA UnknownBeforeAbsent ==
    ASSUME Core, NEW p \in Processes, NEW i \in Ids, Step(p, i) \/ LoseIndex \/ Tick,
           NEW j \in Ids, intent[j] # None, intent'[j] = None
    PROVE  "unknown" \in Statuses[j]
<1>1. j \notin outcomes
  <2>1. Unlink(p, j)
    BY RemovedByUnlink
  <2>2. QED
    BY <2>1 DEF Unlink
<1>2. QED
  BY <1>1 DEF Statuses

LEMMA StepKeepsReading ==
    ASSUME IInv, NEW p \in Processes, NEW i \in Ids, Step(p, i) \/ LoseIndex \/ Tick, Watch
    PROVE  Reading'
<1>1. Core /\ Core' /\ Reading /\ DOMAIN op = Processes /\ OutcomeHasIntent
  BY StepKeepsCore DEF IInv, Core, Typed
<1>2. \A q \in Processes :
         seen'[q] = IF op'[q].does # "read" THEN {}
                    ELSE (IF op[q].does = "read" THEN seen[q] ELSE Statuses[op'[q].id])
                           \cup Statuses'[op'[q].id]
  BY DEF Watch
<1>3. \A q \in Processes : q # p => op'[q] = op[q]
  <2>1. op' = op \/ \E o : op' = [op EXCEPT ![p] = o]
    <3>1. CASE ReadIntent(p, i)
      BY <3>1 DEF ReadIntent, Move
    <3>2. CASE ReadOutcome(p)
      BY <3>2 DEF ReadOutcome, Move
    <3>3. CASE ~ReadIntent(p, i) /\ ~ReadOutcome(p)
      BY <1>1, <3>3, StepNoRead DEF NoRead, Move
    <3>4. QED
      BY <3>1, <3>2, <3>3
  <2>2. QED
    BY <2>1, <1>1
\* Whatever the step is, a read that goes on knows more.
<1>4. ASSUME NEW q \in Processes, op'[q].does = op[q].does, op'[q].id = op[q].id,
             op[q].does = "read"
      PROVE  /\ seen[q] \subseteq seen'[q]
             /\ op'[q].id \in Ids
             /\ intent[op[q].id] # None \/ "unknown" \in seen[q]
                  => intent'[op[q].id] # None \/ "unknown" \in seen'[q]
  <2>1. seen[q] \subseteq seen'[q] /\ op[q].id \in Ids /\ Statuses[op[q].id] \subseteq seen[q]
    BY <1>1, <1>2, <1>4 DEF Reading
  <2>2. QED
    BY <1>1, <1>4, <2>1, UnknownBeforeAbsent
<1>5. ASSUME NEW q \in Processes
      PROVE  /\ op'[q].stage \in {"outcome", "answered"} => op'[q].does = "read"
             /\ op'[q].does = "read" => op'[q].id \in Ids
             /\ op'[q].stage = "outcome" => intent'[op'[q].id] # None \/ "unknown" \in seen'[q]
             /\ op'[q].stage = "answered" => op'[q].answer \in seen'[q]
  <2>1. CASE op'[q] = op[q]
    BY <1>1, <1>4, <2>1 DEF Reading
  <2>2. CASE q = p /\ ReadIntent(p, i)
    <3>1. PICK o : o = [Idle EXCEPT !.does = "read", !.id = i,
                            !.stage = IF intent[i] = None \/ Expired(intent[i], now)
                                      THEN "answered" ELSE "outcome",
                            !.answer = "absent"]
      OBVIOUS
    <3>2. /\ o.does = "read" /\ o.id = i /\ o.answer = "absent"
          /\ o.stage = IF intent[i] = None \/ Expired(intent[i], now) THEN "answered" ELSE "outcome"
      BY <3>1 DEF Idle
    <3>3. op'[q] = o /\ UNCHANGED <<now, intent, outcomes>>
      BY <1>1, <2>2, <3>1, Moved DEF ReadIntent, files
    <3>4. Statuses'[i] \subseteq seen'[q]
      BY <1>2, <3>2, <3>3
    <3>5. intent[i] = None \/ Expired(intent[i], now) => "absent" \in Statuses'[i]
      BY <3>3 DEF Statuses, Expired
    <3>6. QED
      BY <3>2, <3>3, <3>4, <3>5
  <2>3. CASE q = p /\ ReadOutcome(p)
    <3>1. PICK o : o = [op[p] EXCEPT !.stage = "answered",
                             !.answer = IF op[p].id \in outcomes THEN "final" ELSE "unknown"]
      OBVIOUS
    <3>2. IsOp(op[p]) /\ op[p].stage = "outcome"
      BY <1>1, <2>3 DEF Core, Typed, ReadOutcome
    <3>3. /\ o.stage = "answered" /\ o.does = op[p].does /\ o.id = op[p].id
          /\ o.answer = IF op[p].id \in outcomes THEN "final" ELSE "unknown"
      BY <3>1, <3>2 DEF IsOp, Fields
    <3>4. op'[q] = o /\ UNCHANGED <<now, intent, outcomes>>
      BY <1>1, <2>3, <3>1, Moved DEF ReadOutcome, files
    <3>5. op[p].does = "read" /\ op[p].id \in Ids
      BY <1>1, <3>2 DEF Reading
    <3>6. seen[p] \subseteq seen'[p] /\ Statuses'[op[p].id] \subseteq seen'[p]
      BY <1>2, <1>4, <2>3, <3>3, <3>4, <3>5
    <3>7. CASE op[p].id \in outcomes
      <4>1. "final" \in Statuses'[op[p].id]
        BY <1>1, <3>4, <3>5, <3>7 DEF Statuses, OutcomeHasIntent, Recorded
      <4>2. QED
        BY <2>3, <3>3, <3>4, <3>5, <3>6, <3>7, <4>1
    <3>8. CASE op[p].id \notin outcomes
      <4>1. CASE intent[op[p].id] # None
        <5>1. "unknown" \in Statuses'[op[p].id]
          BY <3>4, <3>5, <3>8, <4>1 DEF Statuses
        <5>2. QED
          BY <2>3, <3>3, <3>4, <3>5, <3>6, <3>8, <5>1
      <4>2. CASE intent[op[p].id] = None
        <5>1. "unknown" \in seen[p]
          BY <1>1, <3>2, <4>2 DEF Reading
        <5>2. QED
          BY <2>3, <3>3, <3>4, <3>5, <3>6, <3>8, <5>1
      <4>3. QED
        BY <4>1, <4>2
    <3>9. QED
      BY <3>7, <3>8
  <2>4. CASE q = p /\ ~ReadIntent(p, i) /\ ~ReadOutcome(p)
    <3>1. CASE op' = op
      BY <2>1, <3>1
    <3>2. CASE op' # op
      <4>1. PICK o : /\ Move(p, o) /\ o.stage \notin {"outcome", "answered"}
                     /\ o.does # "read" \/ (o.does = op[p].does /\ o.id = op[p].id)
        BY <1>1, <2>4, <3>2, StepNoRead DEF NoRead
      <4>2. op'[q] = o
        BY <1>1, <2>4, <4>1, Moved
      <4>3. QED
        BY <1>1, <2>4, <4>1, <4>2 DEF Reading
    <3>3. QED
      BY <3>1, <3>2
  <2>5. QED
    BY <1>3, <2>1, <2>2, <2>3, <2>4
<1>6. \A q \in Processes : op'[q].does = "read" => Statuses'[op'[q].id] \subseteq seen'[q]
  BY <1>2
<1>7. seen' \in [Processes -> SUBSET {"absent", "unknown", "final"}]
  <2>1. ASSUME NEW q \in Processes PROVE seen'[q] \subseteq {"absent", "unknown", "final"}
    <3>1. seen[q] \subseteq {"absent", "unknown", "final"}
      BY <1>1 DEF Reading
    <3>2. CASE op'[q].does # "read"
      BY <1>2, <3>2
    <3>3. CASE op'[q].does = "read"
      <4>1. op'[q].id \in Ids
        BY <1>5, <3>3
      <4>2. /\ Statuses[op'[q].id] \subseteq {"absent", "unknown", "final"}
            /\ Statuses'[op'[q].id] \subseteq {"absent", "unknown", "final"}
        BY <4>1, StatusType
      <4>3. QED
        BY <1>2, <3>1, <3>3, <4>2
    <3>4. QED
      BY <3>2, <3>3
  <2>2. QED
    BY <2>1 DEF Watch
<1>8. QED
  BY <1>5, <1>6, <1>7 DEF Reading

\* An eviction takes an expired record, or the oldest.
LEMMA StepEvictsOldest ==
    ASSUME Core, NEW p \in Processes, NEW i \in Ids, Step(p, i) \/ LoseIndex \/ Tick,
           NEW j \in Ids, intent[j] # None, intent'[j] = None
    PROVE  Expired(intent[j], now) \/ \A k \in Recorded : intent[j] <= intent[k]
<1>1. op[p].stage \in {"expire", "trim"} /\ j \in op[p].doomed
  BY RemovedByUnlink DEF Unlink
<1>2. j \in op[p].doomed \cap Recorded
  BY <1>1 DEF Recorded
<1>3. QED
  BY <1>1, <1>2 DEF Core, SoundOps, Sound

\* Next, taken apart: a step of one process, or of the environment.
LEMMA NextSteps ==
    ASSUME Next
    PROVE  Watch /\ \E p \in Processes, i \in Ids : Step(p, i) \/ LoseIndex \/ Tick
BY ReceiptAssumption DEF Next, Step

LEMMA NextKeepsIInv == IInv /\ [Next]_vars => IInv'
<1> SUFFICES ASSUME IInv, [Next]_vars PROVE IInv'
  OBVIOUS
<1>1. CASE Next
  BY <1>1, NextSteps, StepKeepsCore, StepKeepsReading DEF IInv
<1>2. CASE UNCHANGED vars
  BY <1>2 DEF IInv, Core, Typed, IsIndex, IsOp, Locking, Held, SoundOps, Sound, Covers, Recorded,
     Claimed, NoUnindexedIntent, OutcomeHasIntent, Claims, Bounded, Reading, Statuses, vars, files
<1>3. QED
  BY <1>1, <1>2

\* Every behaviour of the ledger keeps the inductive invariant.
THEOREM Invariance == Spec => []IInv
BY InitIInv, NextKeepsIInv, PTL DEF Spec

\* The files, the index in memory and every call stay well formed.
THEOREM TypeCorrect == Spec => []TypeOK
<1>1. IInv => TypeOK
  BY DEF IInv, Core, Typed, Reading, TypeOK
<1>2. QED
  BY <1>1, Invariance, PTL

\* Wherever a process dies between the writes of begin() or of an eviction, and
\* whenever the index is lost, no intent escapes the index.
THEOREM IntentsIndexed == Spec => []NoUnindexedIntent
<1>1. IInv => NoUnindexedIntent
  BY DEF IInv, Core
<1>2. QED
  BY <1>1, Invariance, PTL

\* The records and the index never exceed max_records, at any step.
THEOREM CapacityKept == Spec => []Bounded
<1>1. IInv => Bounded
  BY DEF IInv, Core
<1>2. QED
  BY <1>1, Invariance, PTL

\* An outcome file never stands alone, in the middle of an eviction included.
THEOREM OutcomesComplete == Spec => []OutcomeHasIntent
<1>1. IInv => OutcomeHasIntent
  BY DEF IInv, Core
<1>2. QED
  BY <1>1, Invariance, PTL

\* The intents, the outcomes and the index fit each other at every moment.
THEOREM LedgerIsSound == Spec => []LedgerSound
<1>1. IInv => LedgerSound
  BY DEF IInv, Core, Typed, Reading, TypeOK, LedgerSound
<1>2. QED
  BY <1>1, Invariance, PTL

\* While its record is kept, an invocation is admitted at most once.
THEOREM AdmittedOnce == Spec => []OneClaim
<1>1. IInv => OneClaim
  BY DEF IInv, Core, Claims, OneClaim
<1>2. QED
  BY <1>1, Invariance, PTL

\* A lock-free read of two files reports a state the ledger was in meanwhile.
THEOREM ReadsConsistent == Spec => []ReadOfOneInstant
<1>1. IInv => ReadOfOneInstant
  BY DEF IInv, Reading, ReadOfOneInstant
<1>2. QED
  BY <1>1, Invariance, PTL

\* Only expired records and the oldest are evicted.
THEOREM OldestEvicted == Spec => EvictsOldest
<1>1. IInv /\ [Next]_vars =>
        [\A i \in Ids : intent[i] # None /\ intent'[i] = None =>
           Expired(intent[i], now) \/ \A j \in Recorded : intent[i] <= intent[j]]_vars
  <2> SUFFICES ASSUME IInv, Next
               PROVE  \A i \in Ids : intent[i] # None /\ intent'[i] = None =>
                        Expired(intent[i], now) \/ \A j \in Recorded : intent[i] <= intent[j]
    OBVIOUS
  <2>1. QED
    BY NextSteps, StepEvictsOldest DEF IInv
<1>2. QED
  BY <1>1, Invariance, PTL DEF Spec, EvictsOldest

=============================================================================
