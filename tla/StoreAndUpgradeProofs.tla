----------------------- MODULE StoreAndUpgradeProofs -----------------------
(***************************************************************************)
(* The two components whose promise is a compare with what is on disk: the *)
(* consent state store and the upgrade's journal.  They share no variable. *)
(*                                                                         *)
(* The store: for every number of clients, keys and contents, every        *)
(* capacity and every bound, the compare-exchange store is free of ABA and *)
(* implements AtomicStore.  The inductive invariant adds to the types that *)
(* no client holds a version the store has not reached; then an equal      *)
(* version means an untouched record.                                      *)
(*                                                                         *)
(* The upgrade: for every set of migrations, in whichever order and        *)
(* whatever they declare, every set of files and every bound of what goes  *)
(* wrong, a journal that is there can be read, no restore takes back what  *)
(* VERSION vouches for, the ledger claims nothing that is missing, and no  *)
(* edit is lost.  The inductive invariant says what a restore would make   *)
(* of every path at each step: at least what the installed version did to  *)
(* it.  If the migrations of a stage are in order, at most that too        *)
(* (ExactInv); then an upgrade implements AllOrNothing.                    *)
(***************************************************************************)
EXTENDS StateStore, Upgrade, FiniteSetTheorems, FunctionTheorems, WellFoundedInduction, TLAPS

-----------------------------------------------------------------------------
(* The consent state store.                                                  *)

\* No snapshot is ahead of the store.
VersionsReached ==
    \A c \in Clients : (~closed /\ tx[c].stage \in {"submit", "reread"}) =>
        \A k \in tx[c].keys : tx[c].seen[k].version <= records[k].version

IInv == TypeOK /\ VersionsReached /\ SnapshotCurrent

CallType == [stage : Stages, keys : SUBSET Keys, seen : [Keys -> Record],
             attempts : 0 .. MaxAttempts - 1,
             begun : Nat, pages : SUBSET Keys, bound : Nat]

LEMMA IdleType ==
    ASSUME StoreAssumption
    PROVE  /\ Idle \in CallType /\ Idle.stage = "idle"
           /\ Gone \in CallType /\ Gone.stage = "gone"
BY DEF StoreAssumption, Idle, Gone, Between, NoRecord, CallType, Record, Contents, Stages

\* A snapshot taken now is of the records that are there.
LEMMA SnapshotType ==
    ASSUME StoreAssumption, records \in [Keys -> Record], NEW K \in SUBSET Keys
    PROVE  /\ Snapshot(K) \in [Keys -> Record]
           /\ \A k \in K : Snapshot(K)[k] = records[k]
BY DEF StoreAssumption, Snapshot, NoRecord, Record, Contents

\* A compare-exchange raises the version of what it writes, and touches no more.
LEMMA ReplacedType ==
    ASSUME records \in [Keys -> Record],
           NEW W \in SUBSET Keys, NEW new \in [W -> Contents]
    PROVE  /\ Replaced(new) \in [Keys -> Record]
           /\ \A k \in Keys : \/ Replaced(new)[k] = records[k]
                              \/ Replaced(new)[k].version = records[k].version + 1
           /\ [k \in Keys |-> Replaced(new)[k].content]
                = [k \in Keys |-> IF k \in W THEN new[k] ELSE records[k].content]
BY DEF Replaced, Record

THEOREM InitIInv == ASSUME StoreAssumption, Init PROVE IInv
<1>1. TypeOK
  BY IdleType DEF Init, TypeOK, CallType, NoRecord, Record, Contents, StoreAssumption
<1>2. \A c \in Clients : tx[c].stage = "idle"
  BY IdleType DEF Init
<1> QED BY <1>1, <1>2 DEF IInv, VersionsReached, SnapshotCurrent

\* A step that leaves the records alone and moves one client out of its
\* transaction, or within a listing, keeps the invariant.
LEMMA LeaveKeepsIInv ==
    ASSUME IInv, NEW c \in Clients, NEW call \in CallType,
           call.stage \notin {"submit", "reread"},
           tx' = [tx EXCEPT ![c] = call],
           UNCHANGED <<records, revision, closed>>, DOMAIN result' = Clients
    PROVE  IInv'
BY DEF IInv, TypeOK, CallType, VersionsReached, SnapshotCurrent

\* So does a step that gives one client a fresh snapshot.
LEMMA FreshKeepsIInv ==
    ASSUME StoreAssumption, IInv, NEW c \in Clients, NEW call \in CallType,
           call.stage = "submit", call.seen = Snapshot(call.keys),
           tx' = [tx EXCEPT ![c] = call],
           UNCHANGED <<records, revision, closed>>, DOMAIN result' = Clients
    PROVE  IInv'
<1>1. TypeOK'
  BY DEF IInv, TypeOK, CallType
<1>2. \A k \in call.keys : call.seen[k] = records'[k] /\ records'[k].version \in Nat
  BY SnapshotType DEF IInv, TypeOK, CallType, Record
<1>3. \A d \in Clients : d # c => tx'[d] = tx[d]
  BY DEF IInv, TypeOK
<1>4. tx'[c] = call
  BY DEF IInv, TypeOK
<1>5. VersionsReached'
  <2> SUFFICES ASSUME NEW d \in Clients, ~closed', tx'[d].stage \in {"submit", "reread"},
                      NEW k \in tx'[d].keys
               PROVE  tx'[d].seen[k].version <= records'[k].version
    BY DEF VersionsReached
  <2>1. CASE d = c
    <3>1. call.seen[k] = records'[k] /\ records'[k].version \in Nat
      BY <1>2, <1>4, <2>1
    <3> QED BY <1>4, <2>1, <3>1
  <2>2. CASE d # c
    BY <1>3, <2>2 DEF IInv, VersionsReached
  <2> QED BY <2>1, <2>2
<1>6. SnapshotCurrent'
  <2> SUFFICES ASSUME NEW d \in Clients, ~closed', tx'[d].stage = "submit",
                      NEW k \in tx'[d].keys,
                      tx'[d].seen[k].version = records'[k].version
               PROVE  tx'[d].seen[k] = records'[k]
    BY DEF SnapshotCurrent
  <2>1. CASE d = c
    BY <1>2, <1>4, <2>1
  <2>2. CASE d # c
    BY <1>3, <2>2 DEF IInv, SnapshotCurrent
  <2> QED BY <2>1, <2>2
<1> QED BY <1>1, <1>5, <1>6 DEF IInv

THEOREM NextIInv == ASSUME StoreAssumption, IInv, [Next]_vars PROVE IInv'
<1> USE DEF IInv
<1>1. ASSUME NEW c \in Clients, NEW K \in (SUBSET Keys) \ {{}}, Begin(c, K)
      PROVE  IInv'
  <2> DEFINE call == [stage |-> "submit", keys |-> K, seen |-> Snapshot(K),
                      attempts |-> 0, begun |-> revision, pages |-> {}, bound |-> 0]
  <2>1. call \in CallType
    BY SnapshotType DEF TypeOK, Stages, StoreAssumption, CallType
  <2>2. tx' = [tx EXCEPT ![c] = call] /\ DOMAIN result' = Clients
    BY <1>1 DEF Begin, TypeOK
  <2>3. UNCHANGED <<records, revision, closed>>
    BY <1>1 DEF Begin
  <2> QED BY <2>1, <2>2, <2>3, FreshKeepsIInv
<1>2. ASSUME NEW c \in Clients, Reread(c) PROVE IInv'
  <2> DEFINE call == [tx[c] EXCEPT !.stage = "submit", !.seen = Snapshot(tx[c].keys)]
  <2>1. /\ tx[c] \in CallType /\ tx[c].keys \in SUBSET Keys
        /\ Snapshot(tx[c].keys) \in [Keys -> Record]
    BY SnapshotType DEF TypeOK, CallType
  <2>2. /\ call \in CallType /\ call.stage = "submit" /\ call.keys = tx[c].keys
        /\ call.seen = Snapshot(tx[c].keys)
    BY <2>1 DEF CallType, Stages
  <2>3. /\ tx' = [tx EXCEPT ![c] = call] /\ DOMAIN result' = Clients
        /\ UNCHANGED <<records, revision, closed>>
    BY <1>2 DEF Reread, TypeOK
  <2> HIDE DEF call
  <2> QED BY <2>2, <2>3, FreshKeepsIInv
<1>3. ASSUME NEW c \in Clients, Apply(c) PROVE IInv'
  <2>1a. PICK new \in Writes(c) :
             /\ records' = Replaced(new)
             /\ revision' = IF DOMAIN new # {} THEN revision + 1 ELSE revision
    BY <1>3 DEF Apply
  <2>1. PICK W \in SUBSET tx[c].keys : new \in [W -> Contents]
    BY <2>1a DEF Writes
  <2>2. W \in SUBSET Keys
    BY DEF TypeOK
  <2>3. PICK answered \in BOOLEAN : tx' = [tx EXCEPT ![c] = IF answered THEN Idle ELSE Gone]
    BY <1>3 DEF Apply
  <2>4. closed' = closed /\ ~closed /\ DOMAIN result' = Clients
    BY <1>3 DEF Apply, TypeOK
  <2>5. TypeOK'
    <3>1. records' \in [Keys -> Record]
      BY <2>1, <2>1a, <2>2, ReplacedType DEF TypeOK
    <3>2. tx' \in [Clients -> CallType]
      BY <2>3, IdleType DEF TypeOK, CallType
    <3>3. revision' \in Nat
      BY <2>1a DEF TypeOK
    <3> QED BY <2>4, <3>1, <3>2, <3>3 DEF TypeOK, CallType
  <2>6. \A d \in Clients : \/ tx'[d] = tx[d]
                           \/ tx'[d].stage \notin {"submit", "reread"}
    BY <2>3, IdleType DEF TypeOK
  <2>7. \A k \in Keys : \/ records'[k] = records[k]
                        \/ records'[k].version = records[k].version + 1
    BY <2>1, <2>1a, <2>2, ReplacedType DEF TypeOK
  <2>8. ASSUME NEW d \in Clients, tx'[d].stage \in {"submit", "reread"}, NEW k \in tx'[d].keys
        PROVE  /\ tx'[d] = tx[d] /\ k \in Keys
               /\ records[k] \in Record /\ tx[d].seen[k] \in Record
               /\ tx[d].seen[k].version <= records[k].version
    BY <2>4, <2>6, <2>8 DEF VersionsReached, TypeOK
  <2>9. \A r \in Record : r.version \in Nat
    BY DEF Record
  <2>10. VersionsReached'
    <3> SUFFICES ASSUME NEW d \in Clients, tx'[d].stage \in {"submit", "reread"},
                        NEW k \in tx'[d].keys
                 PROVE  tx'[d].seen[k].version <= records'[k].version
      BY DEF VersionsReached
    <3>1. /\ tx'[d].seen[k].version = tx[d].seen[k].version /\ k \in Keys
          /\ tx[d].seen[k].version \in Nat /\ records[k].version \in Nat
          /\ tx[d].seen[k].version <= records[k].version
      BY <2>8, <2>9
    <3>2. records'[k].version = records[k].version \/ records'[k].version = records[k].version + 1
      BY <2>7, <3>1
    <3> QED BY ONLY <3>1, <3>2
  <2>11. SnapshotCurrent'
    <3> SUFFICES ASSUME NEW d \in Clients, tx'[d].stage = "submit", NEW k \in tx'[d].keys,
                        tx'[d].seen[k].version = records'[k].version
                 PROVE  tx'[d].seen[k] = records'[k]
      BY DEF SnapshotCurrent
    <3>1. /\ tx'[d] = tx[d] /\ k \in Keys
          /\ records[k] \in Record /\ tx[d].seen[k] \in Record
          /\ tx[d].seen[k].version <= records[k].version
      BY <2>8
    <3>2. records[k].version \in Nat /\ tx[d].seen[k].version \in Nat
      BY <2>9, <3>1
    <3>3. records'[k] = records[k] \/ records'[k].version = records[k].version + 1
      BY <2>7, <3>1
    <3>4. tx[d].seen[k].version = records'[k].version
      BY <3>1
    <3>5. records'[k] = records[k]
      BY <3>1, <3>2, <3>3, <3>4
    <3> QED BY <2>4, <3>1, <3>5 DEF SnapshotCurrent
  <2> QED BY <2>5, <2>10, <2>11
<1>4. ASSUME NEW c \in Clients, Lose(c) PROVE IInv'
  <2>1. CASE tx[c].attempts + 1 = MaxAttempts
    <3>1. tx' = [tx EXCEPT ![c] = Idle]
      BY <1>4, <2>1 DEF Lose
    <3> QED BY <1>4, <3>1, IdleType, LeaveKeepsIInv DEF Lose, TypeOK
  <2>2. CASE tx[c].attempts + 1 # MaxAttempts
    <3> DEFINE call == [tx[c] EXCEPT !.stage = "reread", !.attempts = tx[c].attempts + 1]
    <3>1. tx' = [tx EXCEPT ![c] = call]
      BY <1>4, <2>2 DEF Lose
    <3>2. tx[c] \in CallType /\ tx[c].attempts + 1 \in 0 .. MaxAttempts - 1
      <4>1. tx[c] \in CallType
        BY DEF TypeOK, CallType
      <4>2. tx[c].attempts \in 0 .. MaxAttempts - 1
        BY <4>1 DEF CallType
      <4> QED BY <2>2, <4>1, <4>2 DEF StoreAssumption
    <3>3. /\ call \in CallType /\ call.stage = "reread"
          /\ call.keys = tx[c].keys /\ call.seen = tx[c].seen
      BY <3>2 DEF CallType, Stages
    <3> HIDE DEF call
    <3>4. TypeOK'
      BY <1>4, <3>1, <3>3 DEF Lose, TypeOK, CallType
    <3>5. UNCHANGED <<records, closed>> /\ tx[c].stage = "submit"
      BY <1>4 DEF Lose
    <3>6. \A d \in Clients : /\ tx'[d].keys = tx[d].keys /\ tx'[d].seen = tx[d].seen
                             /\ d = c => tx'[d].stage = "reread"
                             /\ d # c => tx'[d].stage = tx[d].stage
      BY <3>1, <3>3 DEF TypeOK
    <3> QED BY <3>4, <3>5, <3>6 DEF VersionsReached, SnapshotCurrent
  <2> QED BY <2>1, <2>2
<1>5. ASSUME NEW c \in Clients, Overflow(c) PROVE IInv'
  BY <1>5, IdleType, LeaveKeepsIInv DEF Overflow, TypeOK
<1>6. ASSUME NEW c \in Clients, NEW gathered \in SUBSET Keys,
             TakePage(c, gathered), UNCHANGED <<records, used, revision, closed>>
      PROVE  IInv'
  <2> DEFINE all == gathered \cup PageAfter(gathered)
             more == [tx[c] EXCEPT !.stage = "paging", !.pages = all, !.bound = revision]
  <2>1. all \in SUBSET Keys
    BY DEF PageAfter, RestAfter, Live
  <2>2. more \in CallType /\ more.stage = "paging"
    <3>1. tx[c] \in CallType /\ revision \in Nat
      BY DEF TypeOK, CallType
    <3> HIDE DEF all
    <3> QED BY <2>1, <3>1 DEF CallType, Stages
  <2>3. DOMAIN result' = Clients
    BY <1>6 DEF TakePage, TypeOK
  <2>4. tx' = [tx EXCEPT ![c] = Idle] \/ tx' = [tx EXCEPT ![c] = more]
    BY <1>6 DEF TakePage, TypeOK
  <2>5. PICK call \in CallType : /\ tx' = [tx EXCEPT ![c] = call]
                                 /\ call.stage \notin {"submit", "reread"}
    BY <2>2, <2>4, IdleType
  <2> HIDE DEF all, more
  <2> QED BY <1>6, <2>3, <2>5, LeaveKeepsIInv
<1>7. ASSUME NEW c \in Clients, BeginListing(c) PROVE IInv'
  BY <1>6, <1>7 DEF BeginListing
<1>8. ASSUME NEW c \in Clients, ContinueListing(c) PROVE IInv'
  BY <1>6, <1>8 DEF ContinueListing, TypeOK
<1>9. ASSUME NEW c \in Clients, ListingConflict(c) PROVE IInv'
  BY <1>9, IdleType, LeaveKeepsIInv DEF ListingConflict, TypeOK
<1>10. ASSUME NEW c \in Clients, FindClosed(c) \/ Vanish(c) PROVE IInv'
  BY <1>10, IdleType, LeaveKeepsIInv DEF FindClosed, Vanish, TypeOK
<1>11. CASE Close
  <2>1. NoRecord \in Record
    BY DEF NoRecord, Record, Contents
  <2> QED BY <1>11, <2>1 DEF Close, TypeOK, VersionsReached, SnapshotCurrent
<1>12. CASE UNCHANGED vars
  BY <1>12 DEF vars, TypeOK, VersionsReached, SnapshotCurrent
<1> QED BY <1>1, <1>2, <1>3, <1>4, <1>5, <1>7, <1>8, <1>9, <1>10, <1>11, <1>12 DEF Next

LEMMA Invariance == ASSUME StoreAssumption PROVE Spec => []IInv
<1>1. Init => IInv
  BY InitIInv
<1>2. IInv /\ [Next]_vars => IInv'
  BY NextIInv
<1> QED BY <1>1, <1>2, PTL DEF Spec

\* The store and every client's snapshot stay well formed.
THEOREM TypeCorrect == ASSUME StoreAssumption PROVE Spec => []TypeOK
<1>1. IInv => TypeOK
  BY DEF IInv
<1> QED BY <1>1, Invariance, PTL

\* compare_exchange is free of ABA: in every reachable state, a version that
\* matches a snapshot's guarantees the content that the snapshot read.
THEOREM NoABA == ASSUME StoreAssumption PROVE Spec => []SnapshotCurrent
<1>1. IInv => SnapshotCurrent
  BY DEF IInv
<1> QED BY <1>1, Invariance, PTL

-----------------------------------------------------------------------------
(* Conflicts                                                               *)

\* What ConflictMeansProgress says of one transaction.
Served(c) ==
    /\ tx[c].stage = "reread" => tx[c].attempts <= revision - tx[c].begun
    /\ tx[c].stage = "submit" =>
         tx[c].attempts + (IF Matches(c) THEN 0 ELSE 1) <= revision - tx[c].begun

\* A compare-exchange that writes moves the revision on.
LEMMA ApplyCounts ==
    ASSUME StoreAssumption, IInv, NEW c \in Clients, Apply(c)
    PROVE  /\ tx' \in [Clients -> CallType] /\ \A d \in Clients \ {c} : tx'[d] = tx[d]
           /\ tx'[c].stage \in {"idle", "gone"}
           /\ revision' = revision + 1 \/ (revision' = revision /\ records' = records)
<1>1. tx \in [Clients -> CallType] /\ records \in [Keys -> Record]
  BY DEF IInv, TypeOK, CallType
<1>2. tx' = [tx EXCEPT ![c] = Idle] \/ tx' = [tx EXCEPT ![c] = Gone]
  BY DEF Apply
<1>3. PICK new \in Writes(c) :
        records' = Replaced(new) /\ revision' = IF DOMAIN new # {} THEN revision + 1 ELSE revision
  BY DEF Apply
<1>4. CASE DOMAIN new = {}
  <2>1. records' = records
    BY <1>1, <1>3, <1>4 DEF Replaced
  <2> QED BY <1>1, <1>2, <1>3, <1>4, <2>1, IdleType
<1>5. CASE DOMAIN new # {}
  BY <1>1, <1>2, <1>3, <1>5, IdleType
<1> QED BY <1>4, <1>5

LEMMA NextServed ==
    ASSUME StoreAssumption, IInv, ConflictMeansProgress, [Next]_vars
    PROVE  ConflictMeansProgress'
<1>0. /\ tx \in [Clients -> CallType] /\ revision \in Nat
      /\ ~closed => \A c \in Clients : Served(c)
  BY DEF IInv, TypeOK, CallType, ConflictMeansProgress, Served
<1>1. SUFFICES ASSUME ~closed', NEW d \in Clients PROVE Served(d)'
  BY DEF ConflictMeansProgress, Served
<1>2. ASSUME ~closed, tx'[d] = tx[d], UNCHANGED <<records, revision>> PROVE Served(d)'
  BY <1>0, <1>2 DEF Served, Matches
<1>3. ASSUME tx'[d].stage \notin {"submit", "reread"} PROVE Served(d)'
  BY <1>3 DEF Served
<1>4. ASSUME NEW c \in Clients, ~closed, UNCHANGED <<records, revision>>,
             \/ \E K \in SUBSET Keys : Begin(c, K)
             \/ Reread(c) \/ Lose(c) \/ Overflow(c) \/ BeginListing(c) \/ ContinueListing(c)
             \/ ListingConflict(c) \/ Vanish(c)
      PROVE  Served(d)'
  <2>1. CASE d # c
    <3>1. tx'[d] = tx[d]
      BY <1>0, <1>4, <2>1 DEF Begin, Reread, Lose, Overflow, BeginListing, ContinueListing,
                               TakePage, ListingConflict, Vanish
    <3> QED BY <1>2, <1>4, <3>1
  <2>2. ASSUME d = c, NEW K \in SUBSET Keys, Begin(c, K) PROVE Served(d)'
    <3>1. /\ tx'[c].stage = "submit" /\ tx'[c].attempts = 0 /\ tx'[c].begun = revision
          /\ tx'[c].keys = K /\ tx'[c].seen = Snapshot(K)
      BY <1>0, <2>2 DEF Begin
    <3>2. Matches(c)'
      BY <1>4, <3>1 DEF Matches, Snapshot
    <3> QED BY <1>0, <1>4, <2>2, <3>1, <3>2 DEF Served
  <2>3. ASSUME d = c, Reread(c) PROVE Served(d)'
    <3>1. /\ tx'[c].stage = "submit" /\ tx'[c].attempts = tx[c].attempts
          /\ tx'[c].begun = tx[c].begun /\ tx'[c].keys = tx[c].keys
          /\ tx'[c].seen = Snapshot(tx[c].keys) /\ tx[c].stage = "reread"
      BY <1>0, <2>3 DEF Reread, CallType
    <3>2. Matches(c)'
      <4>1. tx[c].keys \subseteq Keys
        BY <1>0 DEF CallType
      <4> QED BY <1>4, <3>1, <4>1 DEF Matches, Snapshot
    <3>3. tx[c].attempts \in Nat /\ tx[c].begun \in Nat
      BY <1>0, StoreAssumption DEF CallType, StoreAssumption
    <3> QED BY <1>0, <1>4, <2>3, <3>1, <3>2, <3>3 DEF Served
  <2>4. ASSUME d = c, Lose(c) PROVE Served(d)'
    <3>1. CASE tx[c].attempts + 1 = MaxAttempts
      BY <1>0, <1>3, <2>4, <3>1, IdleType DEF Lose
    <3>2. CASE tx[c].attempts + 1 # MaxAttempts
      <4>1. /\ tx'[c].stage = "reread" /\ tx'[c].attempts = tx[c].attempts + 1
            /\ tx'[c].begun = tx[c].begun /\ tx[c].stage = "submit" /\ ~Matches(c)
        BY <1>0, <2>4, <3>2 DEF Lose, CallType
      <4> QED BY <1>0, <1>4, <2>4, <4>1 DEF Served
    <3> QED BY <3>1, <3>2
  <2>5. ASSUME d = c, \/ Overflow(c) \/ BeginListing(c) \/ ContinueListing(c)
                      \/ ListingConflict(c) \/ Vanish(c)
        PROVE  Served(d)'
    <3>1. Idle.stage = "idle" /\ Gone.stage = "gone"
      BY IdleType
    <3>2. tx'[c].stage \in {"idle", "gone", "paging"}
      <4>1. \A gathered : TakePage(c, gathered) => tx'[c].stage \in {"idle", "paging"}
        BY <1>0, <3>1 DEF TakePage, CallType
      <4>2. CASE BeginListing(c) \/ ContinueListing(c)
        BY <4>1, <4>2 DEF BeginListing, ContinueListing
      <4>3. CASE Overflow(c) \/ ListingConflict(c) \/ Vanish(c)
        BY <1>0, <3>1, <4>3 DEF Overflow, ListingConflict, Vanish
      <4> QED BY <2>5, <4>2, <4>3
    <3> QED BY <1>3, <2>5, <3>2
  <2> QED BY <1>4, <2>1, <2>2, <2>3, <2>4, <2>5
<1>5. ASSUME NEW c \in Clients, Apply(c) PROVE Served(d)'
  <2>1. CASE d = c
    BY <1>3, <1>5, <2>1, ApplyCounts
  <2>2. CASE d # c /\ revision' = revision /\ records' = records
    BY <1>2, <1>5, <2>2, ApplyCounts DEF Apply
  <2>3. CASE d # c /\ revision' = revision + 1
    <3>1. tx'[d] = tx[d] /\ ~closed
      BY <1>5, <2>3, ApplyCounts DEF Apply
    <3>2. tx[d].attempts \in Nat /\ tx[d].begun \in Nat
      BY <1>0, StoreAssumption DEF CallType, StoreAssumption
    <3>3. \/ tx[d].stage \notin {"submit", "reread"}
          \/ tx[d].attempts <= revision - tx[d].begun
      BY <1>0, <3>1, <3>2 DEF Served
    <3> QED BY <1>0, <2>3, <3>1, <3>2, <3>3 DEF Served
  <2> QED BY <1>5, <2>1, <2>2, <2>3, ApplyCounts
<1>6. CASE UNCHANGED vars
  BY <1>1, <1>2, <1>6 DEF vars
<1>7. ASSUME NEW c \in Clients, FindClosed(c) PROVE Served(d)'
  BY <1>1, <1>7 DEF FindClosed
<1>8. CASE Close
  BY <1>1, <1>8 DEF Close
<1>9. ASSUME NEW c \in Clients,
             \/ \E K \in (SUBSET Keys) \ {{}} : Begin(c, K)
             \/ Reread(c) \/ Lose(c) \/ Overflow(c) \/ BeginListing(c) \/ ContinueListing(c)
             \/ ListingConflict(c) \/ Vanish(c)
      PROVE  Served(d)'
  <2>1. ~closed /\ UNCHANGED <<records, revision>>
    BY <1>9 DEF Begin, Reread, Lose, Overflow, BeginListing, ContinueListing, ListingConflict, Vanish
  <2> QED BY <1>4, <1>9, <2>1
<1> QED BY <1>5, <1>6, <1>7, <1>8, <1>9 DEF Next

\* Who is told "conflict" has lost to that many updates of others.
THEOREM ConflictIsProgress == ASSUME StoreAssumption PROVE Spec => []ConflictMeansProgress
<1>1. Init => ConflictMeansProgress
  BY IdleType DEF Init, ConflictMeansProgress
<1>2. IInv /\ ConflictMeansProgress /\ [Next]_vars => ConflictMeansProgress'
  BY NextServed
<1> QED BY <1>1, <1>2, Invariance, PTL DEF Spec

-----------------------------------------------------------------------------
(* Bytes: a sum is the number of its units, and splits where the records   *)
(* that an update writes are set apart from the others.                    *)

\* The units that f counts.
Units(f) == UNION {{k} \X (1 .. f[k]) : k \in DOMAIN f}

\* There are finitely many, so a sum is a number.
LEMMA UnitsFinite ==
    ASSUME NEW S, IsFiniteSet(S), NEW f \in [S -> Nat]
    PROVE  IsFiniteSet(Units(f)) /\ Volume(f) = Cardinality(Units(f)) /\ Volume(f) \in Nat
<1> DEFINE g == [k \in S |-> {k} \X (1 .. f[k])]
           T == {{k} \X (1 .. f[k]) : k \in S}
<1>1. g \in Surjection(S, T)
  BY Fun_IsSurj
<1>2. IsFiniteSet(T)
  BY <1>1, FS_Surjection
<1>3. ASSUME NEW k \in S PROVE IsFiniteSet({k} \X (1 .. f[k]))
  <2>1. IsFiniteSet({k})
    BY FS_Singleton
  <2>2. f[k] \in Int /\ 1 \in Int
    OBVIOUS
  <2>3. IsFiniteSet(1 .. f[k])
    BY ONLY <2>2, FS_Interval
  <2> QED BY ONLY <2>1, <2>3, FS_Product
<1>4. IsFiniteSet(UNION T)
  BY <1>2, <1>3, FS_UNION
<1>5. Units(f) = UNION T
  BY DEF Units
<1> QED BY <1>4, <1>5, FS_CardinalityType DEF Units, Volume

\* A sum splits over any part of the domain.
LEMMA VolumeSplits ==
    ASSUME NEW S, IsFiniteSet(S), NEW f \in [S -> Nat], NEW W \in SUBSET S
    PROVE  /\ Volume([k \in W |-> f[k]]) \in Nat /\ Volume([k \in S \ W |-> f[k]]) \in Nat
           /\ Volume(f) = Volume([k \in W |-> f[k]]) + Volume([k \in S \ W |-> f[k]])
<1> DEFINE g == [k \in W |-> f[k]]
           h == [k \in S \ W |-> f[k]]
<1>1. IsFiniteSet(W) /\ IsFiniteSet(S \ W)
  BY FS_Subset, FS_Difference
<1>2. /\ IsFiniteSet(Units(g)) /\ Volume(g) = Cardinality(Units(g)) /\ Volume(g) \in Nat
      /\ IsFiniteSet(Units(h)) /\ Volume(h) = Cardinality(Units(h)) /\ Volume(h) \in Nat
  <2>1. g \in [W -> Nat] /\ h \in [S \ W -> Nat]
    OBVIOUS
  <2> HIDE DEF g, h
  <2> QED BY <1>1, <2>1, UnitsFinite
<1>3. Units(f) = Units(g) \union Units(h) /\ Units(g) \intersect Units(h) = {}
  <2>1. /\ \A u : u \in Units(f) <=> \E k \in S : u \in {k} \X (1 .. f[k])
        /\ \A u : u \in Units(g) <=> \E k \in W : u \in {k} \X (1 .. f[k])
        /\ \A u : u \in Units(h) <=> \E k \in S \ W : u \in {k} \X (1 .. f[k])
    BY DEF Units
  <2> HIDE DEF g, h
  <2>2. \A u : u \in Units(f) <=> (u \in Units(g) \/ u \in Units(h))
    BY <2>1
  <2>3. ASSUME NEW u \in Units(g), u \in Units(h) PROVE FALSE
    <3>1. PICK k \in W : u \in {k} \X (1 .. f[k])
      BY <2>1
    <3>2. PICK j \in S \ W : u \in {j} \X (1 .. f[j])
      BY <2>1, <2>3
    <3>3. u[1] = k /\ u[1] = j
      BY <3>1, <3>2
    <3> QED BY <3>3
  <2> QED BY <2>2, <2>3
<1>4. Cardinality(Units(g) \union Units(h)) = Cardinality(Units(g)) + Cardinality(Units(h))
  <2>1. Cardinality({}) = 0
    BY FS_EmptySet
  <2> HIDE DEF g, h
  <2>2. Cardinality(Units(g) \union Units(h))
          = Cardinality(Units(g)) + Cardinality(Units(h)) - Cardinality(Units(g) \intersect Units(h))
    BY ONLY <1>2, FS_Union
  <2>3. Cardinality(Units(g) \intersect Units(h)) = 0
    BY <1>3, <2>1
  <2>4. Cardinality(Units(g)) \in Nat /\ Cardinality(Units(h)) \in Nat
    BY <1>2
  <2> QED BY ONLY <2>2, <2>3, <2>4
<1> QED
  <2> HIDE DEF g, h
  <2>1. Volume(f) = Cardinality(Units(f))
    BY UnitsFinite
  <2>2. Volume(f) = Volume(g) + Volume(h) /\ Volume(g) \in Nat /\ Volume(h) \in Nat
    BY <1>2, <1>3, <1>4, <2>1
  <2> USE DEF g, h
  <2> QED BY <2>2

\* What each record takes.
Sizes == [k \in Keys |-> Size(records[k])]

\* The sizes are numbers, of finitely many keys.
LEMMA SizesType ==
    ASSUME StoreAssumption, TypeOK PROVE Sizes \in [Keys -> Nat] /\ IsFiniteSet(Keys)
BY DEF StoreAssumption, TypeOK, Sizes, Size, Record, Contents

\* Nothing takes no space.
LEMMA NoBytes == ASSUME NEW S PROVE Volume([k \in S |-> 0]) = 0
<1>1. UNION {{k} \X (1 .. 0) : k \in S} = {}
  OBVIOUS
<1>2. Units([k \in S |-> 0]) = {}
  BY DEF Units
<1> QED BY <1>2, FS_EmptySet DEF Volume, Units

\* What a compare-exchange adds to the count is what it adds to the records.
LEMMA ApplyExact ==
    ASSUME StoreAssumption, TypeOK, UsedExact, NEW c \in Clients, Apply(c)
    PROVE  UsedExact'
<1>1. PICK new \in Writes(c) :
        UsedAfter(new) <= MaxBytes /\ records' = Replaced(new) /\ used' = UsedAfter(new)
  BY DEF Apply
<1>2. PICK W \in SUBSET Keys : new \in [W -> Contents]
  <2>1. tx[c].keys \in SUBSET Keys
    BY DEF TypeOK
  <2> QED BY <1>1, <2>1 DEF Writes
<1> DEFINE old == [k \in W |-> Sizes[k]]
           rest == [k \in Keys \ W |-> Sizes[k]]
           wrote == [k \in W |-> Weight[new[k]]]
<1>3. /\ Volume(old) \in Nat /\ Volume(rest) \in Nat
      /\ Volume(Sizes) = Volume(old) + Volume(rest)
  <2> DEFINE f == Sizes
  <2>1. f \in [Keys -> Nat] /\ IsFiniteSet(Keys) /\ W \in SUBSET Keys
    BY SizesType
  <2> HIDE DEF f
  <2>2. /\ Volume([k \in W |-> f[k]]) \in Nat /\ Volume([k \in Keys \ W |-> f[k]]) \in Nat
        /\ Volume(f) = Volume([k \in W |-> f[k]]) + Volume([k \in Keys \ W |-> f[k]])
    BY ONLY <2>1, VolumeSplits
  <2> QED BY <2>2 DEF f
<1>4. Sizes' \in [Keys -> Nat] /\ \A k \in Keys : Sizes'[k] = IF k \in W THEN wrote[k] ELSE Sizes[k]
  BY <1>1, <1>2 DEF StoreAssumption, TypeOK, Replaced, Record, Size, Sizes, Contents
<1>5. /\ [k \in W |-> Sizes'[k]] = wrote /\ [k \in Keys \ W |-> Sizes'[k]] = rest
  BY <1>4
<1>6. Volume(wrote) \in Nat /\ Volume(Sizes') = Volume(wrote) + Volume(rest)
  <2> DEFINE f == Sizes'
  <2> HIDE DEF f, wrote, rest
  <2>1. /\ Volume([k \in W |-> f[k]]) \in Nat
        /\ Volume(f) = Volume([k \in W |-> f[k]]) + Volume([k \in Keys \ W |-> f[k]])
    <3>1. f \in [Keys -> Nat] /\ IsFiniteSet(Keys) /\ W \in SUBSET Keys
      BY <1>4, SizesType DEF f
    <3> QED BY ONLY <3>1, VolumeSplits
  <2> QED BY <1>5, <2>1 DEF f
<1>7. Written(new) = Volume(wrote) /\ [k \in DOMAIN new |-> Size(records[k])] = old
  BY <1>2 DEF Written, Sizes
<1>8. used = Volume(Sizes)
  BY DEF UsedExact, Sizes
<1>9. used' = Volume(Sizes')
  <2> HIDE DEF old, rest, wrote
  <2> QED BY <1>1, <1>3, <1>6, <1>7, <1>8 DEF UsedAfter
<1> QED BY <1>1, <1>9 DEF UsedExact, Sizes

\* No other step of a client changes records or count.
LEMMA NextExact ==
    ASSUME StoreAssumption, TypeOK, UsedExact, [Next]_vars
    PROVE  UsedExact'
<1>1. ASSUME UNCHANGED <<records, used>> PROVE UsedExact'
  BY <1>1 DEF UsedExact
<1>2. CASE Close
  <2>1. [k \in Keys |-> Size(records'[k])] = [k \in Keys |-> 0]
    BY <1>2 DEF Close, Size, NoRecord
  <2>2. used' = 0
    BY <1>2 DEF Close
  <2>3. Volume([k \in Keys |-> Size(records'[k])]) = 0
    BY <2>1, NoBytes
  <2>4. 0 <= MaxBytes
    BY DEF StoreAssumption
  <2> QED BY <2>2, <2>3, <2>4 DEF UsedExact
<1>3. CASE UNCHANGED vars
  BY <1>1, <1>3 DEF vars
<1>4. ASSUME NEW c \in Clients,
             \/ \E K \in (SUBSET Keys) \ {{}} : Begin(c, K)
             \/ Reread(c) \/ Lose(c) \/ Overflow(c) \/ BeginListing(c) \/ ContinueListing(c)
             \/ ListingConflict(c) \/ FindClosed(c) \/ Vanish(c)
      PROVE  UsedExact'
  <2>1. UNCHANGED <<records, used>>
    BY <1>4 DEF Begin, Reread, Lose, Overflow, BeginListing, ContinueListing, ListingConflict,
                FindClosed, Vanish
  <2> QED BY <1>1, <2>1
<1> QED BY <1>2, <1>3, <1>4, ApplyExact DEF Next

\* What the store counts is so: its byte count, kept up by differences, is what
\* the records and tombstones take and within the capacity; its revisions cover
\* every attempt that was lost; records and snapshots are well formed.
THEOREM StoreIsSound == ASSUME StoreAssumption PROVE Spec => []StoreSound
<1>1. Init => UsedExact
  <2> SUFFICES ASSUME Init PROVE UsedExact
    OBVIOUS
  <2>1. [k \in Keys |-> Size(records[k])] = [k \in Keys |-> 0] /\ used = 0
    BY DEF Init, Size, NoRecord
  <2>2. Volume([k \in Keys |-> Size(records[k])]) = 0
    BY <2>1, NoBytes
  <2>3. 0 <= MaxBytes
    BY DEF StoreAssumption
  <2> QED BY <2>1, <2>2, <2>3 DEF UsedExact
<1>2. TypeOK /\ UsedExact /\ [Next]_vars => UsedExact'
  BY NextExact
<1>3. Spec => []UsedExact
  BY <1>1, <1>2, TypeCorrect, PTL DEF Spec
<1>4. TypeOK /\ UsedExact /\ ConflictMeansProgress => StoreSound
  BY DEF StoreSound
<1> QED BY <1>3, <1>4, TypeCorrect, ConflictIsProgress, PTL

-----------------------------------------------------------------------------
(* Listings: while no update intervenes, the pages gathered so far are all *)
(* the live keys up to the last one of them.                               *)

Segment(pages) ==
    /\ pages \subseteq Live
    /\ \A k \in Live : \A g \in pages : k <= g => k \in pages

PagesCurrent ==
    \A c \in Clients : (~closed /\ tx[c].stage = "paging") =>
        /\ tx[c].bound <= revision
        /\ tx[c].bound = revision => Segment(tx[c].pages)

\* A page extends a segment to a segment, and the last one completes it.
LEMMA PageExtends ==
    ASSUME StoreAssumption, NEW gathered, Segment(gathered)
    PROVE  /\ Segment(gathered \cup PageAfter(gathered))
           /\ Cardinality(RestAfter(gathered)) <= PageLimit
                 => gathered \cup PageAfter(gathered) = Live
<1> DEFINE rest == RestAfter(gathered)
           page == PageAfter(gathered)
           below(k) == {j \in rest : j < k}
<1>1. /\ Live \subseteq Nat /\ IsFiniteSet(rest) /\ rest \subseteq Live
      /\ gathered \subseteq Live
  <2>1. Live \in SUBSET Keys /\ rest \in SUBSET Keys
    BY DEF Live, RestAfter
  <2> QED BY <2>1, FS_Subset DEF StoreAssumption, RestAfter, Segment
<1>2. ASSUME NEW k \in rest, NEW p \in page, k <= p PROVE k \in page
  <2>1. p \in rest /\ Cardinality(below(p)) < PageLimit
    BY DEF PageAfter
  <2>2. below(k) \in SUBSET below(p) /\ below(p) \in SUBSET rest
    <3>1. rest \subseteq Nat /\ k \in Nat /\ p \in Nat
      BY <1>1, <2>1
    <3>2. \A j \in rest : j < k => j < p
      BY <1>2, <3>1
    <3> HIDE DEF rest
    <3> QED BY <3>2
  <2>3. IsFiniteSet(below(p)) /\ IsFiniteSet(below(k))
    BY <1>1, <2>2, FS_Subset
  <2>4. Cardinality(below(k)) <= Cardinality(below(p))
    BY <2>2, <2>3, FS_Subset
  <2>5. Cardinality(below(k)) \in Nat /\ Cardinality(below(p)) \in Nat
    BY <2>3, FS_CardinalityType
  <2>6. Cardinality(below(k)) < PageLimit
    BY <2>1, <2>4, <2>5 DEF StoreAssumption
  <2> QED BY <2>6 DEF PageAfter
<1>3. Live = gathered \cup rest
  <2>1. ASSUME NEW k \in Live, k \notin rest PROVE k \in gathered
    <3>1. PICK g \in gathered : ~(g < k)
      BY <2>1 DEF RestAfter
    <3>2. k \in Nat /\ g \in Nat
      BY <1>1, <3>1
    <3>3. k <= g
      BY <3>1, <3>2
    <3> QED BY <3>1, <3>3 DEF Segment
  <2> QED BY <1>1, <2>1
<1>4. Segment(gathered \cup page)
  <2>1. page \subseteq rest
    BY DEF PageAfter
  <2>2. ASSUME NEW k \in Live, NEW g \in gathered \cup page, k <= g
        PROVE  k \in gathered \cup page
    BY <1>2, <1>3, <2>1, <2>2 DEF Segment
  <2> QED BY <1>1, <2>1, <2>2 DEF Segment
<1>5. ASSUME Cardinality(rest) <= PageLimit PROVE rest \subseteq page
  <2> SUFFICES ASSUME NEW k \in rest PROVE Cardinality(below(k)) < PageLimit
    BY DEF PageAfter
  <2>1. below(k) \in SUBSET rest /\ k \notin below(k)
    <3>1. k \in Nat
      BY <1>1
    <3>2. ~(k < k)
      BY <3>1
    <3> HIDE DEF rest
    <3> QED BY <3>2
  <2>2. /\ Cardinality(below(k)) <= Cardinality(rest)
        /\ Cardinality(below(k)) # Cardinality(rest)
        /\ IsFiniteSet(below(k))
    BY <1>1, <2>1, FS_Subset
  <2>3. Cardinality(below(k)) \in Nat /\ Cardinality(rest) \in Nat
    BY <1>1, <2>2, FS_CardinalityType
  <2> QED BY <1>5, <2>2, <2>3 DEF StoreAssumption
<1>6. page \subseteq rest
  BY DEF PageAfter
<1> QED BY <1>3, <1>4, <1>5, <1>6

THEOREM NextPages ==
    ASSUME StoreAssumption, IInv, PagesCurrent, [Next]_vars PROVE PagesCurrent'
<1>1. ASSUME UNCHANGED <<records, revision, closed>>,
             \A c \in Clients : tx'[c] = tx[c] \/ tx'[c].stage # "paging"
      PROVE  PagesCurrent'
  BY <1>1 DEF PagesCurrent, Segment, Live
<1>2. ASSUME NEW c \in Clients, NEW K \in (SUBSET Keys) \ {{}}, Begin(c, K)
      PROVE  PagesCurrent'
  BY <1>1, <1>2 DEF Begin, IInv, TypeOK
<1>3. ASSUME NEW c \in Clients, Reread(c) PROVE PagesCurrent'
  <2> DEFINE call == [tx[c] EXCEPT !.stage = "submit", !.seen = Snapshot(tx[c].keys)]
  <2>1. call.stage = "submit"
    BY DEF IInv, TypeOK
  <2>2. tx' = [tx EXCEPT ![c] = call] /\ UNCHANGED <<records, revision, closed>>
    BY <1>3 DEF Reread
  <2> HIDE DEF call
  <2> QED BY <1>1, <2>1, <2>2 DEF IInv, TypeOK
<1>4. ASSUME NEW c \in Clients, Apply(c) PROVE PagesCurrent'
  <2>1. PICK new \in Writes(c) :
             /\ records' = Replaced(new)
             /\ revision' = IF DOMAIN new # {} THEN revision + 1 ELSE revision
    BY <1>4 DEF Apply
  <2>2. closed' = closed /\ \A d \in Clients : tx'[d] = tx[d] \/ tx'[d].stage # "paging"
    BY <1>4, IdleType DEF Apply, IInv, TypeOK
  <2>3. CASE DOMAIN new = {}
    <3>1. records' = records
      BY <2>1, <2>3 DEF Replaced, IInv, TypeOK
    <3> QED BY <1>1, <2>1, <2>2, <2>3, <3>1
  <2>4. CASE DOMAIN new # {}
    <3>1. \A d \in Clients : tx[d].bound \in Nat /\ revision \in Nat
      BY DEF IInv, TypeOK
    <3> QED BY <2>1, <2>2, <2>4, <3>1 DEF PagesCurrent
  <2> QED BY <2>3, <2>4
<1>5. ASSUME NEW c \in Clients, Lose(c) PROVE PagesCurrent'
  <2> DEFINE call == [tx[c] EXCEPT !.stage = "reread", !.attempts = tx[c].attempts + 1]
  <2>1. call.stage = "reread"
    BY DEF IInv, TypeOK
  <2>2. tx' = [tx EXCEPT ![c] = Idle] \/ tx' = [tx EXCEPT ![c] = call]
    BY <1>5 DEF Lose
  <2>3. UNCHANGED <<records, revision, closed>>
    BY <1>5 DEF Lose
  <2> HIDE DEF call
  <2> QED BY <1>1, <2>1, <2>2, <2>3, IdleType DEF IInv, TypeOK
<1>6. ASSUME NEW c \in Clients,
             Overflow(c) \/ ListingConflict(c) \/ FindClosed(c) \/ Vanish(c)
      PROVE  PagesCurrent'
  BY <1>1, <1>6, IdleType DEF Overflow, ListingConflict, FindClosed, Vanish, IInv, TypeOK
<1>7. ASSUME NEW c \in Clients, NEW gathered, TakePage(c, gathered), Segment(gathered),
             UNCHANGED <<records, used, revision, closed>>
      PROVE  PagesCurrent'
  <2> DEFINE all == gathered \cup PageAfter(gathered)
             more == [tx[c] EXCEPT !.stage = "paging", !.pages = all, !.bound = revision]
  <2>1. more.pages = all /\ more.bound = revision
    BY DEF IInv, TypeOK
  <2>2. tx' = [tx EXCEPT ![c] = Idle] \/ tx' = [tx EXCEPT ![c] = more]
    BY <1>7 DEF TakePage
  <2>3. Segment(all) /\ revision \in Nat
    BY <1>7, PageExtends DEF IInv, TypeOK
  <2>4. Segment(all)'
    BY <1>7, <2>3 DEF Segment, Live, PageAfter, RestAfter
  <2> HIDE DEF all, more
  <2>5. \A d \in Clients :
          \/ tx'[d] = tx[d]
          \/ tx'[d].stage = "idle"
          \/ tx'[d].pages = all /\ tx'[d].bound = revision
    BY <2>1, <2>2, IdleType DEF IInv, TypeOK
  <2>6. Live' = Live
    BY <1>7 DEF Live
  <2>7. \A d \in Clients : tx'[d] = tx[d] \/ tx'[d].stage = "idle"
                            \/ (tx'[d].bound = revision' /\ Segment(tx[d].pages)')
    BY <1>7, <2>3, <2>5, <2>6 DEF Segment
  <2> QED BY <1>7, <2>3, <2>6, <2>7 DEF PagesCurrent, Segment
<1>8. ASSUME NEW c \in Clients, BeginListing(c) PROVE PagesCurrent'
  BY <1>7, <1>8 DEF BeginListing, Segment
<1>9. ASSUME NEW c \in Clients, ContinueListing(c) PROVE PagesCurrent'
  BY <1>7, <1>9 DEF ContinueListing, PagesCurrent
<1>10. CASE Close
  BY <1>10 DEF Close, PagesCurrent
<1>11. CASE UNCHANGED vars
  BY <1>1, <1>11 DEF vars
<1> QED BY <1>2, <1>3, <1>4, <1>5, <1>6, <1>8, <1>9, <1>10, <1>11 DEF Next

-----------------------------------------------------------------------------
(* Refinement: every step of the store is a step of AtomicStore or leaves  *)
(* its variables alone.                                                    *)

Contained == [k \in Keys |-> records[k].content]

\* What a client has read is what the store holds when its versions match.
LEMMA ReadIsCurrent ==
    ASSUME IInv, NEW c \in Clients, tx[c].stage = "submit", ~closed, Matches(c)
    PROVE  /\ tx[c].keys \in SUBSET Keys
           /\ [k \in tx[c].keys |-> tx[c].seen[k].content] = [k \in tx[c].keys |-> Contained[k]]
<1>1. tx[c].keys \in SUBSET Keys
  BY DEF IInv, TypeOK
<1>2. \A k \in tx[c].keys : tx[c].seen[k] = records[k]
  BY DEF IInv, SnapshotCurrent, Matches
<1>3. \A k \in tx[c].keys : tx[c].seen[k].content = Contained[k]
  BY <1>1, <1>2 DEF Contained
<1> QED BY <1>1, <1>3

THEOREM StepSimulation ==
    ASSUME StoreAssumption, IInv, PagesCurrent, [Next]_vars
    PROVE  [Atomic!Next]_Atomic!vars
<1> USE DEF Atomic!vars
<1>1. ASSUME NEW c \in Clients, result' = [result EXCEPT ![c] = Nothing], records' = records
      PROVE  Atomic!Next
  BY <1>1 DEF Atomic!Next, Atomic!Forget
<1>2. ASSUME NEW c \in Clients, NEW K \in (SUBSET Keys) \ {{}}, Begin(c, K)
      PROVE  Atomic!Next
  BY <1>1, <1>2 DEF Begin
<1>3. ASSUME NEW c \in Clients, Apply(c) PROVE Atomic!Next
  <2>1. PICK new \in Writes(c) : records' = Replaced(new)
    BY <1>3 DEF Apply
  <2>2. PICK W \in SUBSET tx[c].keys : new \in [W -> Contents]
    BY <2>1 DEF Writes
  <2>3. /\ tx[c].keys \in SUBSET Keys
        /\ result' = [result EXCEPT ![c] = [read |-> [k \in tx[c].keys |-> Contained[k]]]]
    BY <1>3, ReadIsCurrent DEF Apply
  <2>4. Contained' = [k \in Keys |-> IF k \in W THEN new[k] ELSE records[k].content]
    <3>1. W \in SUBSET Keys /\ records \in [Keys -> Record]
      BY <2>2, <2>3 DEF IInv, TypeOK
    <3>2. Contained' = [k \in Keys |-> Replaced(new)[k].content]
      BY <2>1 DEF Contained
    <3> QED BY <2>2, <3>1, <3>2, ReplacedType
  <2>5. Contained' = [k \in Keys |-> IF k \in W THEN new[k] ELSE Contained[k]]
    BY <2>2, <2>3, <2>4 DEF Contained
  <2>6. Atomic!Transact(c)
    <3>1. W \in SUBSET tx[c].keys /\ new \in [W -> Values \cup {None}]
      BY <2>2 DEF Contents
    <3>2. \E K \in SUBSET Keys : \E V \in SUBSET K : \E n \in [V -> Values \cup {None}] :
            /\ result' = [result EXCEPT ![c] = [read |-> [k \in K |-> Contained[k]]]]
            /\ Contained' = [k \in Keys |-> IF k \in V THEN n[k] ELSE Contained[k]]
      <4> USE <2>3, <3>1
      <4> WITNESS tx[c].keys \in SUBSET Keys
      <4> WITNESS W \in SUBSET tx[c].keys
      <4> WITNESS new \in [W -> Values \cup {None}]
      <4> QED BY <2>3, <2>5
    <3> QED BY <3>2 DEF Atomic!Transact, Contained
  <2> QED BY <2>6 DEF Atomic!Next
<1>4. ASSUME NEW c \in Clients, NEW gathered, TakePage(c, gathered), Segment(gathered),
             records' = records
      PROVE  Atomic!Next
  <2>1. CASE Cardinality(RestAfter(gathered)) <= PageLimit
    <3>1. result' = [result EXCEPT ![c] = [keys |-> Live]]
      BY <1>4, <2>1, PageExtends DEF TakePage
    <3>2. Live = Atomic!Live
      BY DEF Live, Atomic!Live
    <3>3. Atomic!List(c)
      BY <1>4, <3>1, <3>2 DEF Atomic!List
    <3> QED BY <3>3 DEF Atomic!Next
  <2>2. CASE ~(Cardinality(RestAfter(gathered)) <= PageLimit)
    BY <1>1, <1>4, <2>2 DEF TakePage
  <2> QED BY <2>1, <2>2
<1>4a. ASSUME NEW c \in Clients, BeginListing(c) PROVE Atomic!Next
  BY <1>4, <1>4a DEF BeginListing, Segment
<1>4b. ASSUME NEW c \in Clients, ContinueListing(c) PROVE Atomic!Next
  BY <1>4, <1>4b DEF ContinueListing, PagesCurrent
<1>5. CASE Close
  BY <1>5 DEF Close, NoRecord, Atomic!Next, Atomic!Close
<1>6. ASSUME NEW c \in Clients, Reread(c) \/ Lose(c) \/ Overflow(c) \/ ListingConflict(c)
      PROVE  UNCHANGED Atomic!vars
  BY <1>6 DEF Reread, Lose, Overflow, ListingConflict
<1>7. ASSUME NEW c \in Clients, FindClosed(c) \/ Vanish(c) PROVE Atomic!Next
  BY <1>1, <1>7 DEF FindClosed, Vanish
<1>8. CASE UNCHANGED vars
  BY <1>8 DEF vars
<1> QED BY <1>2, <1>3, <1>4a, <1>4b, <1>5, <1>6, <1>7, <1>8 DEF Next

\* MemoryStateStore and the optimistic transactions over it keep the promise of
\* AtomicStore, whatever the number of clients, records and lost answers.
THEOREM StoreImplementsAtomicStore ==
    ASSUME StoreAssumption PROVE Spec => ImplementsAtomicStore
<1>1. Init => IInv /\ PagesCurrent /\ Atomic!Init
  <2>1. ASSUME Init PROVE PagesCurrent
    BY <2>1, IdleType DEF Init, PagesCurrent
  <2>2. ASSUME Init PROVE Atomic!Init
    BY <2>2 DEF Init, Atomic!Init, NoRecord
  <2> QED BY <2>1, <2>2, InitIInv
<1>2. IInv /\ PagesCurrent /\ [Next]_vars => IInv' /\ PagesCurrent'
  BY NextIInv, NextPages
<1>3. IInv /\ PagesCurrent /\ [Next]_vars => [Atomic!Next]_Atomic!vars
  BY StepSimulation
<1> QED BY <1>1, <1>2, <1>3, PTL DEF Spec, ImplementsAtomicStore, Atomic!Spec

-----------------------------------------------------------------------------
(* The upgrade and its journal.                                              *)

Held == [edit : 0 .. MaxEdits, migs : SUBSET Migrations, exists : {TRUE}] \union {Absent}
Entries == [stage : {"pre", "post"}, path : Files \union {Root}, was : Held]
Running == {"copy", "blobs", "lines", "seed", "migrate", "effects", "cutover"}
Ending == {"discard", "sweep", "version"}
Restoring == {"plan", "restore"}
Pcs == Running \union Ending \union Restoring \union {"idle", "load", "guard", "open", "core"}
Jobs == [pc : Pcs, old : Nat, new : Nat, force : BOOLEAN, stage : {"pre", "post", "ledger"},
         mig : SUBSET Migrations, left : SUBSET Paths, todo : Seq(Entries), then : Pcs,
         failed : SUBSET Files, plan : SUBSET Files, backup : [CoreFiles -> Versions] \union {<<>>}]

\* The values of the variables.
Typed ==
    /\ version \in Versions /\ core \in [CoreFiles -> Versions] /\ vault \in [Files -> Held]
    /\ head \in (Versions \X Versions) \union {NoHead}
    /\ lines \in Seq(Entries \union {Torn}) /\ job \in Jobs
    /\ \A b \in blobs : b.exists
    /\ kills \in 0 .. MaxKills /\ faults \in 0 .. MaxFaults
    /\ edited \in Seq([path : Paths, raced : BOOLEAN]) /\ Len(edited) <= MaxEdits

\* The run commits or is about to, unless it fails.
Forward == job.pc \in Running \/ (job.pc \in Ending /\ job.then = "version")

\* Where the run is.
Phases ==
    /\ job.pc # "idle" => job.old = version /\ job.new \in Versions
    /\ job.pc \in {"blobs", "lines"} => job.then = "effects" \/ (job.then = "seed" /\ job.stage = "pre")
    /\ job.pc \in {"blobs", "lines", "seed", "migrate", "effects"} => job.stage \in {"pre", "post"}
    /\ job.pc \in {"discard", "sweep"} => job.then \in {"version", "idle", "guard"}
    /\ job.pc = "version" => job.then = "version"
    /\ job.pc \in Restoring => job.then \in {"idle", "guard"}
    /\ job.pc = "core" => job.then = "idle"
    /\ job.pc = "restore" /\ job.stage = "ledger" => job.plan \subseteq {Ledger}
    /\ job.pc \in Running \/ (job.pc \in Restoring \union {"core"} /\ job.then = "idle") =>
          job.backup \in [CoreFiles -> Versions]

\* Whose journal it is.
Headed ==
    /\ job.pc = "open" => head = NoHead /\ lines = <<>> /\ blobs = {}
    /\ job.pc = "copy" => lines = <<>>
    /\ job.pc \in Running => head = <<job.old, job.new>>
    /\ job.pc = "discard" => head # NoHead /\ (job.then = "version" => head = <<job.old, job.new>>)
    /\ job.pc = "sweep" => head = NoHead
    /\ job.pc = "version" => head \in {NoHead, <<job.old, job.new>>}
    /\ job.pc \in Restoring \union {"core"} => Uncommitted

\* A line that is still to be written: it has the file as it is, and the root comes last.
Owed(i) ==
    LET line == job.todo[i] IN
    /\ line.stage = job.stage
    /\ line.path = Ledger => job.stage = "pre"
    /\ line.path \in Files => line.was.migs = vault[line.path].migs
    /\ line.path = Root =>
          /\ line.was = Absent /\ i = Len(job.todo)
          /\ \A p \in Paths : \/ vault[p].migs = {} \/ Captured(job.stage, p)
                              \/ \E j \in 1 .. Len(job.todo) : job.todo[j].path = p
    /\ job.pc = "lines" /\ line.was.exists => line.was \in blobs

\* What the journal's lines are, and those still to be written.
Journalled ==
    /\ \A i \in 1 .. Len(lines) : lines[i] = Torn => i = Len(lines) /\ job.pc \notin Running
    /\ head # NoHead => \A i \in 1 .. Len(lines) : lines[i].was.exists => lines[i].was \in blobs
    /\ ~ Captured("post", Ledger)
    /\ job.pc \in {"blobs", "lines"} => \A i \in 1 .. Len(job.todo) : Owed(i)

\* The ledger is not changed before it is captured.
LedgerAhead ==
    /\ job.pc \in {"blobs", "lines"} /\ job.then = "seed" =>
          Captured("pre", Ledger) \/ \E i \in 1 .. Len(job.todo) : job.todo[i].path = Ledger
    /\ job.pc \in {"seed", "migrate", "effects"} \/ (job.pc \in {"blobs", "lines"} /\ job.then = "effects")
          => Captured("pre", Ledger)

\* The migrations that a restore leaves recorded, and those that it must leave at p.
Before == RestoredIn("pre", Ledger).migs
Base(p) == {m \in Migrations : (m \in Before \/ Ver[m] <= version) /\ p \in Effects[m]}
Behind == \A m \in Recorded : \A p \in Effects[m] : m \in vault[p].migs
\* No restore takes back what is installed or will be recorded.
Safe ==
    /\ Uncommitted => \A p \in Paths : /\ Base(p) \subseteq vault[p].migs
                                       /\ \A s \in {"pre", "post"} : Base(p) \subseteq RestoredIn(s, p).migs
    /\ VersionWitnesses /\ LedgerBehindContent
Preserved == Safe /\ (Forward \/ job.pc = "discard" => Behind)

Seeded(s) == {m \in Migrations : Stage[m] = s /\ Ver[m] <= job.old}
Owing(s) == {m \in Migrations : Stage[m] = s /\ Ver[m] <= job.new}
\* How far the run is.
Headway ==
    /\ job.pc \in {"migrate", "effects"} \/ (job.pc \in {"blobs", "lines"} /\ job.then = "effects")
          => Seeded(job.stage) \subseteq Recorded
    /\ job.pc \in {"blobs", "lines", "seed", "migrate", "effects"} /\ job.stage = "post"
          => Owing("pre") \subseteq Recorded
    /\ job.pc = "cutover" \/ (job.pc \in Ending /\ job.then = "version")
          => Owing("pre") \union Owing("post") \subseteq Recorded
    /\ job.pc = "effects" \/ (job.pc \in {"blobs", "lines"} /\ job.then = "effects") =>
          \A m \in job.mig : job.left \subseteq Effects[m] /\
              \A p \in Effects[m] \ job.left : m \in vault[p].migs

\* How far a restore is: the ledger comes first, and only a failure leaves it.
LedgerRestored ==
    /\ job.pc = "restore" /\ job.stage = "ledger" /\ Ledger \notin job.plan =>
          Recorded = Before \/ faults > 0
    /\ (job.pc \in Restoring /\ job.stage # "ledger") \/ job.pc = "core" =>
          Recorded = Before \/ faults > 0
    /\ job.pc = "core" => Ledger \in job.failed \/ Recorded = Before

UpgradeInv == Typed /\ Phases /\ Headed /\ Journalled /\ LedgerAhead /\ Preserved /\ Headway /\ LedgerRestored

\* A restore of this stage knows what p was.
Covered(stage, p) == Captured(stage, p) \/ (p \in Paths /\ Captured(stage, Root))

Latest(i) == \A j \in i + 1 .. Len(edited) : edited[j].path # edited[i].path
\* What a restore is about to write over has been kept, or has just been edited.
Saved ==
    job.pc = "restore" => \A p \in job.plan : vault[p].exists =>
        \/ <<p, vault[p]>> \in kept
        \/ \E i \in 1 .. Len(edited) : edited[i].path = p /\ edited[i].raced /\ Latest(i)
EditInv == NoEditLost /\ Saved

----------------------------------------------------------------------------
(* The journal's lines, and what a restore makes of a path.                  *)

\* The names of the files, and what the constants are.
LEMMA Names ==
    /\ Ledger \notin Paths /\ Ledger # Root /\ Root \notin Files
    /\ Absent \in Held /\ Absent.migs = {} /\ ~ Absent.exists /\ Absent.edit = 0
    /\ \A e \in Entries : e # Torn
    /\ Paths \subseteq Files /\ Ledger \in Files
    /\ Effects \in [Migrations -> SUBSET Paths] /\ Ver \in [Migrations -> Nat]
    /\ Stage \in [Migrations -> {"pre", "post"}] /\ Versions \subseteq Nat
  <1>1. Ledger \notin Paths /\ Root \notin Paths /\ Ledger # Root
    BY UpgradeAssumption DEF Ledger, Root
  <1>2. /\ Effects \in [Migrations -> SUBSET Paths] /\ Ver \in [Migrations -> Nat]
        /\ Stage \in [Migrations -> {"pre", "post"}] /\ Versions \subseteq Nat
    BY UpgradeAssumption
  <1>3. Absent \in Held /\ Absent.migs = {} /\ ~ Absent.exists /\ Absent.edit = 0
    BY DEF Held, Absent
  <1>4. \A e \in Entries : e # Torn
    BY DEF Entries, Torn
  <1> QED
    BY <1>1, <1>2, <1>3, <1>4 DEF Files

\* The values a file may hold.
LEMMA FileValues ==
    /\ \A b \in Held : b.edit \in 0 .. MaxEdits /\ b.migs \subseteq Migrations /\ b.exists \in BOOLEAN
    /\ \A b \in Held : ~ b.exists => b = Absent
    /\ \A e \in 0 .. MaxEdits, ms \in SUBSET Migrations :
          /\ Bytes(e, ms) \in Held /\ Bytes(e, ms).edit = e /\ Bytes(e, ms).migs = ms
          /\ Bytes(e, ms).exists
  <1>1. \A b \in Held : b.edit \in 0 .. MaxEdits /\ b.migs \subseteq Migrations /\ b.exists \in BOOLEAN
    <2>1. 0 \in 0 .. MaxEdits
      BY UpgradeAssumption
    <2>2. Absent.edit = 0 /\ Absent.migs = {} /\ Absent.exists = FALSE
      BY DEF Absent
    <2> TAKE b \in Held
    <2>3. CASE b = Absent
      BY <2>1, <2>2, <2>3
    <2>4. CASE b \in [edit : 0 .. MaxEdits, migs : SUBSET Migrations, exists : {TRUE}]
      BY <2>4
    <2> QED BY <2>3, <2>4 DEF Held
  <1>2. \A b \in Held : ~ b.exists => b = Absent
    BY DEF Held
  <1>3. ASSUME NEW e \in 0 .. MaxEdits, NEW ms \in SUBSET Migrations
        PROVE  /\ Bytes(e, ms) \in Held /\ Bytes(e, ms).edit = e /\ Bytes(e, ms).migs = ms
               /\ Bytes(e, ms).exists
    BY DEF Held, Bytes
  <1> QED BY <1>1, <1>2, <1>3

\* The first entry of a stage for a path.
LEMMA FirstIs ==
    ASSUME Typed, NEW s, NEW p, Captured(s, p)
    PROVE  \E i \in 1 .. Len(lines) : /\ lines[i].stage = s /\ lines[i].path = p
                                      /\ First(s, p) = lines[i].was
                                      /\ \A j \in 1 .. i - 1 : lines[j].stage # s \/ lines[j].path # p
  <1> DEFINE S == {i \in 1 .. Len(lines) : lines[i].stage = s /\ lines[i].path = p}
  <1>0. Len(lines) \in Nat
    BY DEF Typed
  <1>1. S # {} /\ S \subseteq Nat
    BY <1>0 DEF Captured
  <1>2. PICK i \in S : \A j \in S : ~ (<<j, i>> \in OpToRel(<, Nat))
    <2> HIDE DEF S
    <2> QED BY <1>1, NatLessThanWellFounded, WFMin
  <1>3. \A j \in 1 .. i - 1 : lines[j].stage # s \/ lines[j].path # p
    <2> TAKE j \in 1 .. i - 1
    <2>0. i \in 1 .. Len(lines)
      BY <1>2
    <2> HIDE DEF S
    <2>1. j \in Nat /\ i \in Nat /\ j < i /\ j \in 1 .. Len(lines)
      BY <1>0, <2>0
    <2>2. <<j, i>> \in OpToRel(<, Nat)
      BY <2>1 DEF OpToRel
    <2> USE DEF S
    <2> QED BY <1>2, <2>1, <2>2
  <1>4. \E k : k \in 1 .. Len(lines) /\ lines[k].stage = s /\ lines[k].path = p
               /\ \A j \in 1 .. k - 1 : lines[j].stage # s \/ lines[j].path # p
    BY <1>2, <1>3
  <1> DEFINE k == CHOOSE k \in 1 .. Len(lines) :
                    /\ lines[k].stage = s /\ lines[k].path = p
                    /\ \A j \in 1 .. k - 1 : lines[j].stage # s \/ lines[j].path # p
  <1>5. k \in 1 .. Len(lines) /\ lines[k].stage = s /\ lines[k].path = p
        /\ \A j \in 1 .. k - 1 : lines[j].stage # s \/ lines[j].path # p
    BY <1>4
  <1>6. First(s, p) = lines[k].was
    BY DEF First
  <1> HIDE DEF k
  <1> QED BY <1>5, <1>6

\* What a restore makes of a path, case by case.
LEMMA RestoredIs ==
    ASSUME NEW s, NEW p
    PROVE  /\ Captured(s, p) => RestoredIn(s, p) = First(s, p)
           /\ ~ Captured(s, p) /\ Covered(s, p) => RestoredIn(s, p) = Absent
           /\ ~ Covered(s, p) => RestoredIn(s, p) = vault[p]
           /\ Captured(s, p) => Covered(s, p)
  BY DEF RestoredIn, Covered

\* What the next run will make of a path, case by case.
LEMMA OriginalIs ==
    ASSUME NEW p
    PROVE  /\ ~ Uncommitted => Original(p) = vault[p]
           /\ Uncommitted /\ Covered("pre", p) => Original(p) = RestoredIn("pre", p)
           /\ Uncommitted /\ ~ Covered("pre", p) => Original(p) = RestoredIn("post", p)
  BY DEF Original, Covered

\* What restores and originals are: values of files.
LEMMA RestoredTyped ==
    ASSUME Typed, NEW s \in {"pre", "post"}, NEW p \in Files
    PROVE  RestoredIn(s, p) \in Held /\ Original(p) \in Held
  <1>1. ASSUME NEW t \in {"pre", "post"} PROVE RestoredIn(t, p) \in Held
    <2>1. CASE Captured(t, p)
      <3>1. PICK i \in 1 .. Len(lines) : lines[i].stage = t /\ First(t, p) = lines[i].was
        BY <2>1, FirstIs
      <3>2. lines[i] \in Entries \union {Torn}
        BY DEF Typed
      <3>3. lines[i] \in Entries
        BY <3>1, <3>2 DEF Torn
      <3> QED BY <2>1, <3>1, <3>3, RestoredIs DEF Entries
    <2>2. CASE ~ Captured(t, p) /\ Covered(t, p)
      BY <2>2, RestoredIs, Names
    <2>3. CASE ~ Covered(t, p)
      BY <2>3, RestoredIs DEF Typed
    <2> QED BY <2>1, <2>2, <2>3, RestoredIs
  <1>2. vault[p] \in Held
    BY DEF Typed
  <1> QED BY <1>1, <1>2, OriginalIs

\* Steps that leave the journal alone.
LEMMA SameLines ==
    ASSUME UNCHANGED lines
    PROVE  /\ \A s, p : (Captured(s, p)' <=> Captured(s, p)) /\ First(s, p)' = First(s, p)
           /\ \A s, p : Covered(s, p)' <=> Covered(s, p)
  <1>1. \A s, p : (Captured(s, p)' <=> Captured(s, p)) /\ First(s, p)' = First(s, p)
    BY DEF Captured, First
  <1> QED BY <1>1 DEF Covered

\* What does not change a file's migrations does not change those of what it is restored to.
LEMMA SameMigrations ==
    ASSUME UNCHANGED <<version, head, lines>>, NEW p, vault'[p].migs = vault[p].migs
    PROVE  /\ \A s : RestoredIn(s, p)'.migs = RestoredIn(s, p).migs
           /\ Original(p)'.migs = Original(p).migs
  <1>1. (Uncommitted' <=> Uncommitted) /\ (Covered("pre", p)' <=> Covered("pre", p))
    BY SameLines DEF Uncommitted
  <1>2. \A s : RestoredIn(s, p)'.migs = RestoredIn(s, p).migs
    <2> TAKE s
    <2>1. /\ Captured(s, p)' <=> Captured(s, p)
          /\ First(s, p)' = First(s, p)
          /\ Captured(s, Root)' <=> Captured(s, Root)
      BY SameLines
    <2>2. CASE Captured(s, p)
      BY <2>1, <2>2 DEF RestoredIn
    <2>3. CASE ~ Captured(s, p) /\ p \in Paths /\ Captured(s, Root)
      BY <2>1, <2>3 DEF RestoredIn
    <2>4. CASE ~ Captured(s, p) /\ ~ (p \in Paths /\ Captured(s, Root))
      <3>1. RestoredIn(s, p)' = vault'[p] /\ RestoredIn(s, p) = vault[p]
        BY <2>1, <2>4 DEF RestoredIn
      <3> QED BY <3>1
    <2> QED BY <2>2, <2>3, <2>4
  <1>3. /\ ~ Uncommitted => Original(p)' = vault'[p]
        /\ Uncommitted /\ Covered("pre", p) => Original(p)' = RestoredIn("pre", p)'
        /\ Uncommitted /\ ~ Covered("pre", p) => Original(p)' = RestoredIn("post", p)'
    BY <1>1 DEF Original, Covered
  <1> QED BY <1>1, <1>2, <1>3, OriginalIs

----------------------------------------------------------------------------
(* No edit is lost.                                                          *)

\* Only files other than the ledger are edited.
LEMMA EditPaths == Typed => \A i \in 1 .. Len(edited) : edited[i].path \in Files /\ edited[i].path \in Paths
  <1> SUFFICES ASSUME Typed, NEW i \in 1 .. Len(edited)
               PROVE  edited[i].path \in Files /\ edited[i].path \in Paths
    OBVIOUS
  <1>1. PICK R : R = [path : Paths, raced : BOOLEAN]
    OBVIOUS
  <1>2. edited \in Seq(R)
    BY <1>1 DEF Typed
  <1>3. edited[i] \in R
    BY ONLY <1>2, i \in 1 .. Len(edited)
  <1> QED BY <1>1, <1>3, Names

\* A step that keeps every edit where it is loses none.
LEMMA EditsCarried ==
    ASSUME Typed, NoEditLost, UNCHANGED edited, kept \subseteq kept',
           \A p \in Files : vault'[p].edit = vault[p].edit
    PROVE  NoEditLost'
  <1>1. \A i \in 1 .. Len(edited) : edited[i].path \in Files
    BY EditPaths
  <1> SUFFICES ASSUME NEW i \in 1 .. Len(edited), ~ edited[i].raced,
                      \A j \in i + 1 .. Len(edited) : edited[j].path # edited[i].path
               PROVE  \/ vault'[edited[i].path].edit = i
                      \/ \E k \in kept' : k[1] = edited[i].path /\ k[2].edit = i
    BY DEF NoEditLost
  <1>2. \/ vault[edited[i].path].edit = i
        \/ \E k \in kept : k[1] = edited[i].path /\ k[2].edit = i
    BY DEF NoEditLost
  <1> QED BY <1>1, <1>2

\* A restore writes over what it has kept.
LEMMA RestoreKeepsEdits ==
    ASSUME Typed, EditInv, NEW p \in Files, RestoreFile(p)
    PROVE  EditInv'
  <1>1. job.pc = "restore" /\ p \in job.plan /\ UNCHANGED <<edited, kept>>
        /\ vault' = [vault EXCEPT ![p] = Wanted(p)]
        /\ job' = [job EXCEPT !.plan = job.plan \ {p}]
    BY DEF RestoreFile
  <1>2. \A q \in Files : q # p => vault'[q] = vault[q]
    BY <1>1 DEF Typed
  <1>3. NoEditLost'
    <2> SUFFICES ASSUME NEW i \in 1 .. Len(edited), ~ edited[i].raced, Latest(i)
                 PROVE  \/ vault'[edited[i].path].edit = i
                        \/ \E k \in kept : k[1] = edited[i].path /\ k[2].edit = i
      BY <1>1 DEF NoEditLost, Latest
    <2>1. \/ vault[edited[i].path].edit = i
          \/ \E k \in kept : k[1] = edited[i].path /\ k[2].edit = i
      BY DEF EditInv, NoEditLost, Latest
    <2>2. edited[i].path \in Files
      BY EditPaths
    <2>3. CASE edited[i].path # p
      BY <1>2, <2>1, <2>2, <2>3
    <2>4. CASE edited[i].path = p /\ vault[p].edit = i
      <3>1. vault[p].exists
        <4>1. vault[p] \in Held /\ i # 0
          BY DEF Typed
        <4> QED BY <4>1, <2>4, Names, FileValues
      <3>2. ~ (\E j \in 1 .. Len(edited) : edited[j].path = p /\ edited[j].raced /\ Latest(j))
        <4> SUFFICES ASSUME NEW j \in 1 .. Len(edited), edited[j].path = p, edited[j].raced, Latest(j)
                     PROVE  FALSE
          OBVIOUS
        <4>1. Len(edited) \in Nat
          BY DEF Typed
        <4>2. ~ (j \in i + 1 .. Len(edited)) /\ ~ (i \in j + 1 .. Len(edited))
          BY <2>4 DEF Latest
        <4>3. i = j
          BY <4>1, <4>2
        <4> QED BY <4>3
      <3>3. <<p, vault[p]>> \in kept
        BY <1>1, <3>1, <3>2 DEF EditInv, Saved
      <3> QED BY <2>4, <3>3
    <2> QED BY <2>1, <2>3, <2>4
  <1>4. Saved'
    <2>1. job'.plan = job.plan \ {p} /\ job.plan \subseteq Files
      BY <1>1 DEF Typed, Jobs
    <2> SUFFICES ASSUME NEW q \in job'.plan, vault'[q].exists
                 PROVE  \/ <<q, vault'[q]>> \in kept'
                        \/ \E i \in 1 .. Len(edited') : edited'[i].path = q /\ edited'[i].raced /\ Latest(i)'
      BY DEF Saved
    <2>2. vault'[q] = vault[q] /\ q \in job.plan
      BY <1>2, <2>1
    <2>3. \/ <<q, vault[q]>> \in kept
          \/ \E i \in 1 .. Len(edited) : edited[i].path = q /\ edited[i].raced /\ Latest(i)
      BY <1>1, <2>2 DEF EditInv, Saved
    <2> QED BY <1>1, <2>2, <2>3 DEF Latest
  <1> QED BY <1>3, <1>4 DEF EditInv

\* An edit is the latest one of its file.
LEMMA EditKeepsEdits ==
    ASSUME Typed, EditInv, NEW p \in Paths, Edit(p)
    PROVE  EditInv'
  <1> DEFINE e == [path |-> p, raced |-> job.pc = "restore" /\ p \in job.plan]
  <1>0. PICK n : n = Len(edited) + 1
    OBVIOUS
  <1>1. edited' = Append(edited, e) /\ UNCHANGED <<kept, job>>
    BY DEF Edit
  <1>2. /\ Len(edited) \in Nat /\ n \in Nat /\ Len(edited') = n /\ edited'[n].path = p
        /\ (job.pc = "restore" /\ p \in job.plan => edited'[n].raced)
        /\ \A i \in 1 .. Len(edited) : edited'[i] = edited[i]
    <2>1. edited \in Seq([path : Paths, raced : BOOLEAN])
      BY DEF Typed
    <2>2. e.path = p /\ (job.pc = "restore" /\ p \in job.plan => e.raced)
      OBVIOUS
    <2>3. e \in [path : Paths, raced : BOOLEAN]
      OBVIOUS
    <2> HIDE DEF e
    <2>4. Len(edited) \in Nat /\ Len(edited') = n /\ edited'[n] = e
          /\ \A i \in 1 .. Len(edited) : edited'[i] = edited[i]
      BY <1>0, <1>1, <2>1, <2>3
    <2> QED BY <1>0, <2>2, <2>4
  <1>3. p \in Files /\ \A i \in 1 .. Len(edited) : edited[i].path \in Files
    BY Names, EditPaths
  <1>4. vault'[p].edit = n /\ \A q \in Files : q # p => vault'[q] = vault[q]
    BY <1>0, <1>2, <1>3 DEF Edit, Bytes, Typed
  <1> HIDE DEF e
  <1>5. ASSUME NEW i \in 1 .. Len(edited), Latest(i)' PROVE Latest(i) /\ edited[i].path # p
    <2>1. \A j \in i + 1 .. Len(edited') : edited'[j].path # edited'[i].path
      BY <1>5 DEF Latest
    <2>2. n \in i + 1 .. Len(edited')
      BY <1>0, <1>2
    <2>3. \A j \in i + 1 .. Len(edited) : j \in i + 1 .. Len(edited') /\ j \in 1 .. Len(edited)
      BY <1>0, <1>2
    <2> QED BY <1>0, <1>2, <2>1, <2>2, <2>3 DEF Latest
  <1>6. ASSUME NEW i \in 1 .. Len(edited), Latest(i), edited[i].path # p PROVE Latest(i)'
    <2>1. ASSUME NEW j \in i + 1 .. Len(edited') PROVE edited'[j].path # edited'[i].path
      <3>1. j = n \/ (j \in i + 1 .. Len(edited) /\ j \in 1 .. Len(edited))
        BY <1>0, <1>2
      <3> QED BY <1>0, <1>2, <1>6, <3>1 DEF Latest
    <2> QED BY <2>1 DEF Latest
  <1>7. NoEditLost'
    <2> SUFFICES ASSUME NEW i \in 1 .. Len(edited'), ~ edited'[i].raced, Latest(i)'
                 PROVE  \/ vault'[edited'[i].path].edit = i
                        \/ \E k \in kept' : k[1] = edited'[i].path /\ k[2].edit = i
      BY DEF NoEditLost, Latest
    <2>1. CASE i = n
      BY <1>0, <1>2, <1>4, <2>1
    <2>2. CASE i # n
      <3>1. i \in 1 .. Len(edited)
        BY <1>0, <1>2, <2>2
      <3>2. Latest(i) /\ edited[i].path # p /\ edited'[i] = edited[i]
        BY <1>0, <1>2, <1>5, <3>1
      <3>3. \/ vault[edited[i].path].edit = i
            \/ \E k \in kept : k[1] = edited[i].path /\ k[2].edit = i
        BY <3>1, <3>2 DEF EditInv, NoEditLost, Latest
      <3> QED BY <1>1, <1>3, <1>4, <3>1, <3>2, <3>3
    <2> QED BY <2>1, <2>2
  <1>8. Saved'
    <2> SUFFICES ASSUME job.pc = "restore", NEW q \in job.plan, vault'[q].exists
                 PROVE  \/ <<q, vault'[q]>> \in kept
                        \/ \E i \in 1 .. Len(edited') : edited'[i].path = q /\ edited'[i].raced /\ Latest(i)'
      BY <1>1 DEF Saved
    <2>1. q \in Files
      BY DEF Typed, Jobs
    <2>2. CASE q = p
      <3>1. n \in 1 .. Len(edited') /\ edited'[n].path = q /\ edited'[n].raced
        BY <1>0, <1>2, <2>2
      <3>2. Latest(n)'
        BY <1>0, <1>2 DEF Latest
      <3> QED BY <3>1, <3>2
    <2>3. CASE q # p
      <3>1. vault'[q] = vault[q]
        BY <1>4, <2>1, <2>3
      <3>2. \/ <<q, vault[q]>> \in kept
            \/ \E i \in 1 .. Len(edited) : edited[i].path = q /\ edited[i].raced /\ Latest(i)
        BY <3>1 DEF EditInv, Saved
      <3>3. ASSUME NEW i \in 1 .. Len(edited), edited[i].path = q, edited[i].raced, Latest(i)
            PROVE  i \in 1 .. Len(edited') /\ edited'[i].path = q /\ edited'[i].raced /\ Latest(i)'
        BY <1>0, <1>2, <1>6, <2>3, <3>3
      <3> QED BY <3>1, <3>2, <3>3
    <2> QED BY <2>2, <2>3
  <1> QED BY <1>7, <1>8 DEF EditInv

\* No step loses an edit: a restore keeps what it is about to write over before it does.
LEMMA StepKeepsEdits == UpgradeInv /\ EditInv /\ [UpgradeNext]_upgradeVars => EditInv'
  <1> SUFFICES ASSUME UpgradeInv, EditInv, [UpgradeNext]_upgradeVars PROVE EditInv'
    OBVIOUS
  <1>0. Typed /\ Phases /\ job \in Jobs
    BY DEF UpgradeInv, Typed
  <1>1. ASSUME UNCHANGED <<edited, kept>>, \A p \in Files : vault'[p].edit = vault[p].edit,
               job'.pc # "restore" 
        PROVE  EditInv'
    BY <1>0, <1>1, EditsCarried DEF EditInv, Saved
  <1>2. ASSUME UNCHANGED <<edited, kept, vault>>, job'.pc # "restore" PROVE EditInv'
    BY <1>1, <1>2
  <1>3. ASSUME UNCHANGED <<edited, kept, vault>>, job' = job PROVE EditInv'
    BY <1>0, <1>3, EditsCarried DEF EditInv, Saved, Latest
  <1>4. ASSUME NEW ms, vault' = vault \/ vault' = Recording(ms)
        PROVE  \A p \in Files : vault'[p].edit = vault[p].edit
    BY <1>0, <1>4 DEF Recording, Typed, Bytes
  <1>5. CASE Recover
    BY <1>0, <1>2, <1>5 DEF Recover, Goto, NoRun, disk, Jobs
  <1>6. CASE Guard
    BY <1>0, <1>2, <1>6 DEF Guard, Goto, NoRun, Jobs
  <1>7. CASE Open
    BY <1>0, <1>2, <1>7 DEF Open, Jobs
  <1>8. CASE Copied
    BY <1>0, <1>2, <1>8 DEF Copied, Capture, disk, Jobs
  <1>9. CASE WriteBlob
    BY <1>0, <1>2, <1>9 DEF WriteBlob, Goto, Jobs
  <1>10. CASE WriteLine
    BY <1>0, <1>2, <1>10 DEF WriteLine, Goto, Jobs, Phases
  <1>11. CASE Seed
    <2>1. PICK ms : vault' = vault \/ vault' = Recording(ms)
      BY <1>11 DEF Seed
    <2>2. UNCHANGED <<edited, kept>> /\ job'.pc # "restore"
      BY <1>0, <1>11 DEF Seed, Goto, Jobs
    <2> QED BY <1>1, <1>4, <2>1, <2>2
  <1>12. CASE RecordResult
    <2>1. PICK ms : vault' = vault \/ vault' = Recording(ms)
      BY <1>12 DEF RecordResult
    <2>2. UNCHANGED <<edited, kept>> /\ job'.pc # "restore"
      BY <1>0, <1>12 DEF RecordResult, Goto, Jobs
    <2> QED BY <1>1, <1>4, <2>1, <2>2
  <1>13. CASE EndStage
    BY <1>0, <1>2, <1>13 DEF EndStage, Goto, disk, Jobs
  <1>14. CASE Cutover
    BY <1>0, <1>2, <1>14 DEF Cutover, disk, Jobs
  <1>15. CASE Discard
    BY <1>0, <1>2, <1>15 DEF Discard, Goto, Jobs
  <1>16. CASE Sweep
    BY <1>0, <1>2, <1>16 DEF Sweep, Goto, Jobs, Phases
  <1>17. CASE WriteVersion
    BY <1>0, <1>2, <1>17 DEF WriteVersion, NoRun
  <1>18. CASE PlanRestore
    <2> DEFINE differ == {p \in Scope : Wanted(p) # vault[p]}
    <2>1. /\ job.pc = "plan" /\ job' = [job EXCEPT !.pc = "restore", !.plan = differ]
          /\ kept' = kept \union {<<p, vault[p]>> : p \in {q \in differ : vault[q].exists}}
          /\ UNCHANGED <<vault, edited>>
      BY <1>18 DEF PlanRestore
    <2>2. job'.plan = differ
      BY <1>0, <2>1 DEF Jobs
    <2>3. NoEditLost'
      BY <1>0, <2>1, EditsCarried DEF EditInv
    <2>4. Saved'
      BY <2>1, <2>2 DEF Saved
    <2> QED BY <2>3, <2>4 DEF EditInv
  <1>19. CASE Verify
    BY <1>0, <1>2, <1>19 DEF Verify, Goto, NoRun, disk, Jobs
  <1>20. CASE EndRollback
    BY <1>0, <1>2, <1>20 DEF EndRollback, Goto, NoRun, disk, Jobs
  <1>21. ASSUME NEW f \in CoreFiles, Copy(f) \/ RestoreCore(f) PROVE EditInv'
    BY <1>3, <1>21 DEF Copy, RestoreCore
  <1>22. ASSUME NEW m \in Migrations, Prepare(m) PROVE EditInv'
    <2>1. UNCHANGED <<edited, kept, vault>> /\ job.pc = "migrate"
      BY <1>22 DEF Prepare, disk
    <2>2. job'.pc # "restore"
      BY <1>0, <1>22 DEF Prepare, Capture, Goto, Jobs
    <2> QED BY <1>2, <2>1, <2>2
  <1>23. ASSUME NEW p \in Files, Migrate(p) PROVE EditInv'
    <2>1. \A q \in Files : vault'[q].edit = vault[q].edit
      BY <1>0, <1>23 DEF Migrate, Bytes, Typed
    <2>2. UNCHANGED <<edited, kept>> /\ job'.pc # "restore"
      BY <1>0, <1>23 DEF Migrate, Jobs
    <2> QED BY <1>1, <2>1, <2>2
  <1>24. ASSUME NEW p \in Files, RestoreFile(p) PROVE EditInv'
    BY <1>0, <1>24, RestoreKeepsEdits
  <1>25. CASE \E w \in Versions, force \in BOOLEAN : Start(w, force)
    BY <1>0, <1>2, <1>25 DEF Start, NoRun, disk
  <1>26. CASE Refuse
    BY <1>0, <1>2, <1>26 DEF Refuse, NoRun, disk, Jobs
  <1>27. CASE DiscardFails
    BY <1>0, <1>2, <1>27 DEF DiscardFails, Goto, disk, Jobs, Phases
  <1>28. CASE VersionFails
    BY <1>0, <1>2, <1>28 DEF VersionFails, NoRun, disk
  <1>29. CASE Fail
    BY <1>0, <1>2, <1>29 DEF Fail, disk, Jobs
  <1>30. CASE Kill
    BY <1>0, <1>2, <1>30 DEF Kill, NoRun
  <1>31. ASSUME NEW p \in Files, RestoreFails(p) PROVE EditInv'
    <2>1. UNCHANGED <<edited, kept, vault>> /\ job'.plan \subseteq job.plan /\ job.pc = "restore"
      BY <1>0, <1>31 DEF RestoreFails, disk, Jobs
    <2>2. NoEditLost'
      BY <1>0, <2>1, EditsCarried DEF EditInv
    <2>3. Saved'
      BY <2>1 DEF Saved, EditInv, Latest
    <2> QED BY <2>2, <2>3 DEF EditInv
  <1>32. ASSUME NEW p \in Paths, Edit(p) PROVE EditInv'
    BY <1>0, <1>32, EditKeepsEdits
  <1>33. CASE UNCHANGED upgradeVars
    BY <1>3, <1>33 DEF upgradeVars
  <1> QED
    BY <1>5, <1>6, <1>7, <1>8, <1>9, <1>10, <1>11, <1>12, <1>13, <1>14, <1>15, <1>16, <1>17, <1>18,
       <1>19, <1>20, <1>21, <1>22, <1>23, <1>24, <1>25, <1>26, <1>27, <1>28, <1>29, <1>30, <1>31,
       <1>32, <1>33 DEF UpgradeNext, Step

----------------------------------------------------------------------------
(* What a capture plans to write.                                            *)

\* The sequence of a finite set holds its elements, all of them and no other.
LEMMA SetToSeqIs ==
    ASSUME NEW S, IsFiniteSet(S)
    PROVE  /\ SetToSeq(S) \in Seq(S)
           /\ \A x \in S : \E i \in 1 .. Len(SetToSeq(S)) : SetToSeq(S)[i] = x
  <1> DEFINE n == Cardinality(S)
             D == 1 .. n
  <1>1. n \in Nat /\ ExistsBijection(D, S)
    BY FS_CardinalityType
  <1>2. \E f \in [D -> S] : IsInjective(f)
    BY <1>1 DEF ExistsBijection, Bijection, Injection
  <1>3. SetToSeq(S) \in [D -> S] /\ IsInjective(SetToSeq(S))
    BY <1>2 DEF SetToSeq
  <1>4. PICK f : f = SetToSeq(S)
    OBVIOUS
  <1>5. f \in Injection(D, S)
    BY <1>3, <1>4 DEF Injection
  <1>6. IsFiniteSet(D) /\ Cardinality(D) = n
    BY <1>1, FS_Interval
  <1> HIDE DEF D, n
  <1>7. Cardinality(D) = Cardinality(S)
    BY <1>6 DEF n
  <1>8. f \in Surjection(D, S)
    BY <1>5, <1>7, FS_Injection
  <1>9. \A x \in S : \E i \in D : f[i] = x
    BY <1>8 DEF Surjection
  <1>10. f \in Seq(S) /\ Len(f) = n
    BY <1>1, <1>3, <1>4 DEF D
  <1> QED
    BY <1>4, <1>9, <1>10 DEF D

\* A set of files is finite.
LEMMA PathsFinite == \A S : S \subseteq Files => IsFiniteSet(S)
  <1> SUFFICES ASSUME NEW S, S \subseteq Files PROVE IsFiniteSet(S)
    OBVIOUS
  <1>1. IsFiniteSet(Paths) /\ IsFiniteSet({Ledger})
    BY UpgradeAssumption, FS_Singleton
  <1>2. IsFiniteSet(Paths \union {Ledger})
    BY <1>1, FS_Union
  <1> QED BY <1>2, FS_Subset DEF Files

\* The lines a capture plans: the files of the stage it does not have yet, as they are,
\* and the root after them.
Plans(todo, stage, ps, root) ==
    /\ todo \in Seq(Entries)
    /\ \A i \in 1 .. Len(todo) :
          /\ todo[i].stage = stage
          /\ \/ todo[i].path \in ps /\ todo[i].was = vault[todo[i].path]
             \/ root /\ i = Len(todo) /\ todo[i].path = Root /\ todo[i].was = Absent
    /\ \A p \in ps : Captured(stage, p) \/ \E i \in 1 .. Len(todo) : todo[i].path = p
    /\ root => \E i \in 1 .. Len(todo) : todo[i].path = Root

\* The run on its way to write them.
Writing(todo, then) == [job EXCEPT !.pc = "blobs", !.then = then, !.todo = todo]

\* A capture plans a line for every path it is asked for, and the root last.
LEMMA CaptureIs ==
    ASSUME Typed, NEW stage \in {"pre", "post"}, NEW ps, ps \subseteq Files, NEW root \in BOOLEAN, NEW then
    PROVE  \E todo : /\ Plans(todo, stage, ps, root)
                     /\ Capture(stage, ps, root, then) = Writing(todo, then)
  <1> DEFINE S == {p \in ps : ~ Captured(stage, p)}
             L == SetToSeq(S)
             line(i) == Line(stage, L[i], vault[L[i]])
             new == [i \in 1 .. Len(L) |-> Line(stage, L[i], vault[L[i]])]
             last == Line(stage, Root, Absent)
             todo == IF root THEN Append(new, last) ELSE new
  <1>1. L \in Seq(S) /\ \A x \in S : \E i \in 1 .. Len(L) : L[i] = x
    BY PathsFinite, SetToSeqIs
  <1>2. S \subseteq ps
    OBVIOUS
  <1>4. Capture(stage, ps, root, then) = Writing(todo, then)
    BY DEF Capture, Writing
  <1> HIDE DEF S, L
  <1>3. Len(L) \in Nat /\ \A i \in 1 .. Len(L) : L[i] \in S
    BY <1>1
  <1>5. \A i \in 1 .. Len(L) : /\ L[i] \in ps /\ L[i] \in Files /\ vault[L[i]] \in Held
    BY <1>2, <1>3 DEF Typed
  <1>6. \A i \in 1 .. Len(L) : line(i) \in Entries /\ line(i).stage = stage /\ line(i).path = L[i]
                               /\ line(i).was = vault[L[i]]
    BY <1>5 DEF Line, Entries
  <1>7. /\ Len(new) = Len(L) /\ new \in Seq(Entries) /\ \A i \in 1 .. Len(L) : new[i] = line(i)
    BY <1>3, <1>6
  <1>8. last \in Entries /\ last.stage = stage /\ last.path = Root /\ last.was = Absent
    BY Names DEF Line, Entries
  <1>9. PICK n : n = new
    OBVIOUS
  <1>10. PICK l : l = last
    OBVIOUS
  <1>11. /\ n \in Seq(Entries) /\ Len(n) = Len(L) /\ Len(L) \in Nat
         /\ \A i \in 1 .. Len(L) : n[i].stage = stage /\ n[i].path = L[i] /\ n[i].was = vault[L[i]]
                                   /\ n[i].path \in ps
    BY <1>3, <1>5, <1>6, <1>7, <1>9
  <1>12. l \in Entries /\ l.stage = stage /\ l.path = Root /\ l.was = Absent
    BY <1>8, <1>10
  <1>13. \A p \in ps : Captured(stage, p) \/ \E i \in 1 .. Len(L) : L[i] = p
    BY <1>1 DEF S
  <1> HIDE DEF new, last
  <1>14. CASE root
    <2>1. todo = Append(n, l)
      BY <1>9, <1>10, <1>14
    <2>2. /\ Append(n, l) \in Seq(Entries) /\ Len(Append(n, l)) = Len(L) + 1
          /\ Append(n, l)[Len(L) + 1] = l /\ \A i \in 1 .. Len(L) : Append(n, l)[i] = n[i]
      BY <1>11, <1>12
    <2>3. PICK t : t = Append(n, l)
      OBVIOUS
    <2>4. /\ t \in Seq(Entries) /\ Len(t) = Len(L) + 1
          /\ t[Len(L) + 1] = l /\ \A i \in 1 .. Len(L) : t[i] = n[i]
      BY <2>2, <2>3
    <2>5. \A i \in 1 .. Len(t) : i = Len(L) + 1 \/ i \in 1 .. Len(L)
      BY <1>11, <2>4
    <2>6. Len(L) + 1 \in 1 .. Len(t) /\ \A i \in 1 .. Len(L) : i \in 1 .. Len(t)
      BY <1>11, <2>4
    <2>7. Plans(t, stage, ps, root)
      BY <1>11, <1>12, <1>13, <1>14, <2>4, <2>5, <2>6 DEF Plans
    <2> QED BY <1>4, <2>1, <2>3, <2>7
  <1>15. CASE ~ root
    <2>1. todo = n
      BY <1>9, <1>15
    <2>2. Plans(n, stage, ps, root)
      BY <1>11, <1>13, <1>15 DEF Plans
    <2> QED BY <1>4, <2>1, <2>2
  <1> QED BY <1>14, <1>15

----------------------------------------------------------------------------
(* The values of the variables, and where the run is.                        *)

\* A step that only moves the run.
LEMMA MoveTyped ==
    ASSUME Typed, job' \in Jobs, UNCHANGED <<disk, edited, kills>>,
           faults' = faults \/ (faults' = faults + 1 /\ Mishap(faults, MaxFaults))
    PROVE  Typed'
  <1>1. faults' \in 0 .. MaxFaults
    BY UpgradeAssumption DEF Typed, Mishap
  <1>2. UNCHANGED <<version, core, vault, head, lines, blobs, edited, kills>>
    BY DEF disk
  <1> QED BY <1>1, <1>2 DEF Typed

\* No run is a value of the run's memory.
LEMMA NoRunIs == NoRun \in Jobs /\ NoRun.pc = "idle"
  <1>1. <<>> \in Seq(Entries)
    OBVIOUS
  <1> QED BY <1>1 DEF NoRun, Jobs, Pcs

\* To go on elsewhere changes nothing else of the run's memory.
LEMMA GotoIs == ASSUME job \in Jobs, NEW pc \in Pcs
                PROVE  Goto(pc) \in Jobs /\ Goto(pc).pc = pc
  BY DEF Goto, Jobs

\* The steps that only change the run's memory.
LEMMA RunTyped ==
    ASSUME UpgradeInv, \/ Recover \/ EndStage \/ Cutover \/ EndRollback \/ Refuse \/ DiscardFails \/ VersionFails \/ Fail
    PROVE  Typed' /\ Phases'
  <1>0. Typed /\ Phases /\ job \in Jobs
    BY DEF UpgradeInv, Typed
  <1>1. ASSUME job' \in Jobs, UNCHANGED <<disk, edited, kills>>,
               faults' = faults \/ (faults' = faults + 1 /\ Mishap(faults, MaxFaults))
        PROVE  Typed'
    BY <1>0, <1>1, MoveTyped
  <1>2. CASE Recover
    <2>1. \/ job' = Goto("guard") \/ job' = NoRun \/ job' = [job EXCEPT !.pc = "discard", !.then = "guard"]
          \/ job' = [job EXCEPT !.pc = "plan", !.stage = "ledger", !.then = "guard"]
      BY <1>2 DEF Recover
    <2>2. job' \in Jobs
      <3>1. Goto("guard") \in Jobs
        BY <1>0, GotoIs DEF Pcs
      <3>2. [job EXCEPT !.pc = "discard", !.then = "guard"] \in Jobs
        BY <1>0 DEF Jobs, Pcs, Ending
      <3>3. [job EXCEPT !.pc = "plan", !.stage = "ledger", !.then = "guard"] \in Jobs
        BY <1>0 DEF Jobs, Pcs, Restoring
      <3> QED BY <2>1, <3>1, <3>2, <3>3, NoRunIs
    <2>3. Phases'
      BY <1>0, <1>2, <2>1 DEF Phases, Recover, Jobs, Goto, NoRun, Running, Ending, Restoring, disk
    <2> QED BY <1>1, <1>2, <2>2, <2>3 DEF Recover
  <1>3. CASE EndStage
    <2>1. job' \in Jobs
      BY <1>0, <1>3 DEF EndStage, Jobs, Goto, Pcs, Running, Ending, Restoring
    <2>2. Phases'
      BY <1>0, <1>3 DEF Phases, EndStage, Jobs, Goto, Running, Ending, Restoring, disk
    <2> QED BY <1>1, <1>3, <2>1, <2>2 DEF EndStage
  <1>4. CASE Cutover
    <2>1. job' \in Jobs
      BY <1>0, <1>4 DEF Cutover, Jobs, Goto, Pcs, Running, Ending, Restoring
    <2>2. Phases'
      BY <1>0, <1>4 DEF Phases, Cutover, Jobs, Running, Ending, Restoring, disk
    <2> QED BY <1>1, <1>4, <2>1, <2>2 DEF Cutover
  <1>5. CASE EndRollback
    <2>1. job' \in Jobs
      BY <1>0, <1>5, NoRunIs DEF EndRollback, Jobs, Goto, Pcs, Running, Ending, Restoring
    <2>2. Phases'
      BY <1>0, <1>5 DEF Phases, EndRollback, Jobs, Goto, NoRun, Running, Ending, Restoring, disk
    <2> QED BY <1>1, <1>5, <2>1, <2>2 DEF EndRollback
  <1>6. CASE Refuse
    <2>1. job' \in Jobs
      BY <1>0, <1>6, NoRunIs DEF Refuse, Jobs, Pcs, Running, Ending, Restoring
    <2>2. Phases'
      BY <1>0, <1>6 DEF Phases, Refuse, Jobs, NoRun, Running, Ending, Restoring, disk
    <2> QED BY <1>1, <1>6, <2>1, <2>2 DEF Refuse
  <1>7. CASE DiscardFails
    <2>1. job' \in Jobs
      BY <1>0, <1>7 DEF DiscardFails, Goto, Jobs
    <2>2. Phases'
      BY <1>0, <1>7 DEF Phases, DiscardFails, Jobs, Goto, Running, Ending, Restoring, disk
    <2> QED BY <1>1, <1>7, <2>1, <2>2 DEF DiscardFails
  <1>8. CASE VersionFails
    <2>1. job' \in Jobs
      BY <1>0, <1>8, NoRunIs DEF VersionFails
    <2>2. Phases'
      BY <1>0, <1>8 DEF Phases, VersionFails, NoRun, Running, Ending, Restoring
    <2> QED BY <1>1, <1>8, <2>1, <2>2 DEF VersionFails
  <1>9. CASE Fail
    <2>1. job' \in Jobs
      BY <1>0, <1>9 DEF Fail, Jobs, Pcs, Running, Ending, Restoring
    <2>2. Phases'
      BY <1>0, <1>9 DEF Phases, Fail, Jobs, Running, Ending, Restoring, disk
    <2> QED BY <1>1, <1>9, <2>1, <2>2 DEF Fail
  <1> QED BY <1>2, <1>3, <1>4, <1>5, <1>6, <1>7, <1>8, <1>9

\* Records of the ledger.
LEMMA RecordingIs ==
    ASSUME Typed, NEW ms, ms \subseteq Migrations
    PROVE  /\ Recording(ms) \in [Files -> Held] /\ Recording(ms)[Ledger].migs = vault[Ledger].migs \union ms
           /\ \A p \in Files : p # Ledger => Recording(ms)[p] = vault[p]
  <1>1. vault \in [Files -> Held] /\ vault[Ledger] \in Held
    BY Names DEF Typed
  <1>2. vault[Ledger].edit \in 0 .. MaxEdits /\ vault[Ledger].migs \union ms \in SUBSET Migrations
    BY <1>1, FileValues
  <1>3. PICK b : b = Bytes(vault[Ledger].edit, vault[Ledger].migs \union ms)
    OBVIOUS
  <1>4. b \in Held /\ b.migs = vault[Ledger].migs \union ms
    BY <1>2, <1>3, FileValues
  <1>5. Recording(ms) = [vault EXCEPT ![Ledger] = b]
    BY <1>3 DEF Recording
  <1> QED BY <1>1, <1>4, <1>5, Names

\* The steps that write the journal, the ledger or VERSION.
LEMMA WriteTyped ==
    ASSUME UpgradeInv, Guard \/ Open \/ WriteBlob \/ WriteLine \/ Seed \/ RecordResult \/ Discard
                       \/ Sweep \/ WriteVersion \/ PlanRestore
    PROVE  Typed' /\ Phases'
  <1>0. Typed /\ Phases /\ Headed /\ job \in Jobs
    BY DEF UpgradeInv, Typed
  <1>2. CASE Guard
    <2>1. job' \in Jobs
      BY <1>0, <1>2, NoRunIs, GotoIs DEF Guard, Pcs
    <2>2. Phases'
      BY <1>0, <1>2 DEF Phases, Guard, Jobs, Goto, NoRun, Running, Ending, Restoring
    <2>3. (lines' = lines /\ blobs' = blobs) \/ (lines' = <<>> /\ blobs' = {})
      BY <1>2 DEF Guard
    <2>4. lines' \in Seq(Entries \union {Torn})
      <3>1. <<>> \in Seq(Entries \union {Torn})
        OBVIOUS
      <3> QED BY <1>0, <2>3, <3>1 DEF Typed
    <2>5. \A b \in blobs' : b.exists
      BY <1>0, <2>3 DEF Typed
    <2> QED BY <1>0, <1>2, <2>1, <2>2, <2>4, <2>5 DEF Guard, Typed
  <1>3. CASE Open
    <2>0. /\ job.pc = "open" /\ job' = [job EXCEPT !.pc = "copy", !.backup = core]
          /\ core \in [CoreFiles -> Versions]
      BY <1>0, <1>3 DEF Open, Typed
    <2>1. job' \in Jobs
      BY <1>0, <2>0 DEF Jobs, Pcs, Running
    <2>2. Phases'
      BY <1>0, <1>3, <2>0 DEF Phases, Open, Jobs, Running, Ending, Restoring
    <2>3. head' \in Versions \X Versions
      BY <1>0, <1>3 DEF Open, Phases, Typed
    <2> QED BY <1>0, <1>3, <2>1, <2>2, <2>3 DEF Open, Typed
  <1>4. CASE WriteBlob
    <2>1. job' \in Jobs
      BY <1>0, <1>4, GotoIs DEF WriteBlob, Pcs, Running
    <2>2. Phases'
      BY <1>0, <1>4 DEF Phases, WriteBlob, Jobs, Goto, Running, Ending, Restoring
    <2>3. \A b \in blobs' : b.exists
      <3> DEFINE missing == {i \in 1 .. Len(job.todo) : job.todo[i].was.exists /\ job.todo[i].was \notin blobs}
                 c == CHOOSE i \in missing : \A k \in missing : i <= k
      <3>1. CASE missing = {}
        BY <1>0, <1>4, <3>1 DEF WriteBlob, Typed
      <3>2. CASE missing # {}
        <4>1. blobs' = blobs \union {job.todo[c].was}
          BY <1>4, <3>2 DEF WriteBlob
        <4>2. missing \subseteq Nat
          BY <1>0 DEF Jobs
        <4> HIDE DEF missing
        <4>3. PICK i \in missing : \A k \in missing : ~ (<<k, i>> \in OpToRel(<, Nat))
          BY <3>2, <4>2, NatLessThanWellFounded, WFMin
        <4>4. \A k \in missing : i <= k
          <5> TAKE k \in missing
          <5>1. i \in Nat /\ k \in Nat
            BY <4>2
          <5>2. k < i => <<k, i>> \in OpToRel(<, Nat)
            BY ONLY <5>1 DEF OpToRel
          <5>3. ~ (k < i)
            BY <4>3, <5>2
          <5> QED BY ONLY <5>1, <5>3
        <4>5. c \in missing
          BY <4>3, <4>4
        <4> HIDE DEF c
        <4>6. job.todo[c].was.exists
          BY <4>5 DEF missing
        <4> QED BY <1>0, <4>1, <4>6 DEF Typed
      <3> QED BY <3>1, <3>2
    <2> QED BY <1>0, <1>4, <2>1, <2>2, <2>3 DEF WriteBlob, Typed
  <1>5. CASE WriteLine
    <2>1. CASE job.todo = <<>>
      <3>1. job' = Goto(job.then) /\ job.then \in Pcs
        BY <1>0, <1>5, <2>1 DEF WriteLine, Jobs
      <3>2. job' \in Jobs
        BY <1>0, <3>1, GotoIs
      <3>3. Phases'
        BY <1>0, <1>5, <3>1 DEF Phases, WriteLine, Jobs, Goto, Running, Ending, Restoring
      <3> QED BY <1>0, <1>5, <2>1, <3>2, <3>3 DEF WriteLine, Typed
    <2>2. CASE job.todo # <<>>
      <3>1. /\ lines' = Append(lines, Head(job.todo))
            /\ job' = [job EXCEPT !.todo = Tail(job.todo)] /\ job.pc = "lines"
        BY <1>5, <2>2 DEF WriteLine
      <3>2. job.todo \in Seq(Entries)
        BY <1>0 DEF Jobs
      <3>3. Head(job.todo) \in Entries /\ Tail(job.todo) \in Seq(Entries)
        BY ONLY <2>2, <3>2
      <3>4. job' \in Jobs
        BY <1>0, <3>1, <3>3 DEF Jobs
      <3>5. lines' \in Seq(Entries \union {Torn})
        BY <1>0, <3>1, <3>3 DEF Typed
      <3>6. Phases'
        BY <1>0, <1>5, <3>1 DEF Phases, WriteLine, Jobs, Running, Ending, Restoring
      <3> QED BY <1>0, <1>5, <3>4, <3>5, <3>6 DEF WriteLine, Typed
    <2> QED BY <2>1, <2>2
  <1>6. CASE Seed
    <2>1. PICK ms : ms \subseteq Migrations /\ (vault' = vault \/ vault' = Recording(ms))
      BY <1>6 DEF Seed
    <2>2. vault' \in [Files -> Held]
      BY <1>0, <2>1, RecordingIs DEF Typed
    <2>3. job' \in Jobs
      BY <1>0, <1>6, GotoIs DEF Seed, Pcs, Running
    <2>4. Phases'
      BY <1>0, <1>6 DEF Phases, Seed, Jobs, Goto, Running, Ending, Restoring
    <2> QED BY <1>0, <1>6, <2>2, <2>3, <2>4 DEF Seed, Typed
  <1>7. CASE RecordResult
    <2>1. vault' = Recording(job.mig) /\ job.mig \subseteq Migrations
      BY <1>0, <1>7 DEF RecordResult, Jobs
    <2>2. vault' \in [Files -> Held]
      BY <1>0, <2>1, RecordingIs DEF Typed
    <2>3. job' \in Jobs
      BY <1>0, <1>7, GotoIs DEF RecordResult, Pcs, Running
    <2>4. Phases'
      BY <1>0, <1>7 DEF Phases, RecordResult, Jobs, Goto, Running, Ending, Restoring
    <2> QED BY <1>0, <1>7, <2>2, <2>3, <2>4 DEF RecordResult, Typed
  <1>8. CASE Discard
    <2>1. job' \in Jobs
      BY <1>0, <1>8, GotoIs DEF Discard, Pcs, Ending
    <2>2. Phases'
      BY <1>0, <1>8 DEF Phases, Discard, Jobs, Goto, Running, Ending, Restoring
    <2> QED BY <1>0, <1>8, <2>1, <2>2 DEF Discard, Typed
  <1>9. CASE Sweep
    <2>1. job' \in Jobs
      BY <1>0, <1>9, GotoIs DEF Sweep, Jobs
    <2>2. Phases'
      BY <1>0, <1>9 DEF Phases, Sweep, Jobs, Goto, Running, Ending, Restoring
    <2>3. lines' \in Seq(Entries \union {Torn}) /\ \A b \in blobs' : b.exists
      BY <1>9 DEF Sweep
    <2> QED BY <1>0, <1>9, <2>1, <2>2, <2>3 DEF Sweep, Typed
  <1>10. CASE WriteVersion
    <2>1. job' \in Jobs /\ version' \in Versions
      BY <1>0, <1>10, NoRunIs DEF WriteVersion, Phases
    <2>2. Phases'
      BY <1>10 DEF Phases, WriteVersion, NoRun, Running, Ending, Restoring
    <2> QED BY <1>0, <1>10, <2>1, <2>2 DEF WriteVersion, Typed
  <1>11. CASE PlanRestore
    <2> DEFINE differ == {p \in Scope : Wanted(p) # vault[p]}
    <2>1. job.pc = "plan" /\ job' = [job EXCEPT !.pc = "restore", !.plan = differ]
      BY <1>11 DEF PlanRestore
    <2>2. differ \subseteq Files /\ (job.stage = "ledger" => differ \subseteq {Ledger})
      BY Names DEF Scope
    <2> HIDE DEF differ
    <2>3. job' \in Jobs
      BY <1>0, <2>1, <2>2 DEF Jobs, Pcs, Restoring
    <2>4. Phases'
      BY <1>0, <1>11, <2>1, <2>2 DEF Phases, PlanRestore, Jobs, Running, Ending, Restoring
    <2> QED BY <1>0, <1>11, <2>3, <2>4 DEF PlanRestore, Typed
  <1> QED BY <1>2, <1>3, <1>4, <1>5, <1>6, <1>7, <1>8, <1>9, <1>10, <1>11

\* Before a migration its effects are captured, or the root and all that is there; once a stage
\* for the root.
LEMMA PrepareIs ==
    ASSUME Typed, job.stage \in {"pre", "post"}, NEW m \in Migrations, Prepare(m)
    PROVE  \/ /\ m \notin Declared /\ Captured(job.stage, Root)
              /\ job' = [job EXCEPT !.pc = "effects", !.mig = {m}, !.left = Effects[m]]
           \/ \E todo, ps, root :
                 /\ ps \subseteq Files /\ root \in BOOLEAN /\ Plans(todo, job.stage, ps, root)
                 /\ \/ m \in Declared /\ ps = Effects[m] /\ ~ root
                    \/ /\ m \notin Declared /\ ~ Captured(job.stage, Root)
                       /\ ps = {p \in Paths : vault[p].exists} /\ root
                 /\ job' = [job EXCEPT !.pc = "blobs", !.then = "effects", !.todo = todo,
                                       !.mig = {m}, !.left = Effects[m]]
  <1> DEFINE there == {p \in Paths : vault[p].exists}
  <1>1. job' = [(IF m \in Declared THEN Capture(job.stage, Effects[m], FALSE, "effects")
                 ELSE IF Captured(job.stage, Root) THEN Goto("effects")
                 ELSE Capture(job.stage, there, TRUE, "effects"))
                EXCEPT !.mig = {m}, !.left = Effects[m]]
    BY DEF Prepare
  <1>2. Effects[m] \subseteq Files /\ there \subseteq Files
    BY Names
  <1>3. \A x : x = Goto("effects") => x = [job EXCEPT !.pc = "effects"]
    BY DEF Goto
  <1>4. ASSUME NEW ps, ps \subseteq Files, NEW root \in BOOLEAN
        PROVE  \E todo : /\ Plans(todo, job.stage, ps, root)
                         /\ Capture(job.stage, ps, root, "effects") = Writing(todo, "effects")
    <2>1. PICK s \in {"pre", "post"} : s = job.stage
      OBVIOUS
    <2>2. \E todo : /\ Plans(todo, s, ps, root)
                    /\ Capture(s, ps, root, "effects") = Writing(todo, "effects")
      BY <1>4, CaptureIs
    <2> QED BY <2>1, <2>2
  <1>5. CASE m \in Declared
    <2>1. PICK todo : /\ Plans(todo, job.stage, Effects[m], FALSE)
                      /\ Capture(job.stage, Effects[m], FALSE, "effects") = Writing(todo, "effects")
      BY <1>2, <1>4
    <2>2. job' = [[job EXCEPT !.pc = "blobs", !.then = "effects", !.todo = todo]
                    EXCEPT !.mig = {m}, !.left = Effects[m]]
      BY <1>1, <1>5, <2>1 DEF Writing
    <2>3. job' = [job EXCEPT !.pc = "blobs", !.then = "effects", !.todo = todo,
                             !.mig = {m}, !.left = Effects[m]]
      BY <2>2
    <2> QED BY <1>2, <1>5, <2>1, <2>3
  <1>6. CASE m \notin Declared /\ Captured(job.stage, Root)
    <2>1. job' = [[job EXCEPT !.pc = "effects"] EXCEPT !.mig = {m}, !.left = Effects[m]]
      BY <1>1, <1>6 DEF Goto
    <2> QED BY <1>6, <2>1
  <1>7. CASE m \notin Declared /\ ~ Captured(job.stage, Root)
    <2>1. PICK todo : /\ Plans(todo, job.stage, there, TRUE)
                      /\ Capture(job.stage, there, TRUE, "effects") = Writing(todo, "effects")
      BY <1>2, <1>4
    <2>2. job' = [[job EXCEPT !.pc = "blobs", !.then = "effects", !.todo = todo]
                    EXCEPT !.mig = {m}, !.left = Effects[m]]
      BY <1>1, <1>7, <2>1 DEF Writing
    <2>3. job' = [job EXCEPT !.pc = "blobs", !.then = "effects", !.todo = todo,
                             !.mig = {m}, !.left = Effects[m]]
      BY <2>2
    <2> QED BY <1>2, <1>7, <2>1, <2>3
  <1> QED BY <1>5, <1>6, <1>7

\* After the copy of the core the ledger is captured.
LEMMA CopiedIs ==
    ASSUME Typed, Copied
    PROVE  \E todo : /\ Plans(todo, "pre", {Ledger}, FALSE)
                     /\ job' = [job EXCEPT !.pc = "blobs", !.then = "seed", !.todo = todo, !.stage = "pre"]
  <1>1. {Ledger} \subseteq Files
    BY Names
  <1>2. PICK todo : /\ Plans(todo, "pre", {Ledger}, FALSE)
                    /\ Capture("pre", {Ledger}, FALSE, "seed") = Writing(todo, "seed")
    BY <1>1, CaptureIs
  <1>3. job' = [Capture("pre", {Ledger}, FALSE, "seed") EXCEPT !.stage = "pre"]
    BY DEF Copied
  <1>4. job' = [[job EXCEPT !.pc = "blobs", !.then = "seed", !.todo = todo] EXCEPT !.stage = "pre"]
    BY <1>2, <1>3 DEF Writing
  <1>5. job' = [job EXCEPT !.pc = "blobs", !.then = "seed", !.todo = todo, !.stage = "pre"]
    BY <1>4
  <1> QED BY <1>2, <1>5

\* The steps that capture.
LEMMA CaptureTyped ==
    ASSUME UpgradeInv, Copied \/ \E m \in Migrations : Prepare(m)
    PROVE  Typed' /\ Phases'
  <1>0. Typed /\ Phases /\ job \in Jobs
    BY DEF UpgradeInv, Typed
  <1>1. ASSUME job' \in Jobs, UNCHANGED <<disk, edited, kills, faults>>
        PROVE  Typed'
    BY <1>0, <1>1, MoveTyped
  <1>2. CASE Copied
    <2>1. PICK todo : /\ Plans(todo, "pre", {Ledger}, FALSE)
                      /\ job' = [job EXCEPT !.pc = "blobs", !.then = "seed", !.todo = todo, !.stage = "pre"]
      BY <1>0, <1>2, CopiedIs
    <2>2. todo \in Seq(Entries)
      BY <2>1 DEF Plans
    <2>3. job' \in Jobs
      BY <1>0, <2>1, <2>2 DEF Jobs, Pcs, Running
    <2>4. job.pc = "copy" /\ UNCHANGED <<disk, edited, kills, faults>>
      BY <1>2 DEF Copied
    <2>5. Phases'
      BY <1>0, <2>1, <2>4 DEF Phases, Jobs, Running, Ending, Restoring, disk
    <2> QED BY <1>1, <2>3, <2>4, <2>5
  <1>3. ASSUME NEW m \in Migrations, Prepare(m) PROVE Typed' /\ Phases'
    <2>1. job.pc = "migrate" /\ UNCHANGED <<disk, edited, kills, faults>>
      BY <1>3 DEF Prepare
    <2>2. job.stage \in {"pre", "post"}
      BY <1>0, <2>1 DEF Phases
    <2>3. Effects[m] \subseteq Paths /\ {m} \subseteq Migrations
      BY Names
    <2>4. CASE job' = [job EXCEPT !.pc = "effects", !.mig = {m}, !.left = Effects[m]]
      <3>1. job' \in Jobs
        BY <1>0, <2>3, <2>4 DEF Jobs, Pcs, Running
      <3>2. Phases'
        BY <1>0, <2>1, <2>2, <2>4 DEF Phases, Jobs, Running, Ending, Restoring, disk
      <3> QED BY <1>1, <2>1, <3>1, <3>2
    <2>5. ASSUME NEW todo, todo \in Seq(Entries),
                 job' = [job EXCEPT !.pc = "blobs", !.then = "effects", !.todo = todo,
                                    !.mig = {m}, !.left = Effects[m]]
          PROVE  Typed' /\ Phases'
      <3>1. job' \in Jobs
        BY <1>0, <2>3, <2>5 DEF Jobs, Pcs, Running
      <3>2. Phases'
        BY <1>0, <2>1, <2>2, <2>5 DEF Phases, Jobs, Running, Ending, Restoring, disk
      <3> QED BY <1>1, <2>1, <3>1, <3>2
    <2> QED BY <1>0, <1>3, <2>2, <2>4, <2>5, PrepareIs DEF Plans
  <1> QED BY <1>2, <1>3

\* The steps that write a file of the core or of the vault.
LEMMA FileTyped ==
    ASSUME UpgradeInv,
           \/ \E f \in CoreFiles : Copy(f) \/ RestoreCore(f)
           \/ \E p \in Files : Migrate(p) \/ RestoreFile(p) \/ RestoreFails(p)
           \/ \E p \in Paths : Edit(p)
    PROVE  Typed' /\ Phases'
  <1>0. Typed /\ Phases /\ job \in Jobs /\ vault \in [Files -> Held]
    BY DEF UpgradeInv, Typed
  <1>1. ASSUME NEW f \in CoreFiles, Copy(f) \/ RestoreCore(f) PROVE Typed' /\ Phases'
    <2>1. core' \in [CoreFiles -> Versions]
      BY <1>0, <1>1 DEF Copy, RestoreCore, Typed, Phases, Running
    <2>2. UNCHANGED <<version, vault, head, lines, blobs, job, edited, kills, faults>>
      BY <1>1 DEF Copy, RestoreCore
    <2> QED BY <1>0, <2>1, <2>2 DEF Typed, Phases
  <1>2. ASSUME NEW p \in Files, Migrate(p) PROVE Typed' /\ Phases'
    <2>1. vault[p].edit \in 0 .. MaxEdits /\ vault[p].migs \union job.mig \in SUBSET Migrations
      BY <1>0, FileValues DEF Jobs
    <2>2. Bytes(vault[p].edit, vault[p].migs \union job.mig) \in Held
      BY <2>1, FileValues
    <2>3. vault' \in [Files -> Held]
      BY <1>0, <1>2, <2>2 DEF Migrate
    <2>4. job' \in Jobs
      BY <1>0, <1>2 DEF Migrate, Jobs
    <2>5. Phases'
      BY <1>0, <1>2 DEF Phases, Migrate, Jobs, Running, Ending, Restoring
    <2> QED BY <1>0, <1>2, <2>3, <2>4, <2>5 DEF Migrate, Typed
  <1>3. ASSUME NEW p \in Files, RestoreFile(p) PROVE Typed' /\ Phases'
    <2>1. Wanted(p) \in Held
      BY <1>0, RestoredTyped DEF Wanted, Jobs
    <2>2. vault' \in [Files -> Held]
      BY <1>0, <1>3, <2>1 DEF RestoreFile
    <2>3. job' \in Jobs
      BY <1>0, <1>3 DEF RestoreFile, Jobs
    <2>4. Phases'
      BY <1>0, <1>3 DEF Phases, RestoreFile, Jobs, Running, Ending, Restoring
    <2> QED BY <1>0, <1>3, <2>2, <2>3, <2>4 DEF RestoreFile, Typed
  <1>4. ASSUME NEW p \in Files, RestoreFails(p) PROVE Typed' /\ Phases'
    <2>1. job' \in Jobs
      BY <1>0, <1>4 DEF RestoreFails, Jobs
    <2>2. Phases'
      BY <1>0, <1>4 DEF Phases, RestoreFails, Jobs, Running, Ending, Restoring, disk
    <2> QED BY <1>0, <1>4, <2>1, <2>2, MoveTyped DEF RestoreFails
  <1>5. ASSUME NEW p \in Paths, Edit(p) PROVE Typed' /\ Phases'
    <2>1. PICK e : e = [path |-> p, raced |-> job.pc = "restore" /\ p \in job.plan]
      OBVIOUS
    <2>2. e \in [path : Paths, raced : BOOLEAN]
      BY <2>1
    <2>3. edited' = Append(edited, e) /\ Len(edited) < MaxEdits
      BY <1>5, <2>1 DEF Edit, Mishap
    <2>4. PICK R : R = [path : Paths, raced : BOOLEAN]
      OBVIOUS
    <2>5. edited \in Seq(R) /\ e \in R /\ MaxEdits \in Nat
      BY <1>0, <2>2, <2>4, UpgradeAssumption DEF Typed
    <2>6. edited' \in Seq(R) /\ Len(edited') \in 0 .. MaxEdits
      BY ONLY <2>3, <2>5
    <2>7. vault[p].migs \in SUBSET Migrations
      BY <1>0, Names, FileValues
    <2>8. Bytes(Len(edited'), vault[p].migs) \in Held
      BY <2>6, <2>7, FileValues
    <2>9. vault' \in [Files -> Held]
      BY <1>0, <1>5, <2>8 DEF Edit
    <2>10. UNCHANGED <<version, core, head, lines, blobs, job, kills, faults>>
      BY <1>5 DEF Edit
    <2>11. Len(edited') <= MaxEdits
      BY <2>5, <2>6
    <2> QED BY <1>0, <2>4, <2>6, <2>9, <2>10, <2>11 DEF Typed, Phases
  <1> QED BY <1>1, <1>2, <1>3, <1>4, <1>5

\* A kill leaves what is on disk, but for a line half written.
LEMMA KillIs ==
    ASSUME Typed, Kill
    PROVE  /\ job.pc # "idle" /\ job' = NoRun /\ UNCHANGED <<version, core, vault, head, blobs, kept, edited, faults>>
           /\ \/ lines' = lines
              \/ job.pc = "lines" /\ job.todo # <<>> /\ lines' = Append(lines, Torn)
  BY DEF Kill

\* A start, a verified restore and a kill.
LEMMA OtherTyped ==
    ASSUME UpgradeInv,
           \/ \E w \in Versions, force \in BOOLEAN : Start(w, force)
           \/ Verify \/ Kill
    PROVE  Typed' /\ Phases'
  <1>0. Typed /\ Phases /\ Headed /\ job \in Jobs
    BY DEF UpgradeInv, Typed
  <1>1. ASSUME NEW w \in Versions, NEW force \in BOOLEAN, Start(w, force) PROVE Typed' /\ Phases'
    <2>1. version \in Nat /\ w \in Nat
      BY <1>0, Names DEF Typed
    <2>2. job' \in Jobs /\ job'.pc = "load" /\ job'.old = version /\ job'.new = w
      BY <1>1, <2>1, NoRunIs DEF Start, Jobs, Pcs
    <2>3. UNCHANGED <<disk, edited, kills, faults>> /\ version' = version
      BY <1>1 DEF Start, disk
    <2>4. Phases'
      BY <1>0, <2>2, <2>3 DEF Phases, Running, Ending, Restoring
    <2> QED BY <1>0, <2>2, <2>3, <2>4, MoveTyped
  <1>2. CASE Verify
    <2>1. job.failed \union {p \in Scope : Wanted(p) # vault[p]} \subseteq Files
      BY <1>0, Names DEF Jobs, Scope
    <2>2. PICK failed : failed = job.failed \union {p \in Scope : Wanted(p) # vault[p]}
      OBVIOUS
    <2>3. PICK next : next = NextPass
      OBVIOUS
    <2>4. next \in {"post", "pre", "done"}
      BY <2>3 DEF NextPass
    <2>5. /\ job.pc = "restore" /\ UNCHANGED <<disk, edited, kills, faults>>
          /\ \/ next # "done" /\ job' = [job EXCEPT !.failed = failed, !.stage = next, !.pc = "plan"]
             \/ next = "done" /\ job.then = "idle" /\ job' = [job EXCEPT !.failed = failed, !.pc = "core"]
             \/ next = "done" /\ job.then # "idle" /\ job' = Goto("discard")
             \/ job' = NoRun
      BY <1>2, <2>2, <2>3 DEF Verify
    <2>6. failed \subseteq Files
      BY <2>1, <2>2
    <2>7. job' \in Jobs
      <3>1. Goto("discard") \in Jobs
        BY <1>0, GotoIs DEF Pcs, Ending
      <3>2. [job EXCEPT !.failed = failed, !.pc = "core"] \in Jobs
        BY <1>0, <2>6 DEF Jobs, Pcs
      <3>3. next # "done" => [job EXCEPT !.failed = failed, !.stage = next, !.pc = "plan"] \in Jobs
        BY <1>0, <2>4, <2>6 DEF Jobs, Pcs, Restoring
      <3> QED BY <2>5, <3>1, <3>2, <3>3, NoRunIs
    <2>8. Phases'
      <3>0. job.then \in {"idle", "guard"} /\ UNCHANGED version
        BY <1>0, <2>5 DEF Phases, Restoring, disk
      <3>1. CASE next # "done" /\ job' = [job EXCEPT !.failed = failed, !.stage = next, !.pc = "plan"]
        BY <1>0, <2>5, <3>0, <3>1 DEF Phases, Jobs, Running, Ending, Restoring
      <3>2. CASE next = "done" /\ job.then = "idle" /\ job' = [job EXCEPT !.failed = failed, !.pc = "core"]
        BY <1>0, <2>5, <3>0, <3>2 DEF Phases, Jobs, Running, Ending, Restoring
      <3>3. CASE job' = Goto("discard")
        BY <1>0, <2>5, <3>0, <3>3 DEF Phases, Goto, Jobs, Running, Ending, Restoring
      <3>4. CASE job' = NoRun
        BY <3>4, NoRunIs DEF Phases, Running, Ending, Restoring
      <3> QED BY <2>5, <3>1, <3>2, <3>3, <3>4
    <2> QED BY <1>0, <2>5, <2>7, <2>8, MoveTyped
  <1>3. CASE Kill
    <2>1. kills' \in 0 .. MaxKills
      BY <1>0, <1>3, UpgradeAssumption DEF Kill, Mishap, Typed
    <2>2. lines' \in Seq(Entries \union {Torn})
      <3>1. PICK R : R = Entries \union {Torn}
        OBVIOUS
      <3>2. lines \in Seq(R) /\ Torn \in R
        BY <1>0, <3>1 DEF Typed
      <3>3. Append(lines, Torn) \in Seq(R)
        BY ONLY <3>2
      <3> QED BY <1>0, <1>3, <3>1, <3>2, <3>3, KillIs
    <2>3. job' \in Jobs /\ job'.pc = "idle"
      BY <1>3, NoRunIs DEF Kill
    <2>4. Phases'
      BY <2>3 DEF Phases, Running, Ending, Restoring
    <2> QED BY <1>0, <1>3, <2>1, <2>2, <2>3, <2>4, KillIs DEF Typed
  <1> QED BY <1>1, <1>2, <1>3

----------------------------------------------------------------------------
(* One more line in the journal.                                             *)

\* The first line of a stage and a path is the only one with none before it.
LEMMA LeastIs ==
    ASSUME NEW ls, Len(ls) \in Nat, NEW s, NEW p, NEW i \in 1 .. Len(ls), ls[i].stage = s, ls[i].path = p,
           \A j \in 1 .. i - 1 : ls[j].stage # s \/ ls[j].path # p
    PROVE  i = CHOOSE k \in 1 .. Len(ls) :
                  /\ ls[k].stage = s /\ ls[k].path = p
                  /\ \A j \in 1 .. k - 1 : ls[j].stage # s \/ ls[j].path # p
  <1> DEFINE k == CHOOSE k \in 1 .. Len(ls) :
                    /\ ls[k].stage = s /\ ls[k].path = p
                    /\ \A j \in 1 .. k - 1 : ls[j].stage # s \/ ls[j].path # p
  <1>1. k \in 1 .. Len(ls) /\ ls[k].stage = s /\ ls[k].path = p
        /\ \A j \in 1 .. k - 1 : ls[j].stage # s \/ ls[j].path # p
    OBVIOUS
  <1> HIDE DEF k
  <1>2. ~ (i < k) /\ ~ (k < i)
    BY <1>1
  <1>3. i = k
    BY <1>1, <1>2
  <1> QED BY <1>3 DEF k

\* One more line leaves the others where they are.
LEMMA AppendIs ==
    ASSUME Typed, NEW l, l \in Entries \union {Torn}, lines' = Append(lines, l)
    PROVE  /\ Len(lines) \in Nat /\ Len(lines') = Len(lines) + 1 /\ lines'[Len(lines) + 1] = l
           /\ \A i \in 1 .. Len(lines) : lines'[i] = lines[i]
  <1>1. PICK R : R = Entries \union {Torn}
    OBVIOUS
  <1>2. lines \in Seq(R) /\ l \in R
    BY <1>1 DEF Typed
  <1> QED BY ONLY <1>2, lines' = Append(lines, l)

\* One more line captures its path, and is not the first if the path was captured.
LEMMA AppendCaptures ==
    ASSUME Typed, NEW l, l \in Entries \union {Torn}, lines' = Append(lines, l), NEW s, NEW p
    PROVE  /\ Captured(s, p)' <=> Captured(s, p) \/ (l.stage = s /\ l.path = p)
           /\ Captured(s, p) => First(s, p)' = First(s, p)
           /\ ~ Captured(s, p) /\ l.stage = s /\ l.path = p => First(s, p)' = l.was
  <1>1. /\ Len(lines) \in Nat /\ Len(lines') = Len(lines) + 1 /\ lines'[Len(lines) + 1] = l
        /\ \A i \in 1 .. Len(lines) : lines'[i] = lines[i]
    BY AppendIs
  <1>2. PICK n : n = Len(lines) /\ n \in Nat
    BY <1>1
  <1>3. \A i : i \in 1 .. Len(lines') <=> (i \in 1 .. n \/ i = n + 1)
    BY <1>1, <1>2
  <1>4. Captured(s, p)' <=> Captured(s, p) \/ (l.stage = s /\ l.path = p)
    <2>1. Captured(s, p)' <=> \E i \in 1 .. Len(lines') : lines'[i].stage = s /\ lines'[i].path = p
      BY DEF Captured
    <2>2. Captured(s, p) <=> \E i \in 1 .. n : lines[i].stage = s /\ lines[i].path = p
      BY <1>2 DEF Captured
    <2>3. lines'[n + 1] = l /\ \A i \in 1 .. n : lines'[i] = lines[i]
      BY <1>1, <1>2
    <2> QED BY ONLY <1>3, <2>1, <2>2, <2>3
  <1>5. ASSUME NEW i \in 1 .. Len(lines'), lines'[i].stage = s, lines'[i].path = p,
               \A j \in 1 .. i - 1 : lines'[j].stage # s \/ lines'[j].path # p
        PROVE  First(s, p)' = lines'[i].was
    <2>1. Len(lines') \in Nat
      BY <1>1
    <2>2. i = CHOOSE k \in 1 .. Len(lines') :
                  /\ lines'[k].stage = s /\ lines'[k].path = p
                  /\ \A j \in 1 .. k - 1 : lines'[j].stage # s \/ lines'[j].path # p
      BY <1>5, <2>1, LeastIs
    <2> QED BY <2>2 DEF First
  <1>6. ASSUME Captured(s, p) PROVE First(s, p)' = First(s, p)
    <2>1. PICK i \in 1 .. Len(lines) : /\ lines[i].stage = s /\ lines[i].path = p
                                      /\ First(s, p) = lines[i].was
                                      /\ \A j \in 1 .. i - 1 : lines[j].stage # s \/ lines[j].path # p
      BY <1>6, FirstIs
    <2>2. i \in 1 .. Len(lines') /\ lines'[i] = lines[i] /\ \A j \in 1 .. i - 1 : lines'[j] = lines[j]
      BY <1>1
    <2>3. First(s, p)' = lines'[i].was
      BY <1>5, <2>1, <2>2
    <2> QED BY <2>1, <2>2, <2>3
  <1>7. ASSUME ~ Captured(s, p), l.stage = s, l.path = p PROVE First(s, p)' = l.was
    <2>1. n + 1 \in 1 .. Len(lines') /\ lines'[n + 1] = l
          /\ \A j \in 1 .. (n + 1) - 1 : lines'[j].stage # s \/ lines'[j].path # p
      BY <1>1, <1>2, <1>7 DEF Captured
    <2>2. First(s, p)' = lines'[n + 1].was
      BY <1>5, <1>7, <2>1
    <2> QED BY <2>1, <2>2
  <1> QED BY <1>4, <1>6, <1>7

\* A torn line tells nothing.
LEMMA TornCaptures ==
    ASSUME Typed, lines' = Append(lines, Torn), NEW s, s \in {"pre", "post"}, NEW p
    PROVE  /\ Captured(s, p)' <=> Captured(s, p)
           /\ Captured(s, p) => First(s, p)' = First(s, p)
           /\ Covered(s, p)' <=> Covered(s, p)
  <1>1. Torn.stage = "torn" /\ Torn.path = Root
    BY DEF Torn
  <1>2. PICK l : l = Torn
    OBVIOUS
  <1>3. /\ Captured(s, p)' <=> Captured(s, p) \/ (l.stage = s /\ l.path = p)
        /\ Captured(s, p) => First(s, p)' = First(s, p)
        /\ Captured(s, Root)' <=> Captured(s, Root) \/ (l.stage = s /\ l.path = Root)
    BY <1>2, AppendCaptures
  <1>4. l.stage # s
    BY <1>1, <1>2
  <1> QED BY <1>3, <1>4 DEF Covered

----------------------------------------------------------------------------
(* Steps that leave the journal and what the migrations did alone.           *)

\* What the invariant says of the disk is still the same.
SameDisk ==
    /\ \A s, p : Captured(s, p)' <=> Captured(s, p)
    /\ Before' = Before /\ Recorded' = Recorded
    /\ Uncommitted' <=> Uncommitted
    /\ Behind' <=> Behind
    /\ Safe'

\* What the ledger records, now and after a restore, are migrations.
LEMMA LedgerTyped == Typed => /\ Recorded \subseteq Migrations /\ Before \subseteq Migrations
                             /\ \A m \in Migrations : \A p \in Effects[m] : p \in Paths /\ p \in Files
  <1> SUFFICES ASSUME Typed
               PROVE  /\ Recorded \subseteq Migrations /\ Before \subseteq Migrations
                      /\ \A m \in Migrations : \A p \in Effects[m] : p \in Paths /\ p \in Files
    OBVIOUS
  <1>1. vault[Ledger] \in Held /\ RestoredIn("pre", Ledger) \in Held
    BY Names, RestoredTyped DEF Typed
  <1> QED BY <1>1, Names, FileValues DEF Recorded, Before

\* A step that leaves VERSION, the journal and the transformed bytes alone leaves a restore alone.
LEMMA QuietIs ==
    ASSUME Typed, Safe, UNCHANGED <<version, head, lines>>,
           \A p \in Files : vault'[p].migs = vault[p].migs,
           faults' = faults \/ faults' = faults + 1
    PROVE  SameDisk
  <1>1. \A s, p : Captured(s, p)' <=> Captured(s, p)
    BY SameLines
  <1>2. \A p \in Files : \A s : RestoredIn(s, p)'.migs = RestoredIn(s, p).migs
    BY SameMigrations
  <1>3. Before' = Before /\ Recorded' = Recorded
    BY <1>2, Names DEF Before, Recorded
  <1>4. Uncommitted' <=> Uncommitted
    BY DEF Uncommitted
  <1>5. Behind' <=> Behind
    BY <1>3, LedgerTyped DEF Behind
  <1>6. \A p \in Paths : Base(p)' = Base(p)
    BY <1>3 DEF Base
  <1>7. Safe'
    <2>1. Uncommitted => \A p \in Paths : Base(p)' \subseteq vault'[p].migs
      BY <1>6, Names DEF Safe
    <2>2. Uncommitted => \A p \in Paths : \A s \in {"pre", "post"} : Base(p)' \subseteq RestoredIn(s, p)'.migs
      BY <1>2, <1>6, Names DEF Safe
    <2>3. VersionWitnesses'
      BY Names DEF Safe, VersionWitnesses
    <2>4. LedgerBehindContent'
      <3>1. LedgerBehindContent <=> Behind \/ (Uncommitted /\ faults > 0)
        BY DEF LedgerBehindContent, Behind
      <3>2. LedgerBehindContent' <=> Behind' \/ (Uncommitted' /\ faults' > 0)
        BY DEF LedgerBehindContent, Behind
      <3>3. faults > 0 => faults' > 0
        BY DEF Typed
      <3> QED BY <1>4, <1>5, <3>1, <3>2, <3>3 DEF Safe
    <2> QED BY <1>4, <2>1, <2>2, <2>3, <2>4 DEF Safe
  <1> QED BY <1>1, <1>3, <1>4, <1>5, <1>7 DEF SameDisk

\* The ledger claims no migration whose effects are missing, in two words.
LEMMA BehindIs == LedgerBehindContent <=> Behind \/ (Uncommitted /\ faults > 0)
  BY DEF LedgerBehindContent, Behind

----------------------------------------------------------------------------
(* Steps that only move the run.                                             *)

Rest == Headed /\ Journalled /\ LedgerAhead /\ Preserved /\ Headway /\ LedgerRestored
Counted == faults' = faults \/ faults' = faults + 1

\* A step that leaves the disk alone leaves a restore alone.
LEMMA MoveSame ==
    ASSUME UpgradeInv, UNCHANGED disk, Counted
    PROVE  SameDisk /\ UNCHANGED <<version, core, vault, head, lines, blobs>>
  <1>1. UNCHANGED <<version, core, vault, head, lines, blobs>>
    BY DEF disk
  <1> QED BY <1>1, QuietIs DEF UpgradeInv, Preserved, Counted

\* The lines are as good as they were when neither they nor the blobs change.
LEMMA JournalStays ==
    ASSUME UpgradeInv, UNCHANGED <<head, lines, blobs>>, SameDisk,
           job'.pc \in Running => job.pc \in Running, job'.pc \notin {"blobs", "lines"}
    PROVE  Journalled'
  BY DEF UpgradeInv, Journalled, SameDisk

\* Where nothing is going on there is nothing to show.
LEMMA LeaveKeeps ==
    ASSUME UpgradeInv, UNCHANGED disk, Counted, job'.pc \in {"idle", "load", "guard"}
    PROVE  Rest'
  <1>0. SameDisk /\ UNCHANGED <<version, core, vault, head, lines, blobs>>
    BY MoveSame
  <1>1. Headed'
    BY DEF Headed, Running, Restoring
  <1>2. Journalled'
    BY <1>0, JournalStays DEF Running
  <1>3. LedgerAhead' /\ Headway' /\ LedgerRestored'
    BY DEF LedgerAhead, Headway, LedgerRestored, Ending, Restoring
  <1>4. Preserved'
    BY <1>0 DEF SameDisk, Preserved, Forward, Running, Ending
  <1> QED BY <1>1, <1>2, <1>3, <1>4 DEF Rest

\* The journal is about to be discarded.
LEMMA CloseKeeps ==
    ASSUME UpgradeInv, UNCHANGED disk, Counted, job'.pc = "discard", head # NoHead, Behind,
           job'.then = "version" => /\ head = <<job'.old, job'.new>>
                                    /\ {m \in Migrations : Ver[m] <= job'.new} \subseteq Recorded
    PROVE  Rest'
  <1>0. SameDisk /\ UNCHANGED <<version, core, vault, head, lines, blobs>>
    BY MoveSame
  <1>1. Headed'
    BY <1>0 DEF Headed, Running, Restoring
  <1>2. Journalled'
    BY <1>0, JournalStays DEF Running
  <1>3. LedgerAhead' /\ LedgerRestored'
    BY DEF LedgerAhead, LedgerRestored, Restoring
  <1>4. Preserved'
    BY <1>0 DEF SameDisk, Preserved
  <1>5. Headway'
    BY <1>0 DEF SameDisk, Headway, Owing, Ending
  <1> QED BY <1>1, <1>2, <1>3, <1>4, <1>5 DEF Rest

\* A restore begins or goes on.
LEMMA RestoreKeeps ==
    ASSUME UpgradeInv, UNCHANGED disk, Counted, job'.pc \in {"plan", "core"}, Uncommitted,
           job'.stage # "ledger" \/ job'.pc = "core" => Recorded = Before \/ faults' > 0,
           job'.pc = "core" => Ledger \in job'.failed \/ Recorded = Before
    PROVE  Rest'
  <1>0. SameDisk /\ UNCHANGED <<version, core, vault, head, lines, blobs>>
    BY MoveSame
  <1>1. Headed'
    BY <1>0 DEF SameDisk, Headed, Running, Restoring
  <1>2. Journalled'
    BY <1>0, JournalStays DEF Running
  <1>3. LedgerAhead' /\ Headway'
    BY DEF LedgerAhead, Headway, Ending
  <1>4. Preserved'
    BY <1>0 DEF SameDisk, Preserved, Forward, Running, Ending
  <1>5. LedgerRestored'
    BY <1>0 DEF SameDisk, LedgerRestored, Restoring
  <1> QED BY <1>1, <1>2, <1>3, <1>4, <1>5 DEF Rest

\* A leftover journal is looked at: its run is as far as its lines say.
LEMMA RecoverKeeps == ASSUME UpgradeInv, Recover PROVE Rest'
  <1>1. UNCHANGED disk /\ Counted /\ job \in Jobs
    BY DEF Recover, Counted, UpgradeInv, Typed
  <1>2. \/ job' = Goto("guard") \/ job' = NoRun
        \/ /\ job' = [job EXCEPT !.pc = "discard", !.then = "guard"]
           /\ head # NoHead /\ ~ Uncommitted
        \/ job' = [job EXCEPT !.pc = "plan", !.stage = "ledger", !.then = "guard"] /\ Uncommitted
    BY DEF Recover, Uncommitted
  <1>3. CASE job' = Goto("guard") \/ job' = NoRun
    <2>1. job'.pc \in {"idle", "guard"}
      BY <1>1, <1>3, NoRunIs DEF Goto, Jobs
    <2> QED BY <1>1, <2>1, LeaveKeeps
  <1>4. CASE job' = [job EXCEPT !.pc = "discard", !.then = "guard"] /\ head # NoHead /\ ~ Uncommitted
    <2>1. job'.pc = "discard" /\ job'.then = "guard"
      BY <1>1, <1>4 DEF Jobs
    <2>2. Behind
      BY <1>4, BehindIs DEF UpgradeInv, Preserved, Safe
    <2> QED BY <1>1, <1>4, <2>1, <2>2, CloseKeeps
  <1>5. CASE job' = [job EXCEPT !.pc = "plan", !.stage = "ledger", !.then = "guard"] /\ Uncommitted
    <2>1. job'.pc = "plan" /\ job'.stage = "ledger"
      BY <1>1, <1>5 DEF Jobs
    <2> QED BY <1>1, <1>5, <2>1, RestoreKeeps
  <1> QED BY <1>2, <1>3, <1>4, <1>5

\* The migrations of the stage are done.
LEMMA EndStageKeeps == ASSUME UpgradeInv, EndStage PROVE Rest'
  <1>1. UNCHANGED disk /\ Counted /\ job \in Jobs /\ job.pc = "migrate" /\ job.stage \in {"pre", "post"}
    BY DEF EndStage, Counted, UpgradeInv, Typed, Phases
  <1>2. SameDisk /\ UNCHANGED <<version, core, vault, head, lines, blobs>>
    BY <1>1, MoveSame
  <1>3. \/ job.stage = "pre" /\ job' = [job EXCEPT !.stage = "post", !.pc = "seed"]
        \/ job.stage = "post" /\ job' = Goto("cutover")
    BY <1>1 DEF EndStage
  <1>4. /\ job'.old = job.old /\ job'.new = job.new
        /\ \/ job.stage = "pre" /\ job'.stage = "post" /\ job'.pc = "seed"
           \/ job.stage = "post" /\ job'.pc = "cutover"
    BY <1>1, <1>3 DEF Goto, Jobs
  <1>5. Owing(job.stage) \subseteq Recorded
    <2>1. Seeded(job.stage) \subseteq Recorded
      BY <1>1 DEF UpgradeInv, Headway
    <2>2. Pending = {} /\ Ver \in [Migrations -> Nat] /\ job.old \in Nat
      BY <1>1, Names DEF EndStage, Jobs
    <2> QED BY <2>1, <2>2 DEF Pending, Owing, Seeded
  <1>6. Headed'
    BY <1>1, <1>2, <1>4 DEF UpgradeInv, Headed, Running, Restoring
  <1>7. Journalled'
    BY <1>1, <1>2, <1>4, JournalStays DEF Running
  <1>8. LedgerAhead'
    BY <1>1, <1>2, <1>4 DEF UpgradeInv, LedgerAhead, SameDisk
  <1>9. Preserved'
    BY <1>1, <1>2, <1>4 DEF UpgradeInv, Preserved, Forward, Running, Ending, SameDisk
  <1>10. Headway'
    <2>1. CASE job.stage = "pre"
      BY <1>2, <1>4, <1>5, <2>1 DEF Headway, Owing, SameDisk, Ending
    <2>2. CASE job.stage = "post"
      <3>1. Owing("pre") \subseteq Recorded
        BY <1>1, <2>2 DEF UpgradeInv, Headway
      <3> QED BY <1>2, <1>4, <1>5, <2>2, <3>1 DEF Headway, Owing, SameDisk, Ending
    <2> QED BY <1>1, <2>1, <2>2
  <1>11. LedgerRestored'
    BY <1>4 DEF LedgerRestored, Restoring
  <1> QED BY <1>6, <1>7, <1>8, <1>9, <1>10, <1>11 DEF Rest

\* All migrations are recorded when the run goes on to close its journal.
LEMMA CutoverKeeps == ASSUME UpgradeInv, Cutover PROVE Rest'
  <1>1. /\ UNCHANGED disk /\ Counted /\ job \in Jobs /\ job.pc = "cutover"
        /\ job' = [job EXCEPT !.pc = "discard", !.then = "version"]
    BY DEF Cutover, Counted, UpgradeInv, Typed
  <1>2. job'.pc = "discard" /\ job'.old = job.old /\ job'.new = job.new
    BY <1>1 DEF Jobs
  <1>3. head = <<job.old, job.new>> /\ Behind
    BY <1>1 DEF UpgradeInv, Headed, Preserved, Forward, Running
  <1>4. Owing("pre") \union Owing("post") \subseteq Recorded
    BY <1>1 DEF UpgradeInv, Headway
  <1>5. {m \in Migrations : Ver[m] <= job'.new} \subseteq Recorded
    BY <1>2, <1>4, Names DEF Owing
  <1>6. head # NoHead
    BY <1>3 DEF NoHead
  <1> QED BY <1>1, <1>2, <1>3, <1>5, <1>6, CloseKeeps

\* A rollback ends: the journal is closed only if every file is restored.
LEMMA EndRollbackKeeps == ASSUME UpgradeInv, EndRollback PROVE Rest'
  <1>1. /\ UNCHANGED disk /\ Counted /\ job \in Jobs /\ job.pc = "core" /\ job.then = "idle"
        /\ (job' = Goto("discard") /\ job.failed = {}) \/ job' = NoRun
    BY DEF EndRollback, Counted, UpgradeInv, Typed, Phases
  <1>2. CASE job' = Goto("discard") /\ job.failed = {}
    <2>1. job'.pc = "discard" /\ job'.then = "idle"
      BY <1>1, <1>2 DEF Goto, Jobs
    <2>2. Recorded = Before /\ Uncommitted
      BY <1>1, <1>2 DEF UpgradeInv, LedgerRestored, Headed
    <2>3. Behind
      BY <2>2, LedgerTyped DEF UpgradeInv, Preserved, Safe, Behind, Base
    <2>4. head # NoHead
      BY <2>2 DEF Uncommitted
    <2> QED BY <1>1, <2>1, <2>3, <2>4, CloseKeeps
  <1>3. CASE job' = NoRun
    BY <1>1, <1>3, NoRunIs, LeaveKeeps
  <1> QED BY <1>1, <1>2, <1>3

\* A run that refuses has changed nothing.
LEMMA RefuseKeeps == ASSUME UpgradeInv, Refuse PROVE Rest'
  <1>1. /\ UNCHANGED disk /\ Counted /\ job \in Jobs
        /\ \/ job' = NoRun
           \/ job.pc = "copy" /\ job' = [job EXCEPT !.pc = "discard", !.then = "idle"]
    BY DEF Refuse, Counted, UpgradeInv, Typed
  <1>2. CASE job.pc = "copy" /\ job' = [job EXCEPT !.pc = "discard", !.then = "idle"]
    <2>1. job'.pc = "discard" /\ job'.then = "idle"
      BY <1>1, <1>2 DEF Jobs
    <2>2. head # NoHead /\ Behind
      BY <1>2 DEF UpgradeInv, Headed, Preserved, Forward, Running, NoHead
    <2> QED BY <1>1, <2>1, <2>2, CloseKeeps
  <1>3. CASE job' = NoRun
    BY <1>1, <1>3, NoRunIs, LeaveKeeps
  <1> QED BY <1>1, <1>2, <1>3

\* A journal that cannot be closed stays.
LEMMA DiscardFailsKeeps == ASSUME UpgradeInv, DiscardFails PROVE Rest'
  <1>1. /\ UNCHANGED disk /\ Counted /\ job \in Jobs /\ job.pc \in {"discard", "sweep"}
        /\ job' = Goto(job.then) /\ job.then \in {"version", "idle", "guard"}
    BY DEF DiscardFails, Counted, UpgradeInv, Typed, Phases
  <1>2. job'.pc = job.then /\ job'.then = job.then /\ job'.old = job.old /\ job'.new = job.new
    BY <1>1 DEF Goto, Jobs
  <1>3. CASE job.then # "version"
    BY <1>1, <1>2, <1>3, LeaveKeeps
  <1>4. CASE job.then = "version"
    <2>0. SameDisk /\ UNCHANGED <<version, core, vault, head, lines, blobs>>
      BY <1>1, MoveSame
    <2>1. Headed'
      BY <1>1, <1>2, <1>4, <2>0 DEF UpgradeInv, Headed, Running, Restoring
    <2>2. Journalled'
      BY <1>2, <1>4, <2>0, JournalStays DEF Running
    <2>3. LedgerAhead' /\ LedgerRestored'
      BY <1>2, <1>4 DEF LedgerAhead, LedgerRestored, Restoring
    <2>4. Preserved'
      BY <1>1, <1>2, <1>4, <2>0 DEF UpgradeInv, SameDisk, Preserved, Forward, Running, Ending
    <2>5. Headway'
      BY <1>1, <1>2, <1>4, <2>0 DEF UpgradeInv, SameDisk, Headway, Owing, Ending
    <2> QED BY <2>1, <2>2, <2>3, <2>4, <2>5 DEF Rest
  <1> QED BY <1>3, <1>4

\* A run that fails has not committed.
LEMMA FailKeeps == ASSUME UpgradeInv, Fail PROVE Rest'
  <1>1. /\ UNCHANGED disk /\ Counted /\ job \in Jobs /\ job.pc \in Running
        /\ job' = [job EXCEPT !.pc = "plan", !.stage = "ledger", !.then = "idle"]
    BY DEF Fail, Counted, UpgradeInv, Typed, Running
  <1>2. job'.pc = "plan" /\ job'.stage = "ledger"
    BY <1>1 DEF Jobs
  <1>3. Uncommitted
    <2>1. head = <<job.old, job.new>> /\ job.old = version
      BY <1>1 DEF UpgradeInv, Headed, Phases, Running
    <2>2. head # NoHead /\ head[1] = job.old
      BY <2>1 DEF NoHead
    <2> QED BY <2>1, <2>2 DEF Uncommitted
  <1> QED BY <1>1, <1>2, <1>3, RestoreKeeps

\* A restore is verified against the plan.
LEMMA VerifyKeeps == ASSUME UpgradeInv, Verify PROVE Rest'
  <1> DEFINE found == job.failed \union {p \in Scope : Wanted(p) # vault[p]}
  <1>1. PICK failed : failed = found
    OBVIOUS
  <1>2. PICK next : next = NextPass
    OBVIOUS
  <1>3. /\ next = "post" => job.stage = "ledger"
        /\ next = "pre" => job.stage = "post"
        /\ next = "done" => job.stage \notin {"ledger", "post"}
        /\ next \in {"post", "pre", "done"}
    BY <1>2 DEF NextPass
  <1>4. /\ UNCHANGED disk /\ Counted /\ job \in Jobs /\ job.pc = "restore" /\ job.plan = {} /\ faults' = faults
        /\ \/ next # "done" /\ job' = [job EXCEPT !.failed = failed, !.stage = next, !.pc = "plan"]
           \/ next = "done" /\ job.then = "idle" /\ job' = [job EXCEPT !.failed = failed, !.pc = "core"]
           \/ next = "done" /\ job.then # "idle" /\ failed = {} /\ job' = Goto("discard")
           \/ job' = NoRun
    BY <1>1, <1>2 DEF Verify, Counted, UpgradeInv, Typed
  <1>5. Uncommitted /\ (Recorded = Before \/ faults > 0) /\ job.then \in {"idle", "guard"}
    BY <1>4 DEF UpgradeInv, Headed, LedgerRestored, Restoring, Phases
  <1>6. next = "done" => Ledger \in failed \/ Recorded = Before
    <2> SUFFICES ASSUME next = "done" PROVE Ledger \in found \/ Recorded = Before
      BY <1>1
    <2>1. job.stage = "pre"
      BY <1>3, <1>4 DEF Jobs
    <2>2. Ledger \in Scope /\ Wanted(Ledger) = RestoredIn("pre", Ledger)
      BY <2>1, Names DEF Scope, Wanted
    <2> QED BY <2>2 DEF Before, Recorded
  <1>7. CASE next # "done" /\ job' = [job EXCEPT !.failed = failed, !.stage = next, !.pc = "plan"]
    <2>1. job'.pc = "plan"
      BY <1>4, <1>7 DEF Jobs
    <2> QED BY <1>4, <1>5, <2>1, RestoreKeeps
  <1>8. CASE next = "done" /\ job.then = "idle" /\ job' = [job EXCEPT !.failed = failed, !.pc = "core"]
    <2>1. job'.pc = "core" /\ job'.failed = failed
      BY <1>4, <1>8 DEF Jobs
    <2> QED BY <1>4, <1>5, <1>6, <1>8, <2>1, RestoreKeeps
  <1>9. CASE next = "done" /\ job.then # "idle" /\ failed = {} /\ job' = Goto("discard")
    <2>1. job'.pc = "discard" /\ job'.then = "guard"
      BY <1>4, <1>5, <1>9 DEF Goto, Jobs
    <2>2. Recorded = Before
      BY <1>6, <1>9
    <2>3. Behind
      BY <1>5, <2>2, LedgerTyped DEF UpgradeInv, Preserved, Safe, Behind, Base
    <2>4. head # NoHead
      BY <1>5 DEF Uncommitted
    <2> QED BY <1>4, <2>1, <2>3, <2>4, CloseKeeps
  <1>10. CASE job' = NoRun
    BY <1>4, <1>10, NoRunIs, LeaveKeeps
  <1> QED BY <1>4, <1>7, <1>8, <1>9, <1>10

----------------------------------------------------------------------------
(* Steps that do not touch what the migrations did.                          *)

\* A run starts with nothing to lose.
LEMMA StartKeeps == ASSUME UpgradeInv, NEW w \in Versions, NEW force \in BOOLEAN, Start(w, force) PROVE Rest'
  <1>1. UNCHANGED disk /\ Counted /\ job' = [NoRun EXCEPT !.pc = "load", !.old = version, !.new = w, !.force = force]
    BY DEF Start, Counted
  <1>2. job'.pc = "load"
    BY <1>1, NoRunIs DEF Jobs
  <1> QED BY <1>1, <1>2, LeaveKeeps

\* The run stays where it is.
LEMMA CalmKeeps ==
    ASSUME UpgradeInv, UNCHANGED <<version, head, lines, blobs, job>>, Counted,
           \A p \in Files : vault'[p].migs = vault[p].migs
    PROVE  Rest'
  <1>1. SameDisk
    BY QuietIs DEF UpgradeInv, Preserved, Counted
  <1>2. Headed'
    BY <1>1 DEF UpgradeInv, Headed, SameDisk
  <1>3. Journalled'
    <2>1. \A i \in 1 .. Len(job.todo) : Owed(i) => Owed(i)'
      <3> TAKE i \in 1 .. Len(job.todo)
      <3>1. job.todo[i].path \in Files => vault'[job.todo[i].path].migs = vault[job.todo[i].path].migs
        OBVIOUS
      <3>2. \A p \in Paths : vault'[p].migs = vault[p].migs
        BY Names
      <3> QED BY <1>1, <3>1, <3>2 DEF Owed, SameDisk
    <2> QED BY <1>1, <2>1 DEF UpgradeInv, Journalled, SameDisk
  <1>4. LedgerAhead'
    BY <1>1 DEF UpgradeInv, LedgerAhead, SameDisk
  <1>5. Preserved'
    BY <1>1 DEF UpgradeInv, Preserved, SameDisk, Forward
  <1>6. Headway'
    <2>1. \A m \in job.mig : \A p \in Effects[m] : vault'[p].migs = vault[p].migs
      BY LedgerTyped DEF UpgradeInv, Typed, Jobs
    <2> QED BY <1>1, <2>1 DEF UpgradeInv, Headway, SameDisk, Seeded, Owing
  <1>7. LedgerRestored'
    BY <1>1 DEF UpgradeInv, LedgerRestored, SameDisk, Counted, Typed
  <1> QED BY <1>2, <1>3, <1>4, <1>5, <1>6, <1>7 DEF Rest

\* The core is not the vault's content.
LEMMA CoreKeeps == ASSUME UpgradeInv, NEW f \in CoreFiles, Copy(f) \/ RestoreCore(f) PROVE Rest'
  BY CalmKeeps DEF Copy, RestoreCore, Counted

\* The user's edit leaves what migrations did to the file.
LEMMA EditMigrations == ASSUME Typed, NEW p \in Paths, Edit(p) PROVE \A q \in Files : vault'[q].migs = vault[q].migs
  <1>1. vault' = [vault EXCEPT ![p] = Bytes(Len(edited'), vault[p].migs)]
    BY DEF Edit
  <1>2. Bytes(Len(edited'), vault[p].migs).migs = vault[p].migs
    BY DEF Bytes
  <1> QED BY <1>1, <1>2 DEF Typed

\* The user's edit changes no migration's effect.
LEMMA EditKeeps == ASSUME UpgradeInv, NEW p \in Paths, Edit(p) PROVE Rest'
  <1>1. \A q \in Files : vault'[q].migs = vault[q].migs
    BY EditMigrations DEF UpgradeInv
  <1> QED BY <1>1, CalmKeeps DEF Edit, Counted

\* A file that cannot be restored stays as it is, and is reported.
LEMMA RestoreFailsKeeps == ASSUME UpgradeInv, NEW p \in Files, RestoreFails(p) PROVE Rest'
  <1>1. /\ UNCHANGED disk /\ Counted /\ faults' = faults + 1 /\ job \in Jobs /\ job.pc = "restore"
        /\ job' = [job EXCEPT !.plan = job.plan \ {p}, !.failed = job.failed \union {p}]
    BY DEF RestoreFails, Counted, UpgradeInv, Typed
  <1>2. job'.pc = "restore" /\ faults' > 0
    BY <1>1 DEF Jobs, UpgradeInv, Typed
  <1>3. SameDisk /\ UNCHANGED <<version, core, vault, head, lines, blobs>>
    BY <1>1, MoveSame
  <1>4. Headed'
    BY <1>1, <1>2, <1>3 DEF UpgradeInv, Headed, SameDisk, Running, Restoring
  <1>5. Journalled'
    BY <1>2, <1>3, JournalStays DEF Running
  <1>6. LedgerAhead' /\ Headway' /\ LedgerRestored'
    BY <1>2 DEF LedgerAhead, Headway, LedgerRestored, Ending
  <1>7. Preserved'
    BY <1>2, <1>3 DEF SameDisk, Preserved, Forward, Running, Ending
  <1> QED BY <1>4, <1>5, <1>6, <1>7 DEF Rest

\* A restore takes the files that differ, the ledger before the others.
LEMMA PlanRestoreKeeps == ASSUME UpgradeInv, PlanRestore PROVE Rest'
  <1> DEFINE found == {p \in Scope : Wanted(p) # vault[p]}
  <1>0. PICK differ : differ = found
    OBVIOUS
  <1>1. /\ UNCHANGED <<version, vault, head, lines, blobs, faults>> /\ job \in Jobs /\ job.pc = "plan"
        /\ job' = [job EXCEPT !.pc = "restore", !.plan = differ]
    BY <1>0 DEF PlanRestore, UpgradeInv, Typed
  <1>2. job'.pc = "restore" /\ job'.stage = job.stage /\ job'.plan = differ
    BY <1>1 DEF Jobs
  <1>3. SameDisk
    BY <1>1, QuietIs DEF UpgradeInv, Preserved
  <1>4. Headed'
    BY <1>1, <1>2, <1>3 DEF UpgradeInv, Headed, SameDisk, Running, Restoring
  <1>5. Journalled'
    BY <1>1, <1>2, <1>3, JournalStays DEF Running
  <1>6. LedgerAhead' /\ Headway'
    BY <1>2 DEF LedgerAhead, Headway, Ending
  <1>7. Preserved'
    BY <1>2, <1>3 DEF SameDisk, Preserved, Forward, Running, Ending
  <1>8. job.stage = "ledger" /\ Ledger \notin differ => Recorded = Before
    <2> SUFFICES ASSUME job.stage = "ledger", Ledger \notin found PROVE Recorded = Before
      BY <1>0
    <2>1. Ledger \in Scope /\ Wanted(Ledger) = RestoredIn("pre", Ledger)
      BY DEF Scope, Wanted
    <2> QED BY <2>1 DEF Recorded, Before
  <1>9. LedgerRestored'
    BY <1>1, <1>2, <1>3, <1>8 DEF UpgradeInv, LedgerRestored, SameDisk, Restoring
  <1> QED BY <1>4, <1>5, <1>6, <1>7, <1>9 DEF Rest

\* A capture begins: nothing is changed, and what it plans is what is there.
LEMMA CaptureKeeps ==
    ASSUME UpgradeInv, UNCHANGED disk, Counted, job.pc \in Running \ {"blobs", "lines"}, job'.pc = "blobs",
           job'.old = job.old, job'.new = job.new, job'.stage \in {"pre", "post"},
           NEW ps, ps \subseteq Files, NEW root \in BOOLEAN, Plans(job'.todo, job'.stage, ps, root),
           Ledger \in ps => job'.stage = "pre",
           root => \A p \in Paths : vault[p].exists => p \in ps,
           LedgerAhead', Headway'
    PROVE  Rest'
  <1>1. SameDisk /\ UNCHANGED <<version, core, vault, head, lines, blobs>>
    BY MoveSame
  <1>2. Headed'
    BY <1>1 DEF UpgradeInv, Headed, Running, Restoring
  <1>3. \A i \in 1 .. Len(job'.todo) : Owed(i)'
    <2> TAKE i \in 1 .. Len(job'.todo)
    <2>1. PICK todo : todo = job'.todo
      OBVIOUS
    <2>2. /\ todo[i].stage = job'.stage
          /\ \/ todo[i].path \in ps /\ todo[i].was = vault[todo[i].path]
             \/ root /\ i = Len(todo) /\ todo[i].path = Root /\ todo[i].was = Absent
          /\ \A p \in ps : Captured(job'.stage, p) \/ \E j \in 1 .. Len(todo) : todo[j].path = p
      BY <2>1 DEF Plans
    <2>3. todo[i].path = Root => root /\ i = Len(todo) /\ todo[i].was = Absent
      BY <2>2, Names
    <2>4. root => \A p \in Paths : \/ vault[p].migs = {} \/ Captured(job'.stage, p)
                                   \/ \E j \in 1 .. Len(todo) : todo[j].path = p
      <3> SUFFICES ASSUME root, NEW p \in Paths, p \notin ps PROVE vault[p].migs = {}
        BY <2>2
      <3>1. vault[p] \in Held /\ ~ vault[p].exists
        BY Names DEF UpgradeInv, Typed
      <3> QED BY <3>1, FileValues, Names
    <2>5. todo[i].path \in Files => todo[i].was.migs = vault[todo[i].path].migs
      BY <2>2, Names
    <2>6. todo[i].path = Ledger => job'.stage = "pre"
      BY <2>2, Names
    <2>7. \A p : Captured(job.stage, p)' <=> Captured(job'.stage, p)
      BY <1>1 DEF Captured
    <2> QED
      BY <1>1, <2>1, <2>2, <2>3, <2>4, <2>5, <2>6, <2>7 DEF Owed
  <1>4. Journalled'
    BY <1>1, <1>3 DEF UpgradeInv, Journalled, SameDisk
  <1>5. Preserved'
    BY <1>1 DEF UpgradeInv, Preserved, Forward, SameDisk
  <1>6. LedgerRestored'
    BY DEF LedgerRestored, Restoring
  <1> QED BY <1>2, <1>4, <1>5, <1>6 DEF Rest

\* The ledger is the first to be captured.
LEMMA CopiedKeeps == ASSUME UpgradeInv, Copied PROVE Rest'
  <1>1. PICK todo : /\ Plans(todo, "pre", {Ledger}, FALSE)
                    /\ job' = [job EXCEPT !.pc = "blobs", !.then = "seed", !.todo = todo, !.stage = "pre"]
    BY CopiedIs DEF UpgradeInv
  <1>2. UNCHANGED disk /\ Counted /\ job.pc = "copy" /\ job \in Jobs
    BY DEF Copied, Counted, UpgradeInv, Typed
  <1>3. /\ job'.pc = "blobs" /\ job'.then = "seed" /\ job'.todo = todo /\ job'.stage = "pre"
        /\ job'.old = job.old /\ job'.new = job.new
    BY <1>1, <1>2 DEF Jobs
  <1>4. SameDisk
    BY <1>2, MoveSame
  <1>5. LedgerAhead'
    <2>1. Captured("pre", Ledger) \/ \E i \in 1 .. Len(todo) : todo[i].path = Ledger
      BY <1>1 DEF Plans
    <2> QED BY <1>3, <1>4, <2>1 DEF LedgerAhead, SameDisk
  <1>6. Headway'
    BY <1>3 DEF Headway, Ending
  <1>7. {Ledger} \subseteq Files
    BY Names
  <1>8. PICK ps : ps = {Ledger}
    OBVIOUS
  <1>9. Plans(job'.todo, job'.stage, ps, FALSE) /\ ps \subseteq Files
    BY <1>1, <1>3, <1>7, <1>8
  <1>10. PICK root \in BOOLEAN : root = FALSE
    OBVIOUS
  <1>11. Plans(job'.todo, job'.stage, ps, root)
    BY <1>9, <1>10
  <1>12. job.pc \in Running \ {"blobs", "lines"}
    BY <1>2 DEF Running
  <1> QED BY <1>2, <1>3, <1>5, <1>6, <1>9, <1>10, <1>11, <1>12, CaptureKeeps

\* What a migration may change is captured before it runs.
LEMMA PrepareKeeps == ASSUME UpgradeInv, NEW m \in Migrations, Prepare(m) PROVE Rest'
  <1>1. /\ UNCHANGED disk /\ Counted /\ job.pc = "migrate" /\ job \in Jobs /\ Typed
        /\ job.stage \in {"pre", "post"}
    BY DEF Prepare, Counted, UpgradeInv, Typed, Phases
  <1>2. SameDisk /\ UNCHANGED <<version, core, vault, head, lines, blobs>>
    BY <1>1, MoveSame
  <1>3. Captured("pre", Ledger) /\ Seeded(job.stage) \subseteq Recorded
    BY <1>1 DEF UpgradeInv, LedgerAhead, Headway
  <1>4. job.stage = "post" => Owing("pre") \subseteq Recorded
    BY <1>1 DEF UpgradeInv, Headway
  <1>5. CASE job' = [job EXCEPT !.pc = "effects", !.mig = {m}, !.left = Effects[m]]
    <2>1. /\ job'.pc = "effects" /\ job'.mig = {m} /\ job'.left = Effects[m]
          /\ job'.old = job.old /\ job'.new = job.new /\ job'.stage = job.stage
      BY <1>1, <1>5 DEF Jobs
    <2>2. Headed'
      BY <1>1, <1>2, <2>1 DEF UpgradeInv, Headed, Running, Restoring
    <2>3. Journalled'
      BY <1>1, <1>2, <2>1, JournalStays DEF Running
    <2>4. LedgerAhead'
      BY <1>2, <1>3, <2>1 DEF LedgerAhead, SameDisk
    <2>5. Preserved'
      BY <1>1, <1>2, <2>1 DEF UpgradeInv, Preserved, Forward, SameDisk, Running
    <2>6. Headway'
      BY <1>2, <1>3, <1>4, <2>1 DEF Headway, SameDisk, Seeded, Owing, Ending
    <2>7. LedgerRestored'
      BY <2>1 DEF LedgerRestored, Restoring
    <2> QED BY <2>2, <2>3, <2>4, <2>5, <2>6, <2>7 DEF Rest
  <1>6. ASSUME NEW todo, NEW ps, NEW root,
               ps \subseteq Files /\ root \in BOOLEAN /\ Plans(todo, job.stage, ps, root),
               \/ ps = Effects[m] /\ ~ root
               \/ ps = {p \in Paths : vault[p].exists} /\ root,
               job' = [job EXCEPT !.pc = "blobs", !.then = "effects", !.todo = todo,
                                  !.mig = {m}, !.left = Effects[m]]
        PROVE  Rest'
    <2>1. /\ job'.pc = "blobs" /\ job'.then = "effects" /\ job'.mig = {m} /\ job'.left = Effects[m]
          /\ job'.old = job.old /\ job'.new = job.new /\ job'.stage = job.stage /\ job'.todo = todo
      BY <1>1, <1>6 DEF Jobs
    <2>2. LedgerAhead'
      BY <1>2, <1>3, <2>1 DEF LedgerAhead, SameDisk
    <2>3. Headway'
      BY <1>2, <1>3, <1>4, <2>1 DEF Headway, SameDisk, Seeded, Owing, Ending
    <2>4. Ledger \notin ps
      BY <1>6, Names
    <2>5. root => \A p \in Paths : vault[p].exists => p \in ps
      BY <1>6
    <2>6. Plans(job'.todo, job'.stage, ps, root)
      BY <1>6, <2>1
    <2>7. job.pc \in Running \ {"blobs", "lines"}
      BY <1>1 DEF Running
    <2> QED BY <1>1, <1>6, <2>1, <2>2, <2>3, <2>4, <2>5, <2>6, <2>7, CaptureKeeps
  <1> QED BY <1>1, <1>5, <1>6, PrepareIs

\* Bytes reach the disk before the line that names them.
LEMMA WriteBlobKeeps == ASSUME UpgradeInv, WriteBlob PROVE Rest'
  <1> DEFINE missing == {i \in 1 .. Len(job.todo) : job.todo[i].was.exists /\ job.todo[i].was \notin blobs}
  <1>1. /\ UNCHANGED <<version, core, vault, head, lines, faults>> /\ job.pc = "blobs" /\ job \in Jobs
        /\ blobs \subseteq blobs'
        /\ \/ missing = {} /\ job' = Goto("lines") /\ blobs' = blobs
           \/ job' = job
    BY DEF WriteBlob, UpgradeInv, Typed
  <1>2. SameDisk
    BY <1>1, QuietIs DEF UpgradeInv, Preserved
  <1>3. /\ job'.pc = "blobs" \/ (job'.pc = "lines" /\ missing = {} /\ blobs' = blobs)
        /\ job'.old = job.old /\ job'.new = job.new /\ job'.stage = job.stage /\ job'.then = job.then
        /\ job'.todo = job.todo /\ job'.mig = job.mig /\ job'.left = job.left
    BY <1>1 DEF Goto, Jobs
  <1>4. Headed'
    BY <1>1, <1>3 DEF UpgradeInv, Headed, Running, Restoring
  <1>5. Journalled'
    <2>1. \A i \in 1 .. Len(job.todo) : Owed(i)'
      <3> TAKE i \in 1 .. Len(job.todo)
      <3>1. Owed(i)
        BY <1>1 DEF UpgradeInv, Journalled
      <3>2. job'.pc = "lines" /\ job.todo[i].was.exists => job.todo[i].was \in blobs'
        BY <1>3
      <3> HIDE DEF missing
      <3> QED BY <1>1, <1>2, <1>3, <3>1, <3>2, SameLines DEF Owed
    <2>2. \A i \in 1 .. Len(lines) : lines[i] # Torn
      BY <1>1 DEF UpgradeInv, Journalled, Running
    <2>3. ~ Captured("post", Ledger)'
      BY <1>2 DEF UpgradeInv, Journalled, SameDisk
    <2>4. head # NoHead => \A i \in 1 .. Len(lines) : lines[i].was.exists => lines[i].was \in blobs'
      BY <1>1 DEF UpgradeInv, Journalled
    <2> QED BY <1>1, <1>3, <2>1, <2>2, <2>3, <2>4 DEF Journalled
  <1>6. LedgerAhead'
    BY <1>1, <1>2, <1>3 DEF UpgradeInv, LedgerAhead, SameDisk
  <1>7. Preserved'
    BY <1>1, <1>2, <1>3 DEF UpgradeInv, Preserved, Forward, SameDisk, Running
  <1>8. Headway'
    BY <1>1, <1>2, <1>3 DEF UpgradeInv, Headway, SameDisk, Seeded, Owing, Ending
  <1>9. LedgerRestored'
    BY <1>3 DEF LedgerRestored, Restoring
  <1> QED BY <1>4, <1>5, <1>6, <1>7, <1>8, <1>9 DEF Rest

----------------------------------------------------------------------------
(* Steps that open or close the journal.                                     *)

\* Without a journal the disk is what counts.
LEMMA ClosedSafe ==
    ASSUME Safe, UNCHANGED <<version, vault>>, Behind, ~ Uncommitted'
    PROVE  Safe' /\ Behind'
  <1>1. VersionWitnesses'
    BY DEF Safe, VersionWitnesses
  <1>2. Behind'
    BY DEF Behind, Recorded
  <1>3. LedgerBehindContent'
    BY <1>2 DEF Behind, LedgerBehindContent
  <1> QED BY <1>1, <1>2, <1>3 DEF Safe

\* A journal is opened where none is, over what is left of a discarded one.
LEMMA GuardKeeps == ASSUME UpgradeInv, Guard PROVE Rest'
  <1>1. /\ UNCHANGED <<version, core, vault, head, kept, faults>> /\ Counted /\ job \in Jobs
        /\ \/ head = NoHead /\ job' = Goto("open") /\ lines' = <<>> /\ blobs' = {}
           \/ job' = NoRun /\ UNCHANGED <<lines, blobs>>
    BY DEF Guard, Counted, UpgradeInv, Typed
  <1>2. CASE job' = NoRun /\ UNCHANGED <<lines, blobs>>
    <2>1. UNCHANGED disk
      BY <1>1, <1>2 DEF disk
    <2> QED BY <1>1, <1>2, <2>1, NoRunIs, LeaveKeeps
  <1>3. CASE head = NoHead /\ job' = Goto("open") /\ lines' = <<>> /\ blobs' = {}
    <2>1. job'.pc = "open"
      BY <1>1, <1>3 DEF Goto, Jobs
    <2>2. ~ Uncommitted /\ ~ Uncommitted'
      BY <1>1, <1>3 DEF Uncommitted
    <2>3. Safe'
      BY <1>1, <2>2, BehindIs, ClosedSafe DEF UpgradeInv, Preserved, Safe
    <2>4. Len(lines') = 0
      BY <1>3
    <2>5. \A s, p : ~ Captured(s, p)'
      BY <2>4 DEF Captured
    <2>6. Headed'
      BY <1>1, <1>3, <2>1 DEF Headed, Running, Restoring
    <2>7. Journalled'
      BY <2>1, <2>4, <2>5 DEF Journalled
    <2>8. LedgerAhead' /\ Headway' /\ LedgerRestored'
      BY <2>1 DEF LedgerAhead, Headway, LedgerRestored, Ending, Restoring
    <2>9. Preserved'
      BY <2>1, <2>3 DEF Preserved, Forward, Running, Ending
    <2> QED BY <2>6, <2>7, <2>8, <2>9 DEF Rest
  <1> QED BY <1>1, <1>2, <1>3

\* The header claims nothing but the two versions.
LEMMA OpenKeeps == ASSUME UpgradeInv, Open PROVE Rest'
  <1>1. /\ UNCHANGED <<version, vault, lines, blobs, faults>> /\ job \in Jobs /\ job.pc = "open" /\ Typed
        /\ head' = <<job.old, job.new>> /\ job' = [job EXCEPT !.pc = "copy", !.backup = core]
    BY DEF Open, UpgradeInv, Typed
  <1>2. job'.pc = "copy" /\ job'.old = job.old /\ job'.new = job.new
    BY <1>1 DEF Jobs
  <1>3. head = NoHead /\ lines = <<>> /\ blobs = {} /\ ~ Uncommitted
    BY <1>1 DEF UpgradeInv, Headed, Uncommitted
  <1>4. Behind
    BY <1>3, BehindIs DEF UpgradeInv, Preserved, Safe
  <1>5. Len(lines') = 0 /\ \A s, p : ~ Captured(s, p)'
    BY <1>1, <1>3 DEF Captured
  <1>6. \A s, p : RestoredIn(s, p)' = vault[p]
    <2> TAKE s, p
    <2>1. PICK t : t = RestoredIn(s, p)'
      OBVIOUS
    <2> QED BY <1>1, <1>5 DEF RestoredIn
  <1>7. Recorded' = Recorded /\ Before' = Recorded
    BY <1>1, <1>6 DEF Recorded, Before
  <1>8. Behind'
    BY <1>1, <1>4, <1>7 DEF Behind
  <1>9. Safe'
    <2>1. VersionWitnesses /\ VersionWitnesses'
      BY <1>1 DEF UpgradeInv, Preserved, Safe, VersionWitnesses
    <2>2. LedgerBehindContent'
      BY <1>8 DEF Behind, LedgerBehindContent
    <2>3. \A p \in Paths : Base(p)' \subseteq vault[p].migs
      BY <1>1, <1>4, <1>7, <2>1 DEF Base, Behind, VersionWitnesses
    <2> QED BY <1>1, <1>6, <2>1, <2>2, <2>3 DEF Safe
  <1>10. Headed'
    BY <1>1, <1>2, <1>3 DEF Headed, Running, Restoring
  <1>11. Journalled'
    BY <1>2, <1>5 DEF Journalled
  <1>12. LedgerAhead' /\ Headway' /\ LedgerRestored'
    BY <1>2 DEF LedgerAhead, Headway, LedgerRestored, Ending, Restoring
  <1>13. Preserved'
    BY <1>8, <1>9 DEF Preserved
  <1> QED BY <1>10, <1>11, <1>12, <1>13 DEF Rest

\* Without its header a journal takes nothing back: either the run has committed, or everything is
\* restored.
LEMMA DiscardKeeps == ASSUME UpgradeInv, Discard PROVE Rest'
  <1>1. /\ UNCHANGED <<version, vault, lines, blobs, faults>> /\ job \in Jobs /\ job.pc = "discard"
        /\ head' = NoHead /\ job' = Goto("sweep")
    BY DEF Discard, UpgradeInv, Typed
  <1>2. job'.pc = "sweep" /\ job'.old = job.old /\ job'.new = job.new /\ job'.then = job.then
    BY <1>1 DEF Goto, Jobs
  <1>3. ~ Uncommitted'
    BY <1>1 DEF Uncommitted
  <1>4. Safe' /\ Behind'
    BY <1>1, <1>3, ClosedSafe DEF UpgradeInv, Preserved
  <1>5. Headed'
    BY <1>1, <1>2 DEF Headed, Running, Restoring
  <1>6. Journalled'
    <2>1. ~ Captured("post", Ledger)'
      BY <1>1, SameLines DEF UpgradeInv, Journalled
    <2> QED BY <1>1, <1>2, <2>1 DEF UpgradeInv, Journalled, Running
  <1>7. LedgerAhead' /\ LedgerRestored'
    BY <1>2 DEF LedgerAhead, LedgerRestored, Restoring
  <1>8. Preserved'
    BY <1>4 DEF Preserved
  <1>9. Headway'
    BY <1>1, <1>2 DEF UpgradeInv, Headway, Owing, Recorded, Ending
  <1> QED BY <1>5, <1>6, <1>7, <1>8, <1>9 DEF Rest

\* What is left of a discarded journal is not read.
LEMMA SweepKeeps == ASSUME UpgradeInv, Sweep PROVE Rest'
  <1>1. /\ UNCHANGED <<version, vault, head, faults>> /\ job \in Jobs /\ job.pc = "sweep"
        /\ lines' = <<>> /\ blobs' = {} /\ job' = Goto(job.then) /\ job.then \in {"version", "idle", "guard"}
    BY DEF Sweep, UpgradeInv, Typed, Phases
  <1>2. job'.pc = job.then /\ job'.old = job.old /\ job'.new = job.new /\ job'.then = job.then
    BY <1>1 DEF Goto, Jobs
  <1>3. head = NoHead /\ ~ Uncommitted /\ ~ Uncommitted'
    BY <1>1 DEF UpgradeInv, Headed, Uncommitted
  <1>4. Safe' /\ Behind'
    BY <1>1, <1>3, BehindIs, ClosedSafe DEF UpgradeInv, Preserved, Safe
  <1>5. Headed'
    BY <1>1, <1>2, <1>3 DEF Headed, Running, Restoring
  <1>6. Journalled'
    <2>1. Len(lines') = 0
      BY <1>1
    <2>2. \A s, p : ~ Captured(s, p)'
      BY <2>1 DEF Captured
    <2> QED BY <1>1, <1>2, <2>1, <2>2 DEF Journalled
  <1>7. LedgerAhead' /\ LedgerRestored'
    BY <1>1, <1>2 DEF LedgerAhead, LedgerRestored, Restoring
  <1>8. Preserved'
    BY <1>4 DEF Preserved
  <1>9. Headway'
    BY <1>1, <1>2 DEF UpgradeInv, Headway, Owing, Recorded, Ending
  <1> QED BY <1>5, <1>6, <1>7, <1>8, <1>9 DEF Rest

\* VERSION vouches for what was recorded, which is there.
LEMMA WriteVersionKeeps == ASSUME UpgradeInv, WriteVersion PROVE Rest'
  <1>1. /\ UNCHANGED <<core, vault, head, lines, blobs, faults>> /\ job \in Jobs /\ job.pc = "version"
        /\ version' = job.new /\ job' = NoRun /\ job'.pc = "idle" /\ job.then = "version" /\ job.old = version
    BY NoRunIs DEF WriteVersion, UpgradeInv, Typed, Phases
  <1>2. head \in {NoHead, <<job.old, job.new>>} /\ Behind /\ Owing("pre") \union Owing("post") \subseteq Recorded
    BY <1>1 DEF UpgradeInv, Headed, Preserved, Forward, Headway, Ending
  <1>3. Behind' /\ Recorded' = Recorded
    BY <1>1, <1>2 DEF Behind, Recorded
  <1>4. VersionWitnesses'
    <2>1. \A m \in Migrations : Ver[m] <= job.new => m \in Recorded
      BY <1>2, Names DEF Owing
    <2> QED BY <1>1, <1>2, <2>1 DEF VersionWitnesses, Behind
  <1>5. LedgerBehindContent'
    BY <1>3 DEF Behind, LedgerBehindContent
  <1>6. Uncommitted' => UNCHANGED version
    <2>1. head = <<job.old, job.new>> => head[1] = job.old
      OBVIOUS
    <2> QED BY <1>1, <1>2, <2>1 DEF Uncommitted
  <1>7. CASE UNCHANGED version
    <2>1. SameDisk
      BY <1>1, <1>7, QuietIs DEF UpgradeInv, Preserved
    <2> QED BY <1>1, <2>1, JournalStays DEF Rest, Headed, LedgerAhead, Headway, LedgerRestored, Preserved,
                                            SameDisk, Forward, Running, Ending, Restoring
  <1>8. CASE ~ Uncommitted'
    <2>1. Safe'
      BY <1>4, <1>5, <1>8 DEF Safe
    <2>2. ~ Captured("post", Ledger)'
      BY <1>1, SameLines DEF UpgradeInv, Journalled
    <2>3. Journalled'
      BY <1>1, <2>2 DEF UpgradeInv, Journalled, Running
    <2> QED BY <1>1, <2>1, <2>3 DEF Rest, Headed, LedgerAhead, Headway, LedgerRestored, Preserved,
                                    Forward, Running, Ending, Restoring
  <1> QED BY <1>6, <1>7, <1>8

\* A line cut short tells nothing.
LEMMA KillKeeps == ASSUME UpgradeInv, Kill PROVE Rest'
  <1>1. /\ job' = NoRun /\ job'.pc = "idle" /\ UNCHANGED <<version, core, vault, head, blobs, kept, faults>> /\ Typed
        /\ lines' = lines \/ (job.pc = "lines" /\ lines' = Append(lines, Torn))
    BY NoRunIs, KillIs DEF UpgradeInv
  <1>2. CASE lines' = lines
    <2>1. UNCHANGED disk
      BY <1>1, <1>2 DEF disk
    <2> QED BY <1>1, <2>1, LeaveKeeps DEF Counted
  <1>3. CASE job.pc = "lines" /\ lines' = Append(lines, Torn)
    <2>1. /\ Len(lines) \in Nat /\ Len(lines') = Len(lines) + 1 /\ lines'[Len(lines) + 1] = Torn
          /\ \A i \in 1 .. Len(lines) : lines'[i] = lines[i]
      <3>1. PICK l : l = Torn
        OBVIOUS
      <3> QED BY <1>1, <1>3, <3>1, AppendIs
    <2>2. \A s \in {"pre", "post"} : \A p :
             /\ Captured(s, p)' <=> Captured(s, p)
             /\ Captured(s, p) => First(s, p)' = First(s, p)
             /\ Covered(s, p)' <=> Covered(s, p)
      BY <1>1, <1>3, TornCaptures
    <2>3. \A s \in {"pre", "post"}, p \in Files : RestoredIn(s, p)' = RestoredIn(s, p)
      <3> TAKE s \in {"pre", "post"}, p \in Files
      <3>1. /\ Captured(s, p)' => RestoredIn(s, p)' = First(s, p)'
            /\ ~ Captured(s, p)' /\ Covered(s, p)' => RestoredIn(s, p)' = Absent
            /\ ~ Covered(s, p)' => RestoredIn(s, p)' = vault'[p]
        BY DEF RestoredIn, Covered
      <3> QED BY <1>1, <2>2, <3>1, RestoredIs
    <2>4. Before' = Before /\ Recorded' = Recorded /\ (Uncommitted' <=> Uncommitted)
      BY <1>1, <2>3, Names DEF Before, Recorded, Uncommitted
    <2>5. Safe'
      <3>1. \A p \in Paths : Base(p)' = Base(p)
        BY <1>1, <2>4 DEF Base
      <3>2. VersionWitnesses'
        BY <1>1 DEF UpgradeInv, Preserved, Safe, VersionWitnesses
      <3>3. LedgerBehindContent'
        BY <1>1, <2>4 DEF UpgradeInv, Preserved, Safe, LedgerBehindContent
      <3>4. \A p \in Paths : \A s \in {"pre", "post"} : RestoredIn(s, p)' = RestoredIn(s, p)
        BY <2>3, Names
      <3> QED BY <1>1, <2>4, <3>1, <3>2, <3>3, <3>4 DEF UpgradeInv, Preserved, Safe
    <2>6. Journalled'
      <3>1. \A i \in 1 .. Len(lines) : lines[i] # Torn
        BY <1>3 DEF UpgradeInv, Journalled, Running
      <3>2. ~ Torn.was.exists
        BY Names DEF Torn
      <3>3. \A i \in 1 .. Len(lines') : i = Len(lines') \/ i \in 1 .. Len(lines)
        BY <2>1
      <3>4. lines'[Len(lines')] = Torn
        BY <2>1
      <3> QED BY <1>1, <2>1, <2>2, <3>1, <3>2, <3>3, <3>4 DEF UpgradeInv, Journalled, Running
    <2>7. Headed' /\ LedgerAhead' /\ Headway' /\ LedgerRestored'
      BY <1>1 DEF Headed, LedgerAhead, Headway, LedgerRestored, Running, Ending, Restoring
    <2>8. Preserved'
      BY <1>1, <2>5 DEF Preserved, Forward, Running, Ending
    <2> QED BY <2>6, <2>7, <2>8 DEF Rest
  <1> QED BY <1>1, <1>2, <1>3

----------------------------------------------------------------------------
(* Steps that write to the vault or to the journal.                          *)

\* The run adds migrations to files once the ledger is captured.
LEMMA GrowIs ==
    ASSUME UpgradeInv, UNCHANGED <<version, head, lines>>, Captured("pre", Ledger),
           \A p \in Files : vault[p].migs \subseteq vault'[p].migs, Behind'
    PROVE  /\ \A s, p : Captured(s, p)' <=> Captured(s, p)
           /\ Before' = Before /\ (Uncommitted' <=> Uncommitted) /\ Recorded \subseteq Recorded'
           /\ Safe'
  <1>1. \A s, p : (Captured(s, p)' <=> Captured(s, p)) /\ First(s, p)' = First(s, p)
    BY SameLines
  <1>2. \A s \in {"pre", "post"}, p \in Files : /\ RestoredIn(s, p).migs \subseteq RestoredIn(s, p)'.migs
                                                /\ Captured(s, p) => RestoredIn(s, p)' = RestoredIn(s, p)
    <2> TAKE s \in {"pre", "post"}, p \in Files
    <2>1. /\ Captured(s, p)' => RestoredIn(s, p)' = First(s, p)'
          /\ ~ Captured(s, p)' /\ Covered(s, p)' => RestoredIn(s, p)' = Absent
          /\ ~ Covered(s, p)' => RestoredIn(s, p)' = vault'[p]
      BY DEF RestoredIn, Covered
    <2>2. Covered(s, p)' <=> Covered(s, p)
      BY SameLines
    <2>3. Captured(s, p) => RestoredIn(s, p)' = RestoredIn(s, p)
      BY <1>1, <2>1, RestoredIs
    <2>4. ~ Captured(s, p) /\ Covered(s, p) => RestoredIn(s, p)' = RestoredIn(s, p)
      BY <1>1, <2>1, <2>2, RestoredIs
    <2>5. ~ Covered(s, p) => RestoredIn(s, p) = vault[p] /\ RestoredIn(s, p)' = vault'[p]
      BY <2>1, <2>2, RestoredIs
    <2>6. CASE RestoredIn(s, p)' = RestoredIn(s, p)
      BY <2>3, <2>6
    <2>7. CASE RestoredIn(s, p) = vault[p] /\ RestoredIn(s, p)' = vault'[p]
      <3>1. RestoredIn(s, p).migs = vault[p].migs /\ RestoredIn(s, p)'.migs = vault'[p].migs
        BY <2>7
      <3>2. vault[p].migs \subseteq vault'[p].migs
        OBVIOUS
      <3> QED BY <2>3, <3>1, <3>2
    <2> QED BY <2>3, <2>4, <2>5, <2>6, <2>7
  <1>3. Before' = Before /\ (Uncommitted' <=> Uncommitted) /\ Recorded \subseteq Recorded'
    BY <1>2, Names DEF Before, Uncommitted, Recorded
  <1>4. Safe'
    <2>1. \A p \in Paths : Base(p)' = Base(p)
      BY <1>3 DEF Base
    <2>2. VersionWitnesses'
      <3>1. \A m \in Migrations : \A p \in Effects[m] : vault[p].migs \subseteq vault'[p].migs
        BY LedgerTyped DEF UpgradeInv
      <3> QED BY <3>1 DEF UpgradeInv, Preserved, Safe, VersionWitnesses
    <2>3. LedgerBehindContent'
      BY DEF Behind, LedgerBehindContent
    <2>4. ASSUME Uncommitted, NEW p \in Paths
          PROVE  Base(p) \subseteq vault'[p].migs /\ \A s \in {"pre", "post"} : Base(p) \subseteq RestoredIn(s, p)'.migs
      <3>1. p \in Files
        BY Names
      <3>2. Base(p) \subseteq vault[p].migs /\ \A s \in {"pre", "post"} : Base(p) \subseteq RestoredIn(s, p).migs
        BY <2>4 DEF UpgradeInv, Preserved, Safe
      <3> QED BY <1>2, <3>1, <3>2
    <2> QED BY <1>3, <2>1, <2>2, <2>3, <2>4 DEF Safe
  <1> QED BY <1>1, <1>3, <1>4

\* What a step of the run that writes to the vault has to show.
LEMMA GrowKeeps ==
    ASSUME UpgradeInv, UNCHANGED <<version, head, lines, blobs>>, job.pc \in {"seed", "effects"},
           \A p \in Files : vault[p].migs \subseteq vault'[p].migs, Behind',
           job'.pc \in {"migrate", "effects"}, job'.old = job.old, job'.new = job.new, job'.stage = job.stage,
           Seeded(job.stage) \subseteq Recorded',
           job'.pc = "effects" => \A m \in job'.mig : /\ job'.left \subseteq Effects[m]
                                                      /\ \A p \in Effects[m] \ job'.left : m \in vault'[p].migs
    PROVE  Rest'
  <1>1. Captured("pre", Ledger) /\ job.pc \in Running
    BY DEF UpgradeInv, LedgerAhead, Running
  <1>2. /\ \A s, p : Captured(s, p)' <=> Captured(s, p)
        /\ Before' = Before /\ (Uncommitted' <=> Uncommitted) /\ Recorded \subseteq Recorded'
        /\ Safe'
    BY <1>1, GrowIs
  <1>3. Headed'
    BY <1>1 DEF UpgradeInv, Headed, Running, Restoring
  <1>4. Journalled'
    BY <1>1, <1>2 DEF UpgradeInv, Journalled
  <1>5. LedgerAhead'
    BY <1>1, <1>2 DEF LedgerAhead
  <1>6. Preserved'
    BY <1>2 DEF Preserved
  <1>7. Headway'
    <2>1. job.stage = "post" => Owing("pre") \subseteq Recorded'
      BY <1>2 DEF UpgradeInv, Headway
    <2> QED BY <2>1 DEF Headway, Seeded, Owing, Ending
  <1>8. LedgerRestored'
    BY DEF LedgerRestored, Restoring
  <1> QED BY <1>3, <1>4, <1>5, <1>6, <1>7, <1>8 DEF Rest

\* The ledger records the migrations of the installed version, whose effects are there.
LEMMA SeedKeeps == ASSUME UpgradeInv, Seed PROVE Rest'
  <1> DEFINE old == {m \in Migrations : Stage[m] = job.stage /\ Ver[m] <= job.old}
  <1>1. /\ UNCHANGED <<version, head, lines, blobs>> /\ job.pc = "seed" /\ job \in Jobs /\ job' = Goto("migrate") /\ Typed
        /\ job.old = version /\ vault' = IF old \subseteq Recorded THEN vault ELSE Recording(old)
    BY DEF Seed, UpgradeInv, Typed, Phases
  <1>2. job'.pc = "migrate" /\ job'.old = job.old /\ job'.new = job.new /\ job'.stage = job.stage
    BY <1>1 DEF Goto, Jobs
  <1>3. old = Seeded(job.stage)
    BY DEF Seeded
  <1>4. old \subseteq Migrations
    OBVIOUS
  <1> HIDE DEF old
  <1>5. /\ \A p \in Files : p # Ledger => vault'[p] = vault[p]
        /\ Recorded' = Recorded \union old
    <2>1. CASE old \subseteq Recorded
      BY <1>1, <2>1 DEF Recorded
    <2>2. CASE ~ (old \subseteq Recorded)
      BY <1>1, <1>4, <2>2, RecordingIs DEF Recorded
    <2> QED BY <2>1, <2>2
  <1>6. \A p \in Files : vault[p].migs \subseteq vault'[p].migs
    BY <1>5 DEF Recorded
  <1>7. Behind'
    <2> SUFFICES ASSUME NEW m \in Recorded', NEW p \in Effects[m] PROVE m \in vault'[p].migs
      BY DEF Behind
    <2>1. m \in Migrations
      BY <1>1, <1>4, <1>5, LedgerTyped
    <2>2. p \in Files /\ p # Ledger
      BY <1>1, <2>1, LedgerTyped, Names
    <2>3. CASE m \in Recorded
      <3>1. Behind
        BY <1>1 DEF UpgradeInv, Preserved, Forward, Running
      <3> QED BY <1>5, <2>2, <2>3, <3>1 DEF Behind
    <2>4. CASE m \in old
      <3>1. Ver[m] <= version
        BY <1>1, <2>4 DEF old
      <3>2. VersionWitnesses
        BY DEF UpgradeInv, Preserved, Safe
      <3> QED BY <1>5, <2>1, <2>2, <3>1, <3>2 DEF VersionWitnesses
    <2> QED BY <1>5, <2>3, <2>4
  <1> QED BY <1>1, <1>2, <1>3, <1>5, <1>6, <1>7, GrowKeeps

\* A migration transforms a file that a restore knows the bytes of.
LEMMA MigrateKeeps == ASSUME UpgradeInv, NEW p \in Files, Migrate(p) PROVE Rest'
  <1>1. /\ UNCHANGED <<version, head, lines, blobs>> /\ job.pc = "effects" /\ p \in job.left /\ job \in Jobs /\ Typed
        /\ vault' = [vault EXCEPT ![p] = Bytes(vault[p].edit, vault[p].migs \union job.mig)]
        /\ job' = [job EXCEPT !.left = job.left \ {p}]
    BY DEF Migrate, UpgradeInv, Typed
  <1>2. /\ job'.pc = "effects" /\ job'.old = job.old /\ job'.new = job.new /\ job'.stage = job.stage
        /\ job'.mig = job.mig /\ job'.left = job.left \ {p}
    BY <1>1 DEF Jobs
  <1>3. /\ \A q \in Files : q # p => vault'[q] = vault[q]
        /\ vault'[p].migs = vault[p].migs \union job.mig
    <2>1. Bytes(vault[p].edit, vault[p].migs \union job.mig).migs = vault[p].migs \union job.mig
      BY DEF Bytes
    <2> QED BY <1>1, <2>1 DEF Typed
  <1>4. p \in Paths /\ p # Ledger
    BY <1>1, Names DEF Jobs
  <1>5. \A q \in Files : vault[q].migs \subseteq vault'[q].migs
    BY <1>3
  <1>6. Recorded' = Recorded
    BY <1>3, <1>4, Names DEF Recorded
  <1>7. Behind'
    <2>1. Behind
      BY <1>1 DEF UpgradeInv, Preserved, Forward, Running
    <2> QED BY <1>1, <1>5, <1>6, <2>1, LedgerTyped DEF Behind
  <1>8. Seeded(job.stage) \subseteq Recorded'
    BY <1>1, <1>6 DEF UpgradeInv, Headway
  <1>9. \A m \in job'.mig : job'.left \subseteq Effects[m] /\ \A q \in Effects[m] \ job'.left : m \in vault'[q].migs
    <2> TAKE m \in job'.mig
    <2>1. m \in job.mig /\ m \in Migrations
      BY <1>1, <1>2 DEF Jobs
    <2>2. job.left \subseteq Effects[m] /\ \A q \in Effects[m] \ job.left : m \in vault[q].migs
      BY <1>1, <2>1 DEF UpgradeInv, Headway
    <2>3. \A q \in Effects[m] : q \in Files
      BY <1>1, <2>1, LedgerTyped
    <2>4. ASSUME NEW q \in Effects[m] \ job'.left PROVE m \in vault'[q].migs
      <3>1. CASE q = p
        BY <1>3, <2>1, <3>1
      <3>2. CASE q # p
        BY <1>2, <1>3, <2>2, <2>3, <2>4, <3>2
      <3> QED BY <3>1, <3>2
    <2> QED BY <1>2, <2>2, <2>4
  <1> QED BY <1>1, <1>2, <1>5, <1>7, <1>8, <1>9, GrowKeeps

\* A migration is recorded when all its effects are there.
LEMMA RecordResultKeeps == ASSUME UpgradeInv, RecordResult PROVE Rest'
  <1>1. /\ UNCHANGED <<version, head, lines, blobs>> /\ job.pc = "effects" /\ job.left = {} /\ job \in Jobs /\ Typed
        /\ vault' = Recording(job.mig) /\ job' = Goto("migrate") /\ job.mig \subseteq Migrations
    BY DEF RecordResult, UpgradeInv, Typed, Jobs
  <1>2. job'.pc = "migrate" /\ job'.old = job.old /\ job'.new = job.new /\ job'.stage = job.stage
    BY <1>1 DEF Goto, Jobs
  <1>3. /\ \A p \in Files : p # Ledger => vault'[p] = vault[p]
        /\ Recorded' = Recorded \union job.mig
    BY <1>1, RecordingIs DEF Recorded
  <1>4. \A p \in Files : vault[p].migs \subseteq vault'[p].migs
    BY <1>3 DEF Recorded
  <1>5. Behind'
    <2> SUFFICES ASSUME NEW m \in Recorded', NEW p \in Effects[m] PROVE m \in vault'[p].migs
      BY DEF Behind
    <2>1. m \in Migrations
      BY <1>1, <1>3, LedgerTyped
    <2>2. p \in Files /\ p # Ledger
      BY <1>1, <2>1, LedgerTyped, Names
    <2>3. CASE m \in Recorded
      <3>1. Behind
        BY <1>1 DEF UpgradeInv, Preserved, Forward, Running
      <3> QED BY <1>3, <2>2, <2>3, <3>1 DEF Behind
    <2>4. CASE m \in job.mig
      BY <1>1, <1>3, <2>2, <2>4 DEF UpgradeInv, Headway
    <2> QED BY <1>3, <2>3, <2>4
  <1>6. Seeded(job.stage) \subseteq Recorded'
    BY <1>1, <1>3 DEF UpgradeInv, Headway
  <1> QED BY <1>1, <1>2, <1>4, <1>5, <1>6, GrowKeeps

\* A restore takes back nothing that is installed, and the ledger first.
LEMMA RestoreFileKeeps == ASSUME UpgradeInv, NEW p \in Files, RestoreFile(p) PROVE Rest'
  <1>1. /\ UNCHANGED <<version, head, lines, blobs, faults>> /\ job.pc = "restore" /\ p \in job.plan /\ job \in Jobs /\ Typed
        /\ vault' = [vault EXCEPT ![p] = Wanted(p)] /\ job' = [job EXCEPT !.plan = job.plan \ {p}]
        /\ job.stage = "ledger" => job.plan \subseteq {Ledger}
    BY DEF RestoreFile, UpgradeInv, Typed, Phases
  <1>2. job'.pc = "restore" /\ job'.stage = job.stage /\ job'.plan = job.plan \ {p}
    BY <1>1 DEF Jobs
  <1>3. PICK s0 \in {"pre", "post"} : /\ Wanted(p) = RestoredIn(s0, p)
                                      /\ job.stage = "ledger" => s0 = "pre"
    <2>1. Wanted(p) = RestoredIn(IF job.stage = "ledger" THEN "pre" ELSE job.stage, p)
      BY DEF Wanted
    <2>2. (IF job.stage = "ledger" THEN "pre" ELSE job.stage) \in {"pre", "post"}
      BY <1>1 DEF Jobs
    <2> QED BY <2>1, <2>2
  <1>4. PICK w : w = RestoredIn(s0, p)
    OBVIOUS
  <1>5. vault'[p] = w /\ \A q \in Files : q # p => vault'[q] = vault[q]
    BY <1>1, <1>3, <1>4 DEF Typed
  <1>6. \A s, q : (Captured(s, q)' <=> Captured(s, q)) /\ First(s, q)' = First(s, q)
    BY <1>1, SameLines
  <1>7. \A s \in {"pre", "post"}, q \in Files : /\ Covered(s, q) \/ q # p => RestoredIn(s, q)' = RestoredIn(s, q)
                                                /\ ~ Covered(s, p) => RestoredIn(s, p)' = w
    <2> TAKE s \in {"pre", "post"}, q \in Files
    <2>1. ASSUME NEW r
          PROVE /\ Captured(s, r)' => RestoredIn(s, r)' = First(s, r)'
                /\ ~ Captured(s, r)' /\ Covered(s, r)' => RestoredIn(s, r)' = Absent
                /\ ~ Covered(s, r)' => RestoredIn(s, r)' = vault'[r]
      BY DEF RestoredIn, Covered
    <2>2. \A r : Covered(s, r)' <=> Covered(s, r)
      BY <1>1, SameLines
    <2>3. Captured(s, q) => RestoredIn(s, q)' = RestoredIn(s, q)
      BY <1>6, <2>1, RestoredIs
    <2>4. ~ Captured(s, q) /\ Covered(s, q) => RestoredIn(s, q)' = RestoredIn(s, q)
      BY <1>6, <2>1, <2>2, RestoredIs
    <2>5. ~ Covered(s, q) /\ q # p => RestoredIn(s, q)' = RestoredIn(s, q)
      BY <1>5, <2>1, <2>2, RestoredIs
    <2>6. ~ Covered(s, p) => RestoredIn(s, p)' = w
      BY <1>5, <2>1, <2>2
    <2> QED BY <2>3, <2>4, <2>5, <2>6
  <1>8. Uncommitted /\ Uncommitted'
    <2>1. Uncommitted
      BY <1>1 DEF UpgradeInv, Headed, Restoring
    <2> QED BY <1>1, <2>1 DEF Uncommitted
  <1>9. p = Ledger => w.migs \in {Before, Recorded} /\ (~ Covered("pre", Ledger) => w.migs = Recorded)
                      /\ (s0 = "pre" => w.migs = Before)
    <2> SUFFICES ASSUME p = Ledger
                 PROVE  /\ w.migs \in {Before, Recorded} /\ (~ Covered("pre", Ledger) => w.migs = Recorded)
                        /\ (s0 = "pre" => w.migs = Before)
      OBVIOUS
    <2>1. CASE s0 = "pre"
      BY <1>4, <2>1, RestoredIs DEF Before, Recorded
    <2>2. CASE s0 = "post"
      <3>1. ~ Covered("post", Ledger)
        BY Names DEF UpgradeInv, Journalled, Covered
      <3>2. w = vault[Ledger]
        BY <1>4, <2>2, <3>1, RestoredIs
      <3> QED BY <2>2, <3>2 DEF Recorded
    <2> QED BY <2>1, <2>2
  <1>10. Before' = Before
    <2>1. Before' = RestoredIn("pre", Ledger)'.migs
      BY DEF Before
    <2>2. CASE Covered("pre", Ledger) \/ Ledger # p
      BY <1>7, <2>1, <2>2, Names DEF Before
    <2>3. CASE ~ Covered("pre", Ledger) /\ Ledger = p
      <3>1. RestoredIn("pre", Ledger)' = w
        BY <1>7, <2>3, Names
      <3>2. Before = Recorded
        BY <2>3, RestoredIs DEF Before, Recorded
      <3> QED BY <1>9, <2>1, <2>3, <3>1, <3>2
    <2> QED BY <2>2, <2>3
  <1>11. \A q \in Paths : Base(q)' = Base(q)
    BY <1>1, <1>10 DEF Base
  <1>12. \A q \in Paths : /\ Base(q) \subseteq vault'[q].migs
                          /\ \A s \in {"pre", "post"} : Base(q) \subseteq RestoredIn(s, q)'.migs
    <2> TAKE q \in Paths
    <2>1. /\ Base(q) \subseteq vault[q].migs
          /\ \A s \in {"pre", "post"} : Base(q) \subseteq RestoredIn(s, q).migs
      BY <1>8 DEF UpgradeInv, Preserved, Safe
    <2>2. q \in Files
      BY Names
    <2>3. Base(q) \subseteq vault'[q].migs
      BY <1>4, <1>5, <2>1, <2>2
    <2>4. ASSUME NEW s \in {"pre", "post"} PROVE Base(q) \subseteq RestoredIn(s, q)'.migs
      <3>1. CASE Covered(s, q) \/ q # p
        BY <1>7, <2>1, <2>2, <3>1
      <3>2. CASE ~ Covered(s, q) /\ q = p
        BY <1>4, <1>7, <2>1, <2>2, <3>2
      <3> QED BY <3>1, <3>2
    <2> QED BY <2>3, <2>4
  <1>13. VersionWitnesses'
    <2>1. \A m \in Migrations : Ver[m] <= version => \A q \in Effects[m] : q \in Paths /\ m \in Base(q)
      BY <1>1, LedgerTyped DEF Base
    <2> QED BY <1>1, <1>12, <2>1 DEF VersionWitnesses
  <1>14. Recorded' = Before \/ faults > 0
    <2> SUFFICES ASSUME ~ (faults > 0) PROVE Recorded' = Before
      OBVIOUS
    <2>1. CASE p = Ledger /\ job.stage = "ledger"
      BY <1>3, <1>5, <1>9, <2>1 DEF Recorded
    <2>2. CASE job.stage # "ledger"
      <3>1. Recorded = Before
        BY <1>1, <2>2 DEF UpgradeInv, LedgerRestored, Restoring
      <3>2. CASE p = Ledger
        BY <1>5, <1>9, <3>1, <3>2 DEF Recorded
      <3>3. CASE p # Ledger
        BY <1>5, <3>1, <3>3, Names DEF Recorded
      <3> QED BY <3>2, <3>3
    <2> QED BY <1>1, <2>1, <2>2
  <1>15. LedgerBehindContent'
    <2>1. CASE faults > 0
      BY <1>1, <1>8, <2>1 DEF LedgerBehindContent
    <2>2. CASE Recorded' = Before
      <3>1. \A m \in Before : \A q \in Effects[m] : q \in Paths /\ m \in Base(q)
        BY <1>1, LedgerTyped DEF Base
      <3>2. \A m \in Recorded' : \A q \in Effects[m] : m \in vault'[q].migs
        BY <1>12, <2>2, <3>1
      <3> QED BY <3>2 DEF LedgerBehindContent
    <2> QED BY <1>14, <2>1, <2>2
  <1>16. Safe'
    BY <1>8, <1>11, <1>12, <1>13, <1>15 DEF Safe
  <1>17. Headed'
    BY <1>2, <1>8 DEF Headed, Running, Restoring
  <1>18. Journalled'
    BY <1>1, <1>2, <1>6 DEF UpgradeInv, Journalled, Running
  <1>19. LedgerAhead' /\ Headway'
    BY <1>2 DEF LedgerAhead, Headway, Ending
  <1>20. Preserved'
    BY <1>2, <1>16 DEF Preserved, Forward, Running, Ending
  <1>21. LedgerRestored'
    BY <1>1, <1>2, <1>10, <1>14 DEF LedgerRestored
  <1> QED BY <1>17, <1>18, <1>19, <1>20, <1>21 DEF Rest

\* The line that is written next.
LEMMA LineIs ==
    ASSUME UpgradeInv, WriteLine, job.todo # <<>>
    PROVE  \E l \in Entries :
             /\ lines' = Append(lines, l) /\ l = job.todo[1] /\ l.stage = job.stage
             /\ l.path = Ledger => l.stage = "pre"
             /\ l.path \in Files => l.was.migs = vault[l.path].migs
             /\ l.was.exists => l.was \in blobs
             /\ l.path = Root => /\ l.was = Absent
                                 /\ \A p \in Paths : vault[p].migs = {} \/ Captured(l.stage, p)
  <1>1. job.pc = "lines" /\ lines' = Append(lines, Head(job.todo)) /\ job \in Jobs
    BY DEF WriteLine, UpgradeInv, Typed
  <1>2. job.todo \in Seq(Entries)
    BY <1>1 DEF Jobs
  <1>3. Head(job.todo) = job.todo[1] /\ job.todo[1] \in Entries /\ 1 \in 1 .. Len(job.todo) /\ Len(job.todo) \in Nat
    BY ONLY <1>2, job.todo # <<>>
  <1>4. PICK l : l = job.todo[1]
    OBVIOUS
  <1>6. Owed(1)
    BY <1>1, <1>3 DEF UpgradeInv, Journalled
  <1>7. /\ l.stage = job.stage
        /\ l.path = Ledger => job.stage = "pre"
        /\ l.path \in Files => l.was.migs = vault[l.path].migs
        /\ l.path = Root =>
                    /\ l.was = Absent /\ 1 = Len(job.todo)
                    /\ \A p \in Paths : \/ vault[p].migs = {} \/ Captured(job.stage, p)
                                        \/ \E j \in 1 .. Len(job.todo) : job.todo[j].path = p
        /\ l.was.exists => l.was \in blobs
    BY <1>1, <1>4, <1>6 DEF Owed
  <1>8. l.path = Root => \A p \in Paths : vault[p].migs = {} \/ Captured(job.stage, p)
    <2> SUFFICES ASSUME l.path = Root, NEW p \in Paths, NEW j \in 1 .. Len(job.todo), job.todo[j].path = p
                 PROVE  FALSE
      BY <1>7
    <2>1. j = 1
      BY <1>3, <1>7
    <2> QED BY <1>4, <2>1, Names
  <1> QED BY <1>1, <1>3, <1>4, <1>7, <1>8

\* Writing it does not change what a restore leaves recorded, and takes nothing back.
LEMMA LineIsSafe ==
    ASSUME UpgradeInv, NEW l \in Entries, lines' = Append(lines, l), UNCHANGED <<version, head, vault, faults>>,
           l.path = Ledger => l.stage = "pre",
           l.path \in Files => l.was.migs = vault[l.path].migs,
           l.path = Root => \A p \in Paths : vault[p].migs = {} \/ Captured(l.stage, p)
    PROVE  Before' = Before /\ Safe'
  <1>0. Typed /\ l \in Entries \union {Torn}
    BY DEF UpgradeInv
  <1>1. ASSUME NEW s, NEW p
        PROVE  /\ Captured(s, p)' <=> Captured(s, p) \/ (l.stage = s /\ l.path = p)
               /\ Captured(s, p) => First(s, p)' = First(s, p)
               /\ ~ Captured(s, p) /\ l.stage = s /\ l.path = p => First(s, p)' = l.was
               /\ Captured(s, p)' => RestoredIn(s, p)' = First(s, p)'
               /\ ~ Captured(s, p)' /\ p \in Paths /\ Captured(s, Root)' => RestoredIn(s, p)' = Absent
               /\ ~ Captured(s, p)' /\ ~ (p \in Paths /\ Captured(s, Root)') => RestoredIn(s, p)' = vault[p]
    <2>1. /\ Captured(s, p)' <=> Captured(s, p) \/ (l.stage = s /\ l.path = p)
          /\ Captured(s, p) => First(s, p)' = First(s, p)
          /\ ~ Captured(s, p) /\ l.stage = s /\ l.path = p => First(s, p)' = l.was
      BY <1>0, AppendCaptures
    <2>2. /\ Captured(s, p)' => RestoredIn(s, p)' = First(s, p)'
          /\ ~ Captured(s, p)' /\ p \in Paths /\ Captured(s, Root)' => RestoredIn(s, p)' = Absent
          /\ ~ Captured(s, p)' /\ ~ (p \in Paths /\ Captured(s, Root)') => RestoredIn(s, p)' = vault'[p]
      BY DEF RestoredIn
    <2> QED BY <2>1, <2>2
  <1>2. Before' = Before
    <2>1. Before = RestoredIn("pre", Ledger).migs /\ Before' = RestoredIn("pre", Ledger)'.migs /\ Ledger \notin Paths
      BY Names DEF Before
    <2>2. CASE Captured("pre", Ledger)
      BY <1>1, <2>1, <2>2, RestoredIs
    <2>3. CASE ~ Captured("pre", Ledger) /\ l.stage = "pre" /\ l.path = Ledger
      <3>1. RestoredIn("pre", Ledger)' = l.was
        BY <1>1, <2>3
      <3>2. RestoredIn("pre", Ledger) = vault[Ledger]
        BY <2>1, <2>3, RestoredIs DEF Covered
      <3> QED BY <2>1, <2>3, <3>1, <3>2, Names
    <2>4. CASE ~ Captured("pre", Ledger) /\ ~ (l.stage = "pre" /\ l.path = Ledger)
      <3>1. RestoredIn("pre", Ledger)' = vault[Ledger]
        BY <1>1, <2>1, <2>4
      <3>2. RestoredIn("pre", Ledger) = vault[Ledger]
        BY <2>1, <2>4, RestoredIs DEF Covered
      <3> QED BY <2>1, <3>1, <3>2
    <2> QED BY <2>2, <2>3, <2>4
  <1>3. ASSUME Uncommitted, NEW p \in Paths, NEW s \in {"pre", "post"}
        PROVE  Base(p) \subseteq RestoredIn(s, p)'.migs
    <2>1. Base(p) \subseteq vault[p].migs /\ Base(p) \subseteq RestoredIn(s, p).migs
      BY <1>3 DEF UpgradeInv, Preserved, Safe
    <2>2. CASE Captured(s, p)
      BY <1>1, <2>1, <2>2, RestoredIs
    <2>3. CASE ~ Captured(s, p) /\ l.stage = s /\ l.path = p
      <3>1. RestoredIn(s, p)' = l.was
        BY <1>1, <2>3
      <3> QED BY <2>1, <2>3, <3>1, Names
    <2>4. CASE ~ Captured(s, p) /\ ~ (l.stage = s /\ l.path = p) /\ Captured(s, Root)
      <3>1. RestoredIn(s, p)' = Absent
        BY <1>1, <2>4
      <3>2. RestoredIn(s, p) = Absent
        BY <2>4, RestoredIs DEF Covered
      <3> QED BY <2>1, <3>1, <3>2
    <2>5. CASE ~ Captured(s, p) /\ ~ (l.stage = s /\ l.path = p) /\ ~ Captured(s, Root) /\ l.stage = s /\ l.path = Root
      <3>1. vault[p].migs = {}
        BY <2>5
      <3> QED BY <2>1, <3>1
    <2>6. CASE ~ Captured(s, p) /\ ~ (l.stage = s /\ l.path = p) /\ ~ Captured(s, Root) /\ ~ (l.stage = s /\ l.path = Root)
      <3>1. RestoredIn(s, p)' = vault[p]
        BY <1>1, <2>6
      <3> QED BY <2>1, <3>1
    <2> QED BY <2>2, <2>3, <2>4, <2>5, <2>6
  <1>4. Safe'
    <2>1. VersionWitnesses' /\ LedgerBehindContent'
      <3>1. VersionWitnesses /\ LedgerBehindContent
        BY DEF UpgradeInv, Preserved, Safe
      <3> QED BY <3>1 DEF VersionWitnesses, LedgerBehindContent, Recorded, Uncommitted
    <2>2. \A p \in Paths : Base(p)' = Base(p)
      BY <1>2 DEF Base
    <2>3. Uncommitted => \A p \in Paths : Base(p) \subseteq vault[p].migs
      BY DEF UpgradeInv, Preserved, Safe
    <2>4. Uncommitted' <=> Uncommitted
      BY DEF Uncommitted
    <2> QED BY <1>3, <2>1, <2>2, <2>3, <2>4 DEF Safe
  <1> QED BY <1>2, <1>4

\* A new line has the file as it is: no restore goes back behind what VERSION vouches for.
LEMMA WriteLineKeeps == ASSUME UpgradeInv, WriteLine PROVE Rest'
  <1>1. /\ UNCHANGED <<version, core, vault, head, blobs, faults>> /\ job.pc = "lines" /\ job \in Jobs /\ Typed
        /\ job.then = "effects" \/ (job.then = "seed" /\ job.stage = "pre")
    BY DEF WriteLine, UpgradeInv, Typed, Phases
  <1>2. CASE job.todo = <<>>
    <2>1. lines' = lines /\ job' = Goto(job.then)
      BY <1>2 DEF WriteLine
    <2>2. /\ job'.pc = job.then /\ job'.old = job.old /\ job'.new = job.new /\ job'.stage = job.stage
          /\ job'.mig = job.mig /\ job'.left = job.left
      BY <1>1, <2>1 DEF Goto, Jobs
    <2>3. SameDisk
      BY <1>1, <2>1, QuietIs DEF UpgradeInv, Preserved
    <2>4. Headed'
      BY <1>1, <2>2 DEF UpgradeInv, Headed, Running, Restoring
    <2>5. Journalled'
      BY <1>1, <2>1, <2>2, <2>3, JournalStays DEF Running
    <2>6. LedgerAhead'
      <3>1. Len(job.todo) = 0
        BY <1>2
      <3>2. Captured("pre", Ledger)
        BY <1>1, <3>1 DEF UpgradeInv, LedgerAhead
      <3> QED BY <2>3, <3>2 DEF LedgerAhead, SameDisk
    <2>7. Preserved'
      BY <1>1, <2>2, <2>3 DEF UpgradeInv, Preserved, Forward, SameDisk, Running
    <2>8. Headway'
      BY <1>1, <2>2, <2>3 DEF UpgradeInv, Headway, SameDisk, Seeded, Owing, Ending
    <2>9. LedgerRestored'
      BY <1>1, <2>2 DEF LedgerRestored, Restoring
    <2> QED BY <2>4, <2>5, <2>6, <2>7, <2>8, <2>9 DEF Rest
  <1>3. CASE job.todo # <<>>
    <2>1. PICK l \in Entries :
             /\ lines' = Append(lines, l) /\ l = job.todo[1] /\ l.stage = job.stage
             /\ l.path = Ledger => l.stage = "pre"
             /\ l.path \in Files => l.was.migs = vault[l.path].migs
             /\ l.was.exists => l.was \in blobs
             /\ l.path = Root => /\ l.was = Absent
                                 /\ \A p \in Paths : vault[p].migs = {} \/ Captured(l.stage, p)
      BY <1>3, LineIs
    <2>2. job' = [job EXCEPT !.todo = Tail(job.todo)]
      BY <1>3 DEF WriteLine
    <2>3. /\ job'.pc = "lines" /\ job'.old = job.old /\ job'.new = job.new /\ job'.stage = job.stage
          /\ job'.then = job.then /\ job'.mig = job.mig /\ job'.left = job.left /\ job'.todo = Tail(job.todo)
      BY <1>1, <2>2 DEF Jobs
    <2>4. Before' = Before /\ Safe'
      BY <1>1, <2>1, LineIsSafe
    <2>5. /\ Len(lines) \in Nat /\ Len(lines') = Len(lines) + 1 /\ lines'[Len(lines) + 1] = l
          /\ \A i \in 1 .. Len(lines) : lines'[i] = lines[i]
      BY <1>1, <2>1, AppendIs
    <2>6. \A s, p : Captured(s, p)' <=> Captured(s, p) \/ (l.stage = s /\ l.path = p)
      BY <1>1, <2>1, AppendCaptures
    <2>7. PICK n \in Nat : Len(job.todo) = n + 1
      <3>1. job.todo \in Seq(Entries)
        BY <1>1 DEF Jobs
      <3>2. Len(job.todo) \in Nat /\ Len(job.todo) # 0
        BY ONLY <1>3, <3>1
      <3>3. Len(job.todo) - 1 \in Nat /\ Len(job.todo) = (Len(job.todo) - 1) + 1
        BY ONLY <3>2
      <3> QED BY <3>3
    <2>8. Len(job'.todo) = n /\ \A i \in 1 .. n : job'.todo[i] = job.todo[i + 1]
      <3>1. job.todo \in Seq(Entries)
        BY <1>1 DEF Jobs
      <3> QED BY ONLY <1>3, <2>3, <2>7, <3>1
    <2>9. \A p : (\E j \in 1 .. Len(job.todo) : job.todo[j].path = p) =>
                    l.path = p \/ \E j \in 1 .. n : job'.todo[j].path = p
      <3> SUFFICES ASSUME NEW j \in 1 .. Len(job.todo), l.path # job.todo[j].path
                   PROVE  \E k \in 1 .. n : job'.todo[k].path = job.todo[j].path
        OBVIOUS
      <3>1. j # 1
        BY <2>1
      <3>2. j - 1 \in 1 .. n /\ (j - 1) + 1 = j
        BY <2>7, <3>1
      <3> QED BY <2>8, <3>2
    <2>10. \A i \in 1 .. n : Owed(i)'
      <3> TAKE i \in 1 .. n
      <3>1. i + 1 \in 1 .. Len(job.todo)
        BY <2>7
      <3>2. Owed(i + 1)
        BY <1>1, <3>1 DEF UpgradeInv, Journalled
      <3>3. PICK line : line = job.todo[i + 1]
        OBVIOUS
      <3>4. job'.todo[i] = line
        BY <2>8, <3>3
      <3>5. /\ line.stage = job.stage
            /\ line.path = Ledger => job.stage = "pre"
            /\ line.path \in Files => line.was.migs = vault[line.path].migs
            /\ line.path = Root =>
                  /\ line.was = Absent /\ i + 1 = n + 1
                  /\ \A p \in Paths : \/ vault[p].migs = {} \/ Captured(job.stage, p)
                                      \/ \E j \in 1 .. Len(job.todo) : job.todo[j].path = p
            /\ line.was.exists => line.was \in blobs
        BY <1>1, <2>7, <3>2, <3>3 DEF Owed
      <3>6. i + 1 = n + 1 => i = n
        BY <2>7
      <3>7. line.path = Root => \A p \in Paths : \/ vault[p].migs = {} \/ Captured(job.stage, p)'
                                                 \/ \E j \in 1 .. n : job'.todo[j].path = p
        <4>1. \A p : Captured(job.stage, p)' <=> Captured(job.stage, p) \/ l.path = p
          <5>1. PICK s : s = job.stage /\ s = job'.stage
            BY <2>3
          <5>2. \A p : Captured(s, p)' <=> Captured(s, p) \/ l.path = p
            BY <2>1, <2>6, <5>1
          <5>3. \A p : Captured(job.stage, p)' <=> Captured(s, p)'
            BY <5>1 DEF Captured
          <5> QED BY <5>1, <5>2, <5>3
        <4> QED BY <2>9, <3>5, <4>1
      <3> QED BY <1>1, <2>3, <2>8, <3>4, <3>5, <3>6, <3>7 DEF Owed
    <2>11. Journalled'
      <3>1. \A i \in 1 .. Len(lines') : i = Len(lines) + 1 \/ i \in 1 .. Len(lines)
        BY <2>5
      <3>2. \A i \in 1 .. Len(lines') : lines'[i] # Torn
        <4>1. \A i \in 1 .. Len(lines) : lines[i] # Torn
          BY <1>1 DEF UpgradeInv, Journalled, Running
        <4>2. l # Torn
          BY Names
        <4> QED BY <2>5, <3>1, <4>1, <4>2
      <3>3. head # NoHead => \A i \in 1 .. Len(lines') : lines'[i].was.exists => lines'[i].was \in blobs
        <4>1. head # NoHead => \A i \in 1 .. Len(lines) : lines[i].was.exists => lines[i].was \in blobs
          BY DEF UpgradeInv, Journalled
        <4> QED BY <2>1, <2>5, <3>1, <4>1
      <3>4. ~ Captured("post", Ledger)'
        <4>1. ~ Captured("post", Ledger)
          BY DEF UpgradeInv, Journalled
        <4> QED BY <2>1, <2>6, <4>1
      <3> QED BY <1>1, <2>3, <2>8, <2>10, <3>2, <3>3, <3>4 DEF Journalled
    <2>12. LedgerAhead'
      <3>1. Captured("pre", Ledger)' <=> Captured("pre", Ledger) \/ (l.stage = "pre" /\ l.path = Ledger)
        BY <2>6
      <3>2. job.then = "seed" => Captured("pre", Ledger) \/ \E j \in 1 .. Len(job.todo) : job.todo[j].path = Ledger
        BY <1>1 DEF UpgradeInv, LedgerAhead
      <3>3. job.then = "seed" => Captured("pre", Ledger)' \/ \E j \in 1 .. n : job'.todo[j].path = Ledger
        BY <2>1, <2>9, <3>1, <3>2
      <3>4. job.then = "effects" => Captured("pre", Ledger)'
        BY <1>1, <3>1 DEF UpgradeInv, LedgerAhead
      <3> QED BY <2>3, <2>8, <3>3, <3>4 DEF LedgerAhead
    <2>13. Headed'
      BY <1>1, <2>3 DEF UpgradeInv, Headed, Running, Restoring
    <2>14. Preserved'
      <3>1. Behind
        BY <1>1 DEF UpgradeInv, Preserved, Forward, Running
      <3>2. Behind'
        BY <1>1, <3>1 DEF Behind, Recorded
      <3> QED BY <2>4, <3>2 DEF Preserved
    <2>15. Headway'
      BY <1>1, <2>3 DEF UpgradeInv, Headway, Recorded, Seeded, Owing, Ending
    <2>16. LedgerRestored'
      BY <2>3 DEF LedgerRestored, Restoring
    <2> QED BY <2>11, <2>12, <2>13, <2>14, <2>15, <2>16 DEF Rest
  <1> QED BY <1>2, <1>3

----------------------------------------------------------------------------
(* The invariant, and what follows from it.                                  *)

\* At first there is no journal, and the content is that of the installed version.
LEMMA UpgradeInitInv == UpgradeInit => UpgradeInv /\ EditInv
  <1> SUFFICES ASSUME UpgradeInit PROVE UpgradeInv /\ EditInv
    OBVIOUS
  <1>1. PICK v \in Versions, there \in SUBSET Paths :
          /\ version = v /\ core = [f \in CoreFiles |-> v]
          /\ vault = [p \in Files |->
               LET ms == {m \in Migrations : Ver[m] <= v /\ p \in Effects[m]}
               IN IF ms # {} \/ p \in there THEN Bytes(0, ms) ELSE Absent]
    BY DEF UpgradeInit
  <1>2. /\ head = NoHead /\ lines = <<>> /\ blobs = {} /\ kept = {}
        /\ job = NoRun /\ job.pc = "idle" /\ edited = <<>> /\ kills = 0 /\ faults = 0
    BY NoRunIs DEF UpgradeInit
  <1> DEFINE Ms(p) == {m \in Migrations : Ver[m] <= v /\ p \in Effects[m]}
  <1>3. ASSUME NEW p \in Files PROVE vault[p] \in Held /\ vault[p].migs = Ms(p)
    <2>1. vault[p] = IF Ms(p) # {} \/ p \in there THEN Bytes(0, Ms(p)) ELSE Absent
      BY <1>1
    <2>2. Ms(p) \in SUBSET Migrations /\ 0 \in 0 .. MaxEdits
      BY UpgradeAssumption
    <2>3. PICK ms, z : ms = Ms(p) /\ z = 0
      OBVIOUS
    <2>4. Bytes(z, ms) \in Held /\ Bytes(z, ms).migs = ms
      BY <2>2, <2>3, FileValues
    <2> QED BY <2>1, <2>3, <2>4, Names
  <1>4. vault \in [Files -> Held]
    BY <1>1, <1>3
  <1>5. Typed
    <2>1. kills \in 0 .. MaxKills /\ faults \in 0 .. MaxFaults /\ Len(edited) <= MaxEdits
      BY <1>2, UpgradeAssumption
    <2>2. lines \in Seq(Entries \union {Torn})
      BY <1>2
    <2>3. edited \in Seq([path : Paths, raced : BOOLEAN])
      BY <1>2
    <2> QED BY <1>1, <1>2, <1>4, <2>1, <2>2, <2>3, NoRunIs DEF Typed
  <1>6. Phases
    BY <1>2 DEF Phases, Running, Ending, Restoring
  <1>7. ~ Uncommitted
    BY <1>2 DEF Uncommitted
  <1>8. Recorded = {}
    <2>1. \A m \in Migrations : Ledger \notin Effects[m]
      BY Names
    <2> QED BY <1>3, <2>1, Names DEF Recorded
  <1>9. Safe
    <2>1. VersionWitnesses
      <3>1. \A m \in Migrations : \A p \in Effects[m] : p \in Files
        BY <1>5, LedgerTyped
      <3> QED BY <1>1, <1>3, <3>1 DEF VersionWitnesses
    <2>2. LedgerBehindContent
      BY <1>8 DEF LedgerBehindContent
    <2> QED BY <1>7, <2>1, <2>2 DEF Safe
  <1>10. Journalled
    <2>1. Len(lines) = 0
      BY <1>2
    <2> QED BY <1>2, <2>1 DEF Journalled, Captured
  <1>11. Headed /\ LedgerAhead /\ Preserved /\ Headway /\ LedgerRestored
    BY <1>2, <1>9 DEF Headed, LedgerAhead, Preserved, Headway, LedgerRestored, Forward, Running, Ending, Restoring
  <1>12. EditInv
    <2>1. Len(edited) = 0
      BY <1>2
    <2> QED BY <1>2, <2>1 DEF EditInv, NoEditLost, Saved
  <1> QED BY <1>5, <1>6, <1>10, <1>11, <1>12 DEF UpgradeInv

\* Every step of the run, of a restore, of the user and of what goes wrong keeps the invariant.
LEMMA UpgradeNextInv == UpgradeInv /\ [UpgradeNext]_upgradeVars => UpgradeInv'
  <1> SUFFICES ASSUME UpgradeInv, [UpgradeNext]_upgradeVars PROVE UpgradeInv'
    OBVIOUS
  <1>1. ASSUME Typed' /\ Phases', Rest' PROVE UpgradeInv'
    BY <1>1 DEF UpgradeInv, Rest
  <1>2. ASSUME NEW w \in Versions, NEW force \in BOOLEAN, Start(w, force) PROVE UpgradeInv'
    BY <1>1, <1>2, StartKeeps, OtherTyped
  <1>3. CASE Recover
    BY <1>1, <1>3, RecoverKeeps, RunTyped
  <1>4. CASE Guard
    BY <1>1, <1>4, GuardKeeps, WriteTyped
  <1>5. CASE Open
    BY <1>1, <1>5, OpenKeeps, WriteTyped
  <1>6. CASE Copied
    BY <1>1, <1>6, CopiedKeeps, CaptureTyped
  <1>7. CASE WriteBlob
    BY <1>1, <1>7, WriteBlobKeeps, WriteTyped
  <1>8. CASE WriteLine
    BY <1>1, <1>8, WriteLineKeeps, WriteTyped
  <1>9. CASE Seed
    BY <1>1, <1>9, SeedKeeps, WriteTyped
  <1>10. CASE RecordResult
    BY <1>1, <1>10, RecordResultKeeps, WriteTyped
  <1>11. CASE EndStage
    BY <1>1, <1>11, EndStageKeeps, RunTyped
  <1>12. CASE Cutover
    BY <1>1, <1>12, CutoverKeeps, RunTyped
  <1>13. CASE Discard
    BY <1>1, <1>13, DiscardKeeps, WriteTyped
  <1>14. CASE Sweep
    BY <1>1, <1>14, SweepKeeps, WriteTyped
  <1>15. CASE WriteVersion
    BY <1>1, <1>15, WriteVersionKeeps, WriteTyped
  <1>16. CASE PlanRestore
    BY <1>1, <1>16, PlanRestoreKeeps, WriteTyped
  <1>17. CASE Verify
    BY <1>1, <1>17, VerifyKeeps, OtherTyped
  <1>18. CASE EndRollback
    BY <1>1, <1>18, EndRollbackKeeps, RunTyped
  <1>19. ASSUME NEW f \in CoreFiles, Copy(f) \/ RestoreCore(f) PROVE UpgradeInv'
    BY <1>1, <1>19, CoreKeeps, FileTyped
  <1>20. ASSUME NEW m \in Migrations, Prepare(m) PROVE UpgradeInv'
    BY <1>1, <1>20, PrepareKeeps, CaptureTyped
  <1>21. ASSUME NEW p \in Files, Migrate(p) PROVE UpgradeInv'
    BY <1>1, <1>21, MigrateKeeps, FileTyped
  <1>22. ASSUME NEW p \in Files, RestoreFile(p) PROVE UpgradeInv'
    BY <1>1, <1>22, RestoreFileKeeps, FileTyped
  <1>23. ASSUME NEW p \in Files, RestoreFails(p) PROVE UpgradeInv'
    BY <1>1, <1>23, RestoreFailsKeeps, FileTyped
  <1>24. CASE Refuse
    BY <1>1, <1>24, RefuseKeeps, RunTyped
  <1>25. CASE DiscardFails
    BY <1>1, <1>25, DiscardFailsKeeps, RunTyped
  <1>26. CASE VersionFails
    <2>1. UNCHANGED disk /\ Counted /\ job'.pc = "idle"
      BY <1>26, NoRunIs DEF VersionFails, Counted
    <2> QED BY <1>1, <1>26, <2>1, LeaveKeeps, RunTyped
  <1>27. CASE Fail
    BY <1>1, <1>27, FailKeeps, RunTyped
  <1>28. CASE Kill
    BY <1>1, <1>28, KillKeeps, OtherTyped
  <1>29. ASSUME NEW p \in Paths, Edit(p) PROVE UpgradeInv'
    BY <1>1, <1>29, EditKeeps, FileTyped
  <1>30. CASE UNCHANGED upgradeVars
    <2>1. UNCHANGED <<version, core, vault, head, lines, blobs, kept, job, edited, kills, faults>>
      BY <1>30 DEF upgradeVars
    <2>2. Typed' /\ Phases'
      BY <2>1 DEF UpgradeInv, Typed, Phases
    <2>3. Rest'
      BY <2>1, CalmKeeps DEF Counted
    <2> QED BY <1>1, <2>2, <2>3
  <1> QED
    BY <1>2, <1>3, <1>4, <1>5, <1>6, <1>7, <1>8, <1>9, <1>10, <1>11, <1>12, <1>13, <1>14, <1>15, <1>16,
       <1>17, <1>18, <1>19, <1>20, <1>21, <1>22, <1>23, <1>24, <1>25, <1>26, <1>27, <1>28, <1>29, <1>30
    DEF UpgradeNext, Step

-----------------------------------------------------------------------------
(* The theorems.                                                             *)

\* What the invariant says of a journal that a run meets.
LEMMA InvImpliesSound == UpgradeInv => JournalSound
<1> SUFFICES ASSUME UpgradeInv PROVE JournalSound
    OBVIOUS
<1>1. Typed /\ Journalled /\ Safe
    BY DEF UpgradeInv, Preserved
<1>2. UpgradeTypeOK
    <2>1. version \in Versions /\ core \in [CoreFiles -> Versions]
        BY <1>1 DEF Typed
    <2>2. ASSUME NEW p \in Files
          PROVE  vault[p] = Absent \/ vault[p] \in [edit : 0 .. MaxEdits, migs : SUBSET Migrations, exists : {TRUE}]
        BY <1>1 DEF Typed, Held
    <2>3. head = NoHead \/ head \in Versions \X Versions
        BY <1>1 DEF Typed
    <2>4. ASSUME NEW i \in 1 .. Len(lines)
          PROVE  lines[i].stage \in {"pre", "post", "torn"} /\ lines[i].path \in Files \union {Root}
        <3>1. lines[i] \in Entries \/ lines[i] = Torn
            BY <1>1 DEF Typed
        <3> QED BY <3>1 DEF Entries, Torn
    <2>5. /\ \A b \in blobs : b.exists
          /\ kills \in 0 .. MaxKills /\ faults \in 0 .. MaxFaults /\ Len(edited) <= MaxEdits
        BY <1>1 DEF Typed
    <2> QED BY <2>1, <2>2, <2>3, <2>4, <2>5 DEF UpgradeTypeOK
<1>3. JournalReadable
    <2> SUFFICES ASSUME head # NoHead, NEW i \in WholeLines
                 PROVE  lines[i] # Torn /\ (lines[i].was.exists => lines[i].was \in blobs)
        BY DEF JournalReadable, Readable
    <2>1. i \in 1 .. Len(lines) /\ (i < Len(lines) \/ lines[i] # Torn)
        BY DEF WholeLines
    <2>2. lines[i] = Torn => i = Len(lines)
        BY <1>1, <2>1 DEF Journalled
    <2>3. lines[i].was.exists => lines[i].was \in blobs
        BY <1>1, <2>1 DEF Journalled
    <2>4. Len(lines) \in Nat
        BY <1>1 DEF Typed
    <2> QED BY <2>1, <2>2, <2>3, <2>4
<1>4. VersionWitnesses /\ LedgerBehindContent
    BY <1>1 DEF Safe
<1> QED BY <1>2, <1>3, <1>4 DEF JournalSound

\* The invariant, of every run of the system.
LEMMA UpgradeInvHolds == UpgradeSpec => [](UpgradeInv /\ EditInv)
<1>1. UpgradeInit => UpgradeInv /\ EditInv
    BY UpgradeInitInv
<1>2. (UpgradeInv /\ EditInv) /\ [UpgradeNext]_upgradeVars => (UpgradeInv /\ EditInv)'
    BY UpgradeNextInv, StepKeepsEdits
<1> QED BY <1>1, <1>2, PTL DEF UpgradeSpec

\* However often an upgrade is killed, fails or is restored, and whichever order the
\* migrations come in: a journal that is there can be read, no leftover journal takes back
\* what VERSION vouches for, and the ledger claims no migration whose effects are missing,
\* except while a failure to restore it is being reported (_recover_leftover_journal,
\* restore_journal, _commit).
THEOREM JournalIsSound == UpgradeSpec => []JournalSound
<1>1. UpgradeInv /\ EditInv => JournalSound
    BY InvImpliesSound
<1> QED BY <1>1, UpgradeInvHolds, PTL

\* No restore, of a failed run or of a killed one, destroys an edit the user made since the
\* journal was written: the last bytes of every edited file are in it or in the recovery
\* store (RecoveryStore, restore_snapshots).
THEOREM EditsSurvive == UpgradeSpec => []NoEditLost
<1>1. UpgradeInv /\ EditInv => NoEditLost
    BY DEF EditInv
<1> QED BY <1>1, UpgradeInvHolds, PTL

-----------------------------------------------------------------------------
(* All or nothing.                                                           *)

Staged == job.pc \in {"blobs", "lines", "seed", "migrate", "effects"}
Chosen == job.pc = "effects" \/ (job.pc \in {"blobs", "lines"} /\ job.then = "effects")
Planned(p) == job.pc \in {"blobs", "lines"} /\ \E i \in 1 .. Len(job.todo) : job.todo[i].path = p
\* The migration that is next is the first that is due, and what it may change is captured.
Due ==
    Chosen => \E m \in Pending :
        /\ job.mig = {m} /\ \A n \in Pending : Ver[m] <= Ver[n]
        /\ m \in Declared => \A p \in job.left : Captured(job.stage, p) \/ Planned(p)
        /\ m \notin Declared => Captured(job.stage, Root) \/ Planned(Root)

\* A path that a migration has created after the listing of its root.
Unlisted(p) == Captured(job.stage, Root) /\ ~ Captured(job.stage, p) /\ vault[p].migs # {}
Listed ==
    /\ Staged => \A p \in Paths : Unlisted(p) => \A d \in Pending \cap Declared : p \notin Effects[d]
    /\ job.pc \in {"blobs", "lines"} =>
          \A i \in 1 .. Len(job.todo) : job.todo[i].path \in Paths => ~ Unlisted(job.todo[i].path)
\* The stages come one after the other.
FirstStage == Staged /\ job.stage = "pre" => \A p \in Files \union {Root} : ~ Captured("post", p)

\* The run goes forward in versions.
Newer == job.pc = "open" \/ Forward =>
            version <= job.new /\ \A m \in Recorded : Ver[m] <= job.new

Doing == IF job.pc = "effects" THEN job.mig ELSE {}
\* The migrations of these, and of the installed version, that change p.
Installed(ms, p) == {m \in Migrations : (m \in ms \/ Ver[m] <= version) /\ p \in Effects[m]}
\* Nothing else is in the files, nor in what a restore makes of them.
Exact ==
    /\ Uncommitted => \A p \in Paths : Original(p).migs \subseteq Base(p)
    /\ ~ Uncommitted \/ Forward => \A p \in Paths : vault[p].migs \subseteq Installed(Recorded \union Doing, p)
    /\ Forward /\ Uncommitted =>
          /\ Before \subseteq Recorded
          /\ Recorded \subseteq Before \union {m \in Migrations : Ver[m] <= job.new}

\* How far a restore is, file by file.
Undone ==
    /\ (job.pc \in Restoring /\ job.stage = "pre") \/ job.pc = "core" => \A p \in Files :
          p \in job.failed \/ Covered("pre", p) \/ vault[p].migs = RestoredIn("post", p).migs
    /\ job.pc = "core" => \A p \in Files : p \in job.failed \/ vault[p].migs = Original(p).migs
    /\ job.pc = "discard" /\ job.then # "version" /\ Uncommitted =>
          \A p \in Files : vault[p].migs = Original(p).migs

ExactInv == Due /\ Listed /\ FirstStage /\ Newer /\ Exact /\ Undone

-----------------------------------------------------------------------------
(* Steps that leave what a restore makes of the files alone.                 *)

\* As long as the run may be rolled back, its journal counts.
LEMMA RunIsUncommitted == ASSUME UpgradeInv, job.pc \in Running PROVE Uncommitted
  <1>1. head = <<job.old, job.new>> /\ job.old = version
    BY DEF UpgradeInv, Headed, Phases, Running
  <1>2. head # NoHead /\ head[1] = job.old
    BY <1>1 DEF NoHead
  <1> QED BY <1>1, <1>2 DEF Uncommitted

\* What the next run will make of the files is still the same.
SameOriginals == version' = version /\ \A p \in Files : Original(p)'.migs = Original(p).migs
SameView ==
    /\ \A s, p : (Captured(s, p)' <=> Captured(s, p)) /\ (Covered(s, p)' <=> Covered(s, p))
    /\ \A p \in Files : vault'[p].migs = vault[p].migs /\ \A s : RestoredIn(s, p)'.migs = RestoredIn(s, p).migs
    /\ Recorded' = Recorded /\ Before' = Before /\ (Uncommitted' <=> Uncommitted)
    /\ SameOriginals

\* A step that leaves VERSION, the journal and the transformed bytes alone changes no view.
LEMMA ViewStays ==
    ASSUME UNCHANGED <<version, head, lines>>, \A p \in Files : vault'[p].migs = vault[p].migs
    PROVE  SameView
  <1>1. \A s, p : (Captured(s, p)' <=> Captured(s, p)) /\ (Covered(s, p)' <=> Covered(s, p))
    BY SameLines
  <1>2. \A p \in Files : /\ \A s : RestoredIn(s, p)'.migs = RestoredIn(s, p).migs
                         /\ Original(p)'.migs = Original(p).migs
    BY SameMigrations
  <1>3. Recorded' = Recorded /\ Before' = Before
    BY <1>2, Names DEF Recorded, Before
  <1>4. Uncommitted' <=> Uncommitted
    BY DEF Uncommitted
  <1> QED BY <1>1, <1>2, <1>3, <1>4 DEF SameView, SameOriginals

\* What is in the files is then still what it should be.
LEMMA ExactStays ==
    ASSUME UpgradeInv, Exact, SameView, Forward' => Forward /\ job'.new = job.new,
           job.pc = "effects" /\ Forward' => job'.pc = "effects" /\ job'.mig = job.mig
    PROVE  Exact'
  <1>1. \A p \in Paths : Base(p)' = Base(p)
    BY DEF SameView, SameOriginals, Base
  <1>2. Uncommitted' => \A p \in Paths : Original(p)'.migs \subseteq Base(p)'
    BY <1>1, Names DEF SameView, SameOriginals, Exact
  <1>3. ASSUME ~ Uncommitted' \/ Forward', NEW p \in Paths
        PROVE  vault'[p].migs \subseteq Installed(Recorded \union Doing, p)'
    <2>1. Doing \subseteq Doing'
      <3>1. job.pc = "effects" => Uncommitted
        BY RunIsUncommitted DEF Running
      <3> QED BY <1>3, <3>1 DEF Doing, SameView
    <2>2. vault[p].migs \subseteq Installed(Recorded \union Doing, p)
      BY <1>3 DEF SameView, Exact
    <2>3. vault'[p].migs = vault[p].migs /\ Recorded' = Recorded /\ version' = version
      BY Names DEF SameView, SameOriginals
    <2> QED BY <2>1, <2>2, <2>3 DEF Installed
  <1>4. Forward' /\ Uncommitted' => /\ Before' \subseteq Recorded'
                                    /\ Recorded' \subseteq Before' \union {m \in Migrations : Ver[m] <= job'.new}
    BY DEF SameView, Exact
  <1> QED BY <1>2, <1>3, <1>4 DEF Exact

\* Where no run goes forward and no restore is on its way there is nothing else to show.
LEMMA IdleExact ==
    ASSUME UpgradeInv, ExactInv, SameView, job'.pc \in {"idle", "load", "guard"}
    PROVE  ExactInv'
  <1>1. ~ Forward'
    BY DEF Forward, Running, Ending
  <1>2. Exact'
    BY <1>1, ExactStays DEF ExactInv
  <1>3. Due' /\ Listed' /\ FirstStage' /\ Newer' /\ Undone'
    BY <1>1 DEF Due, Listed, FirstStage, Newer, Undone, Chosen, Staged, Restoring
  <1> QED BY <1>2, <1>3 DEF ExactInv

\* The run goes forward to close its journal, or keeps on closing it.
LEMMA EndingExact ==
    ASSUME UpgradeInv, ExactInv, SameView, Forward, job.pc # "effects",
           job'.pc \in {"cutover", "discard", "version"}, job'.pc # "cutover" => job'.then = "version", job'.new = job.new
    PROVE  ExactInv'
  <1>1. Exact'
    BY ExactStays DEF ExactInv
  <1>2. Newer'
    BY DEF ExactInv, Newer, SameView, SameOriginals
  <1>3. Due' /\ Listed' /\ FirstStage' /\ Undone'
    BY DEF Due, Listed, FirstStage, Undone, Chosen, Staged, Restoring
  <1> QED BY <1>1, <1>2, <1>3 DEF ExactInv

\* The run, or a restore, closes a journal that has nothing to say.
LEMMA CloseExact ==
    ASSUME UpgradeInv, ExactInv, SameView, job'.pc = "discard", job'.then \in {"idle", "guard"},
           Uncommitted => \A p \in Files : vault[p].migs = Original(p).migs
    PROVE  ExactInv'
  <1>1. ~ Forward'
    BY DEF Forward, Running
  <1>2. Exact'
    BY <1>1, ExactStays DEF ExactInv
  <1>3. Undone'
    BY DEF Undone, Restoring, SameView, SameOriginals
  <1>4. Due' /\ Listed' /\ FirstStage' /\ Newer'
    BY <1>1 DEF Due, Listed, FirstStage, Newer, Chosen, Staged
  <1> QED BY <1>2, <1>3, <1>4 DEF ExactInv

\* A restore goes on.
LEMMA RestoreExact ==
    ASSUME UpgradeInv, ExactInv, SameView, job'.pc \in {"plan", "restore", "core"},
           job'.stage = "pre" \/ job'.pc = "core" => \A p \in Files :
              p \in job'.failed \/ Covered("pre", p) \/ vault[p].migs = RestoredIn("post", p).migs,
           job'.pc = "core" => \A p \in Files : p \in job'.failed \/ vault[p].migs = Original(p).migs
    PROVE  ExactInv'
  <1>1. ~ Forward'
    BY DEF Forward, Running, Ending
  <1>2. Exact'
    BY <1>1, ExactStays DEF ExactInv
  <1>3. Undone'
    BY DEF Undone, Restoring, SameView, SameOriginals
  <1>4. Due' /\ Listed' /\ FirstStage' /\ Newer'
    BY <1>1 DEF Due, Listed, FirstStage, Newer, Chosen, Staged
  <1> QED BY <1>2, <1>3, <1>4 DEF ExactInv

\* The run's memory changes no more than the files do.
LEMMA CalmExact ==
    ASSUME UpgradeInv, ExactInv, SameView, job' = job
    PROVE  ExactInv'
  <1>1. Exact'
    <2>1. Forward' <=> Forward
      BY DEF Forward
    <2> QED BY <2>1, ExactStays DEF ExactInv
  <1>2. \A p \in Paths : vault'[p].migs = vault[p].migs
    BY Names DEF SameView
  <1>3. \A p : Captured(job.stage, p)' <=> Captured(job.stage, p)
    <2>1. PICK s : s = job.stage /\ s = job'.stage
      OBVIOUS
    <2>2. \A p : Captured(job.stage, p)' <=> Captured(s, p)'
      BY <2>1 DEF Captured
    <2> QED BY <2>1, <2>2 DEF SameView
  <1>4. \A p \in Paths : Unlisted(p)' <=> Unlisted(p)
    BY <1>2, <1>3 DEF Unlisted
  <1>5. Pending' = Pending
    BY DEF Pending, SameView
  <1>6. Due'
    BY <1>3, <1>5 DEF ExactInv, Due, Chosen, Planned
  <1>7. Listed' /\ FirstStage'
    BY <1>4, <1>5 DEF ExactInv, Listed, FirstStage, Staged, SameView
  <1>8. Newer' /\ Undone'
    BY DEF ExactInv, Newer, Undone, Forward, SameView, SameOriginals
  <1> QED BY <1>1, <1>6, <1>7, <1>8 DEF ExactInv

-----------------------------------------------------------------------------
(* Steps that only move the run, once more.                                  *)

\* What is the same after every one of them.
LEMMA MoveView == ASSUME UNCHANGED disk PROVE SameView
  <1>1. UNCHANGED <<version, head, lines>> /\ UNCHANGED vault
    BY DEF disk
  <1> QED BY <1>1, ViewStays

\* A run starts.
LEMMA StartExact ==
    ASSUME UpgradeInv, ExactInv, NEW w \in Versions, NEW force \in BOOLEAN, Start(w, force)
    PROVE  ExactInv' /\ SameOriginals
  <1>1. UNCHANGED disk /\ job' = [NoRun EXCEPT !.pc = "load", !.old = version, !.new = w, !.force = force]
    BY DEF Start
  <1>2. SameView
    BY <1>1, MoveView
  <1>3. job'.pc = "load"
    BY <1>1 DEF NoRun
  <1> QED BY <1>2, <1>3, IdleExact DEF SameView

\* A leftover journal is looked at.
LEMMA RecoverExact == ASSUME UpgradeInv, ExactInv, Recover PROVE ExactInv' /\ SameOriginals
  <1>1. UNCHANGED disk /\ job \in Jobs
    BY DEF Recover, UpgradeInv, Typed
  <1>2. \/ job' = Goto("guard") \/ job' = NoRun
        \/ job' = [job EXCEPT !.pc = "discard", !.then = "guard"] /\ ~ Uncommitted
        \/ job' = [job EXCEPT !.pc = "plan", !.stage = "ledger", !.then = "guard"]
    BY DEF Recover, Uncommitted
  <1>3. SameView
    BY <1>1, MoveView
  <1>4. CASE job' = Goto("guard") \/ job' = NoRun
    <2>1. job'.pc \in {"idle", "guard"}
      BY <1>1, <1>4, NoRunIs DEF Goto, Jobs
    <2> QED BY <1>3, <2>1, IdleExact DEF SameView
  <1>5. CASE job' = [job EXCEPT !.pc = "discard", !.then = "guard"] /\ ~ Uncommitted
    <2>1. job'.pc = "discard" /\ job'.then = "guard"
      BY <1>1, <1>5 DEF Jobs
    <2> QED BY <1>3, <1>5, <2>1, CloseExact DEF SameView
  <1>6. CASE job' = [job EXCEPT !.pc = "plan", !.stage = "ledger", !.then = "guard"]
    <2>1. job'.pc = "plan" /\ job'.stage = "ledger"
      BY <1>1, <1>6 DEF Jobs
    <2> QED BY <1>3, <2>1, RestoreExact DEF SameView
  <1> QED BY <1>2, <1>4, <1>5, <1>6

\* A run that fails is going to be restored.
LEMMA FailExact == ASSUME UpgradeInv, ExactInv, Fail PROVE ExactInv' /\ SameOriginals
  <1>1. UNCHANGED disk /\ job \in Jobs /\ job' = [job EXCEPT !.pc = "plan", !.stage = "ledger", !.then = "idle"]
    BY DEF Fail, UpgradeInv, Typed
  <1>2. job'.pc = "plan" /\ job'.stage = "ledger"
    BY <1>1 DEF Jobs
  <1>3. SameView
    BY <1>1, MoveView
  <1> QED BY <1>2, <1>3, RestoreExact DEF SameView

\* A run that refuses has captured nothing, and so changed nothing.
LEMMA RefuseExact == ASSUME UpgradeInv, ExactInv, Refuse PROVE ExactInv' /\ SameOriginals
  <1>1. /\ UNCHANGED disk /\ job \in Jobs
        /\ \/ job.pc = "open" /\ job' = NoRun
           \/ job.pc = "copy" /\ job' = [job EXCEPT !.pc = "discard", !.then = "idle"]
    BY DEF Refuse, UpgradeInv, Typed
  <1>2. SameView
    BY <1>1, MoveView
  <1>3. CASE job.pc = "open" /\ job' = NoRun
    BY <1>2, <1>3, NoRunIs, IdleExact DEF SameView
  <1>4. CASE job.pc = "copy" /\ job' = [job EXCEPT !.pc = "discard", !.then = "idle"]
    <2>1. job'.pc = "discard" /\ job'.then = "idle"
      BY <1>1, <1>4 DEF Jobs
    <2>2. \A s, p : ~ Covered(s, p)
      <3>1. Len(lines) = 0
        BY <1>4 DEF UpgradeInv, Headed
      <3> QED BY <3>1 DEF Covered, Captured
    <2>3. \A p : vault[p] = Original(p)
      BY <2>2, OriginalIs, RestoredIs
    <2> QED BY <1>2, <2>1, <2>3, CloseExact DEF SameView
  <1> QED BY <1>1, <1>3, <1>4

\* The last thing that can be rolled back is over.
LEMMA CutoverExact == ASSUME UpgradeInv, ExactInv, Cutover PROVE ExactInv' /\ SameOriginals
  <1>1. /\ UNCHANGED disk /\ job \in Jobs /\ job.pc = "cutover"
        /\ job' = [job EXCEPT !.pc = "discard", !.then = "version"]
    BY DEF Cutover, UpgradeInv, Typed
  <1>2. job'.pc = "discard" /\ job'.then = "version" /\ job'.new = job.new
    BY <1>1 DEF Jobs
  <1>3. SameView /\ Forward
    BY <1>1, MoveView DEF Forward, Running
  <1> QED BY <1>1, <1>2, <1>3, EndingExact DEF SameView

\* The journal stays, and VERSION is written, or nothing more is done.
LEMMA DiscardFailsExact == ASSUME UpgradeInv, ExactInv, DiscardFails PROVE ExactInv' /\ SameOriginals
  <1>1. /\ UNCHANGED disk /\ job \in Jobs /\ job.pc \in {"discard", "sweep"} /\ job' = Goto(job.then)
        /\ job.then \in {"version", "idle", "guard"}
    BY DEF DiscardFails, UpgradeInv, Typed, Phases
  <1>2. job'.pc = job.then /\ job'.then = job.then /\ job'.new = job.new
    BY <1>1 DEF Goto, Jobs
  <1>3. SameView
    BY <1>1, MoveView
  <1>4. CASE job.then = "version"
    <2>1. Forward
      BY <1>1, <1>4 DEF Forward, Ending
    <2> QED BY <1>1, <1>2, <1>3, <1>4, <2>1, EndingExact DEF SameView
  <1>5. CASE job.then \in {"idle", "guard"}
    BY <1>2, <1>3, <1>5, IdleExact DEF SameView
  <1> QED BY <1>1, <1>4, <1>5

\* VERSION cannot be written.
LEMMA VersionFailsExact == ASSUME UpgradeInv, ExactInv, VersionFails PROVE ExactInv' /\ SameOriginals
  <1>1. UNCHANGED disk /\ job'.pc = "idle"
    BY NoRunIs DEF VersionFails
  <1> QED BY <1>1, MoveView, IdleExact DEF SameView

\* A pass of a restore is looked over: what is not reported as failed is as the stage has it.
LEMMA VerifyExact == ASSUME UpgradeInv, ExactInv, Verify PROVE ExactInv' /\ SameOriginals
  <1> DEFINE failed == job.failed \union {p \in Scope : Wanted(p) # vault[p]}
  <1>1. /\ UNCHANGED disk /\ job \in Jobs /\ job.pc = "restore"
        /\ job' = IF NextPass # "done" THEN [job EXCEPT !.failed = failed, !.stage = NextPass, !.pc = "plan"]
                  ELSE IF job.then = "idle" THEN [job EXCEPT !.failed = failed, !.pc = "core"]
                  ELSE IF failed = {} THEN Goto("discard")
                  ELSE NoRun
        /\ job.then \in {"idle", "guard"}
    BY DEF Verify, UpgradeInv, Typed, Phases, Restoring
  <1>2. SameView
    BY <1>1, MoveView
  <1>3. /\ job.stage = "ledger" => NextPass = "post"
        /\ job.stage = "post" => NextPass = "pre"
        /\ job.stage = "pre" => NextPass = "done"
    BY DEF NextPass
  <1>4. job.stage # "ledger" => \A p \in Files : p \in failed \/ vault[p] = RestoredIn(job.stage, p)
    BY DEF Scope, Wanted
  <1>5. job.failed \subseteq failed
    OBVIOUS
  <1> HIDE DEF failed
  <1>6. CASE job.stage = "ledger"
    <2>1. job' = [job EXCEPT !.failed = failed, !.stage = "post", !.pc = "plan"]
      BY <1>1, <1>3, <1>6
    <2>2. job'.pc = "plan" /\ job'.stage = "post"
      BY <1>1, <2>1 DEF Jobs
    <2> QED BY <1>2, <2>2, RestoreExact DEF SameView
  <1>7. CASE job.stage = "post"
    <2>1. job' = [job EXCEPT !.failed = failed, !.stage = "pre", !.pc = "plan"]
      BY <1>1, <1>3, <1>7
    <2>2. job'.pc = "plan" /\ job'.stage = "pre" /\ job'.failed = failed
      BY <1>1, <2>1 DEF Jobs
    <2>3. \A p \in Files : p \in failed \/ vault[p] = RestoredIn("post", p)
      BY <1>4, <1>7
    <2> QED BY <1>2, <2>2, <2>3, RestoreExact DEF SameView
  <1>8. CASE job.stage = "pre"
    <2>1. \A p \in Files : p \in job.failed \/ Covered("pre", p) \/ vault[p].migs = RestoredIn("post", p).migs
      BY <1>1, <1>8 DEF ExactInv, Undone, Restoring
    <2>2. \A p \in Files : p \in failed \/ vault[p] = RestoredIn("pre", p)
      BY <1>4, <1>8
    <2>3. \A p \in Files : p \in failed \/ vault[p].migs = Original(p).migs
      <3> SUFFICES ASSUME NEW p \in Files, p \notin failed PROVE vault[p].migs = Original(p).migs
        OBVIOUS
      <3>1. vault[p] = RestoredIn("pre", p)
        BY <2>2
      <3>2. Covered("pre", p) \/ vault[p].migs = RestoredIn("post", p).migs
        BY <1>5, <2>1
      <3> QED BY <3>1, <3>2, OriginalIs
    <2>4. CASE job' = [job EXCEPT !.failed = failed, !.pc = "core"]
      <3>1. job'.pc = "core" /\ job'.failed = failed
        BY <1>1, <2>4 DEF Jobs
      <3>2. \A p \in Files : p \in failed \/ Covered("pre", p) \/ vault[p].migs = RestoredIn("post", p).migs
        BY <1>5, <2>1
      <3> QED BY <1>2, <2>3, <3>1, <3>2, RestoreExact DEF SameView
    <2>5. CASE failed = {} /\ job' = Goto("discard") /\ job.then = "guard"
      <3>1. job'.pc = "discard" /\ job'.then = "guard"
        BY <1>1, <2>5 DEF Goto, Jobs
      <3> QED BY <1>2, <2>3, <2>5, <3>1, CloseExact DEF SameView
    <2>6. CASE job' = NoRun
      BY <1>2, <2>6, NoRunIs, IdleExact DEF SameView
    <2> QED BY <1>1, <1>3, <1>8, <2>4, <2>5, <2>6
  <1> QED BY <1>1, <1>6, <1>7, <1>8 DEF Jobs

\* A rollback closes the journal if every file is restored.
LEMMA EndRollbackExact == ASSUME UpgradeInv, ExactInv, EndRollback PROVE ExactInv' /\ SameOriginals
  <1>1. /\ UNCHANGED disk /\ job \in Jobs /\ job.pc = "core" /\ job.then = "idle"
        /\ (job' = Goto("discard") /\ job.failed = {}) \/ job' = NoRun
    BY DEF EndRollback, UpgradeInv, Typed, Phases
  <1>2. SameView
    BY <1>1, MoveView
  <1>3. CASE job' = Goto("discard") /\ job.failed = {}
    <2>1. job'.pc = "discard" /\ job'.then = "idle"
      BY <1>1, <1>3 DEF Goto, Jobs
    <2>2. \A p \in Files : vault[p].migs = Original(p).migs
      BY <1>1, <1>3 DEF ExactInv, Undone
    <2> QED BY <1>2, <2>1, <2>2, CloseExact DEF SameView
  <1>4. CASE job' = NoRun
    BY <1>2, <1>4, NoRunIs, IdleExact DEF SameView
  <1> QED BY <1>1, <1>3, <1>4

-----------------------------------------------------------------------------
(* Steps of a run that goes forward without writing to a file.               *)

\* Nothing of what the stage has captured or still owes is different.
LEMMA SameStage ==
    ASSUME SameView, job'.stage = job.stage, job'.old = job.old, job'.new = job.new
    PROVE  /\ \A p : Captured(job.stage, p)' <=> Captured(job.stage, p)
           /\ \A p \in Paths : Unlisted(p)' <=> Unlisted(p)
           /\ Pending' = Pending
  <1>1. \A p : Captured(job.stage, p)' <=> Captured(job.stage, p)
    <2>1. PICK s : s = job.stage /\ s = job'.stage
      OBVIOUS
    <2>2. \A p : Captured(job.stage, p)' <=> Captured(s, p)'
      BY <2>1 DEF Captured
    <2> QED BY <2>1, <2>2 DEF SameView
  <1>2. \A p \in Paths : vault'[p].migs = vault[p].migs
    BY Names DEF SameView
  <1> QED BY <1>1, <1>2 DEF Unlisted, Pending, SameView

\* A run that goes on and changes no file.
LEMMA OnwardExact ==
    ASSUME UpgradeInv, ExactInv, SameView, Forward, job.pc # "effects",
           job'.pc \in Running, job'.new = job.new
    PROVE  Exact' /\ Newer' /\ Undone' /\ SameOriginals
  <1>1. Exact'
    BY ExactStays DEF ExactInv
  <1>2. Newer'
    BY DEF ExactInv, Newer, SameView, SameOriginals
  <1>3. Undone'
    BY DEF Undone, Restoring, Running
  <1> QED BY <1>1, <1>2, <1>3 DEF SameView

\* The core is there; nothing has been captured before the ledger.
LEMMA CopiedExact == ASSUME UpgradeInv, ExactInv, Copied PROVE ExactInv' /\ SameOriginals
  <1>1. UNCHANGED disk /\ job \in Jobs /\ job.pc = "copy" /\ Typed
    BY DEF Copied, UpgradeInv, Typed
  <1>2. PICK todo : job' = [job EXCEPT !.pc = "blobs", !.then = "seed", !.todo = todo, !.stage = "pre"]
    BY <1>1, CopiedIs
  <1>3. job'.pc = "blobs" /\ job'.then = "seed" /\ job'.stage = "pre" /\ job'.new = job.new
    BY <1>1, <1>2 DEF Jobs
  <1>4. SameView /\ Forward
    BY <1>1, MoveView DEF Forward, Running
  <1>5. \A s, p : ~ Captured(s, p)'
    <2>1. Len(lines) = 0
      BY <1>1 DEF UpgradeInv, Headed
    <2>2. \A s, p : ~ Captured(s, p)
      BY <2>1 DEF Captured
    <2> QED BY <1>4, <2>2 DEF SameView
  <1>6. Exact' /\ Newer' /\ Undone' /\ SameOriginals
    BY <1>1, <1>3, <1>4, OnwardExact DEF Running
  <1>7. Due'
    BY <1>3 DEF Due, Chosen
  <1>8. \A p : ~ Unlisted(p)' /\ ~ Captured("post", p)'
    BY <1>5 DEF Unlisted
  <1>9. Listed' /\ FirstStage'
    BY <1>8 DEF Listed, FirstStage
  <1> QED BY <1>6, <1>7, <1>9 DEF ExactInv

\* What the next migration may change is captured, or going to be.
LEMMA PrepareExact == ASSUME UpgradeInv, ExactInv, NEW m \in Migrations, Prepare(m) PROVE ExactInv' /\ SameOriginals
  <1>1. /\ UNCHANGED disk /\ job \in Jobs /\ job.pc = "migrate" /\ Typed /\ job.stage \in {"pre", "post"}
        /\ m \in Pending /\ \A n \in Pending : Ver[m] <= Ver[n]
    BY DEF Prepare, UpgradeInv, Typed, Phases
  <1>2. SameView /\ Forward
    BY <1>1, MoveView DEF Forward, Running
  <1>3. ASSUME job'.pc \in Running, job'.pc # "seed", job'.stage = job.stage, job'.old = job.old, job'.new = job.new,
               job'.pc = "effects" \/ (job'.pc = "blobs" /\ job'.then = "effects"),
               job'.mig = {m},
               m \in Declared => \A p \in job'.left : Captured(job.stage, p) \/ Planned(p)',
               m \notin Declared => Captured(job.stage, Root) \/ Planned(Root)',
               job'.pc = "blobs" => \A i \in 1 .. Len(job'.todo) :
                  job'.todo[i].path \in Paths => ~ Unlisted(job'.todo[i].path)
        PROVE  ExactInv' /\ SameOriginals
    <2>1. Exact' /\ Newer' /\ Undone' /\ SameOriginals
      BY <1>1, <1>2, <1>3, OnwardExact
    <2>2. /\ \A p : Captured(job.stage, p)' <=> Captured(job.stage, p)
          /\ \A p \in Paths : Unlisted(p)' <=> Unlisted(p)
          /\ Pending' = Pending
      BY <1>2, <1>3, SameStage
    <2>3. Due'
      BY <1>1, <1>3, <2>2 DEF Due
    <2>4. \A p \in Paths : Unlisted(p)' => \A d \in Pending' \cap Declared : p \notin Effects[d]
      BY <1>1, <2>2 DEF ExactInv, Listed, Staged
    <2>5. Listed'
      BY <1>3, <2>2, <2>4 DEF Listed
    <2>6. FirstStage'
      <3>1. Staged /\ (job'.stage = "pre" => \A p \in Files \union {Root} : ~ Captured("post", p))
        BY <1>1, <1>3 DEF ExactInv, FirstStage, Staged
      <3> QED BY <1>2, <3>1 DEF FirstStage, SameView
    <2> QED BY <2>1, <2>3, <2>5, <2>6 DEF ExactInv
  <1>4. CASE /\ m \notin Declared /\ Captured(job.stage, Root)
             /\ job' = [job EXCEPT !.pc = "effects", !.mig = {m}, !.left = Effects[m]]
    <2>1. /\ job'.pc = "effects" /\ job'.stage = job.stage /\ job'.old = job.old /\ job'.new = job.new
          /\ job'.mig = {m}
      BY <1>1, <1>4 DEF Jobs
    <2> QED BY <1>3, <1>4, <2>1 DEF Running
  <1>5. ASSUME NEW todo, NEW ps, NEW root,
               ps \subseteq Files /\ root \in BOOLEAN /\ Plans(todo, job.stage, ps, root),
               \/ m \in Declared /\ ps = Effects[m] /\ ~ root
               \/ /\ m \notin Declared /\ ~ Captured(job.stage, Root)
                  /\ ps = {p \in Paths : vault[p].exists} /\ root,
               job' = [job EXCEPT !.pc = "blobs", !.then = "effects", !.todo = todo,
                                  !.mig = {m}, !.left = Effects[m]]
        PROVE  ExactInv' /\ SameOriginals
    <2>1. /\ job'.pc = "blobs" /\ job'.then = "effects" /\ job'.mig = {m} /\ job'.left = Effects[m]
          /\ job'.old = job.old /\ job'.new = job.new /\ job'.stage = job.stage /\ job'.todo = todo
      BY <1>1, <1>5 DEF Jobs
    <2>2. \A p : Planned(p)' <=> \E i \in 1 .. Len(todo) : todo[i].path = p
      BY <2>1 DEF Planned
    <2>3. m \in Declared => \A p \in job'.left : Captured(job.stage, p) \/ Planned(p)'
      BY <1>5, <2>1, <2>2 DEF Plans
    <2>4. m \notin Declared => Captured(job.stage, Root) \/ Planned(Root)'
      BY <1>5, <2>2 DEF Plans
    <2>5. ASSUME NEW i \in 1 .. Len(todo), todo[i].path \in Paths PROVE ~ Unlisted(todo[i].path)
      <3>1. CASE m \in Declared /\ ps = Effects[m] /\ ~ root
        <4>1. todo[i].path \in Effects[m]
          BY <1>5, <3>1 DEF Plans
        <4> QED BY <1>1, <2>5, <3>1, <4>1 DEF ExactInv, Listed, Staged
      <3>2. CASE ~ Captured(job.stage, Root)
        BY <3>2 DEF Unlisted
      <3> QED BY <1>5, <3>1, <3>2
    <2>6. \A i \in 1 .. Len(job'.todo) : job'.todo[i].path \in Paths => ~ Unlisted(job'.todo[i].path)
      BY <2>1, <2>5
    <2> QED BY <1>3, <2>1, <2>3, <2>4, <2>6 DEF Running
  <1> QED BY <1>1, <1>4, <1>5, PrepareIs

\* The second stage begins with nothing captured; or the stages are over.
LEMMA EndStageExact == ASSUME UpgradeInv, ExactInv, EndStage PROVE ExactInv' /\ SameOriginals
  <1>1. /\ UNCHANGED disk /\ job \in Jobs /\ job.pc = "migrate"
        /\ \/ job.stage = "pre" /\ job' = [job EXCEPT !.stage = "post", !.pc = "seed"]
           \/ job' = Goto("cutover")
    BY DEF EndStage, UpgradeInv, Typed
  <1>2. SameView /\ Forward
    BY <1>1, MoveView DEF Forward, Running
  <1>3. CASE job.stage = "pre" /\ job' = [job EXCEPT !.stage = "post", !.pc = "seed"]
    <2>1. job'.pc = "seed" /\ job'.stage = "post" /\ job'.new = job.new
      BY <1>1, <1>3 DEF Jobs
    <2>2. Exact' /\ Newer' /\ Undone' /\ SameOriginals
      BY <1>1, <1>2, <2>1, OnwardExact DEF Running
    <2>3. ~ Captured("post", Root)
      BY <1>1, <1>3 DEF ExactInv, FirstStage, Staged
    <2>4. ~ Captured(job.stage, Root)'
      <3>1. PICK s : s = "post"
        OBVIOUS
      <3>2. Captured(job.stage, Root)' <=> Captured(s, Root)'
        BY <2>1, <3>1 DEF Captured
      <3> QED BY <1>2, <2>3, <3>1, <3>2 DEF SameView
    <2>5. Due' /\ Listed' /\ FirstStage'
      BY <2>1, <2>4 DEF Due, Chosen, Listed, Unlisted, FirstStage
    <2> QED BY <2>2, <2>5 DEF ExactInv
  <1>4. CASE job' = Goto("cutover")
    <2>1. job'.pc = "cutover" /\ job'.new = job.new
      BY <1>1, <1>4 DEF Goto, Jobs
    <2> QED BY <1>1, <1>2, <2>1, EndingExact DEF SameView
  <1> QED BY <1>1, <1>3, <1>4

\* A step of a capture that adds no line.
LEMMA CaptureExact ==
    ASSUME UpgradeInv, ExactInv, SameView, job.pc \in {"blobs", "lines"},
           \/ job'.pc = "lines" /\ job'.then = job.then /\ job'.todo = job.todo
           \/ job'.pc = job.then /\ job.todo = <<>>,
           job'.stage = job.stage, job'.old = job.old, job'.new = job.new, job'.mig = job.mig, job'.left = job.left
    PROVE  ExactInv' /\ SameOriginals
  <1>1. Forward /\ job.then \in {"effects", "seed"}
    BY DEF Forward, Running, UpgradeInv, Phases
  <1>2. Exact' /\ Newer' /\ Undone' /\ SameOriginals
    BY <1>1, OnwardExact DEF Running
  <1>3. /\ \A p : Captured(job.stage, p)' <=> Captured(job.stage, p)
        /\ \A p \in Paths : Unlisted(p)' <=> Unlisted(p)
        /\ Pending' = Pending
    BY SameStage
  <1>4. Chosen' <=> Chosen
    BY <1>1 DEF Chosen
  <1>5. \A p : Planned(p) => Planned(p)'
    <2>1. CASE job'.pc = "lines" /\ job'.todo = job.todo
      BY <2>1 DEF Planned
    <2>2. CASE job.todo = <<>>
      <3>1. Len(job.todo) = 0
        BY <2>2
      <3> QED BY <3>1 DEF Planned
    <2> QED BY <2>1, <2>2
  <1>6. Due'
    BY <1>3, <1>4, <1>5 DEF ExactInv, Due
  <1>7. Staged /\ (job'.pc \in {"blobs", "lines"} => job'.todo = job.todo)
    BY <1>1 DEF Staged
  <1>8. Listed' /\ FirstStage'
    BY <1>3, <1>7 DEF ExactInv, Listed, FirstStage, SameView
  <1> QED BY <1>2, <1>6, <1>8 DEF ExactInv

\* The bytes that the lines will name are written.
LEMMA WriteBlobExact == ASSUME UpgradeInv, ExactInv, WriteBlob PROVE ExactInv' /\ SameOriginals
  <1>1. /\ UNCHANGED <<version, head, lines>> /\ UNCHANGED vault /\ job \in Jobs /\ job.pc = "blobs"
        /\ job' = Goto("lines") \/ job' = job
    BY DEF WriteBlob, UpgradeInv, Typed
  <1>2. SameView
    BY <1>1, ViewStays
  <1>3. CASE job' = Goto("lines")
    <2>1. /\ job'.pc = "lines" /\ job'.then = job.then /\ job'.todo = job.todo
          /\ job'.stage = job.stage /\ job'.old = job.old /\ job'.new = job.new
          /\ job'.mig = job.mig /\ job'.left = job.left
      BY <1>1, <1>3 DEF Goto, Jobs
    <2> QED BY <1>1, <1>2, <2>1, CaptureExact
  <1>4. CASE job' = job
    BY <1>2, <1>4, CalmExact DEF SameView
  <1> QED BY <1>1, <1>3, <1>4

\* All the lines are written.
LEMMA WrittenExact == ASSUME UpgradeInv, ExactInv, WriteLine, job.todo = <<>> PROVE ExactInv' /\ SameOriginals
  <1>1. /\ UNCHANGED <<version, head, lines>> /\ UNCHANGED vault /\ job \in Jobs /\ job.pc = "lines"
        /\ job' = Goto(job.then)
    BY DEF WriteLine, UpgradeInv, Typed
  <1>2. SameView
    BY <1>1, ViewStays
  <1>3. /\ job'.pc = job.then
        /\ job'.stage = job.stage /\ job'.old = job.old /\ job'.new = job.new
        /\ job'.mig = job.mig /\ job'.left = job.left
    BY <1>1 DEF Goto, Jobs
  <1> QED BY <1>1, <1>2, <1>3, CaptureExact

-----------------------------------------------------------------------------
(* Steps that leave the files' migrations alone.                             *)

\* The core, the user's edits, or nothing.
LEMMA StillExact ==
    ASSUME UpgradeInv, ExactInv,
           (\E f \in CoreFiles : Copy(f) \/ RestoreCore(f)) \/ (\E p \in Paths : Edit(p)) \/ UNCHANGED upgradeVars
    PROVE  ExactInv' /\ SameOriginals
  <1>1. CASE (\E f \in CoreFiles : Copy(f) \/ RestoreCore(f)) \/ UNCHANGED upgradeVars
    <2>1. UNCHANGED <<version, head, lines>> /\ UNCHANGED vault /\ job' = job
      BY <1>1 DEF Copy, RestoreCore, upgradeVars
    <2>2. SameView
      BY <2>1, ViewStays
    <2> QED BY <2>1, <2>2, CalmExact DEF SameView
  <1>2. ASSUME NEW p \in Paths, Edit(p) PROVE ExactInv' /\ SameOriginals
    <2>1. UNCHANGED <<version, head, lines>> /\ job' = job /\ Typed
      BY <1>2 DEF Edit, UpgradeInv
    <2>2. \A q \in Files : vault'[q].migs = vault[q].migs
      BY <1>2, <2>1, EditMigrations
    <2>3. SameView
      BY <2>1, <2>2, ViewStays
    <2> QED BY <2>1, <2>3, CalmExact DEF SameView
  <1> QED BY <1>1, <1>2

\* What differs from the snapshot is looked up, and kept.
LEMMA PlanRestoreExact == ASSUME UpgradeInv, ExactInv, PlanRestore PROVE ExactInv' /\ SameOriginals
  <1> DEFINE differ == {p \in Scope : Wanted(p) # vault[p]}
  <1>1. /\ UNCHANGED <<version, head, lines>> /\ UNCHANGED vault /\ job \in Jobs /\ job.pc = "plan"
        /\ job' = [job EXCEPT !.pc = "restore", !.plan = differ]
    BY DEF PlanRestore, UpgradeInv, Typed
  <1> HIDE DEF differ
  <1>2. job'.pc = "restore" /\ job'.stage = job.stage /\ job'.failed = job.failed
    BY <1>1 DEF Jobs
  <1>3. SameView
    BY <1>1, ViewStays
  <1>4. job.stage = "pre" => \A p \in Files :
           p \in job.failed \/ Covered("pre", p) \/ vault[p].migs = RestoredIn("post", p).migs
    BY <1>1 DEF ExactInv, Undone, Restoring
  <1> QED BY <1>2, <1>3, <1>4, RestoreExact DEF SameView

\* A file that cannot be restored is reported, and attempted past.
LEMMA RestoreFailsExact == ASSUME UpgradeInv, ExactInv, NEW p \in Files, RestoreFails(p) PROVE ExactInv' /\ SameOriginals
  <1>1. /\ UNCHANGED disk /\ job \in Jobs /\ job.pc = "restore"
        /\ job' = [job EXCEPT !.plan = @ \ {p}, !.failed = @ \union {p}]
    BY DEF RestoreFails, UpgradeInv, Typed
  <1>2. job'.pc = "restore" /\ job'.stage = job.stage /\ job.failed \subseteq job'.failed
    BY <1>1 DEF Jobs
  <1>3. SameView
    BY <1>1, MoveView
  <1>4. job.stage = "pre" => \A q \in Files :
           q \in job.failed \/ Covered("pre", q) \/ vault[q].migs = RestoredIn("post", q).migs
    BY <1>1 DEF ExactInv, Undone, Restoring
  <1> QED BY <1>2, <1>3, <1>4, RestoreExact DEF SameView

-----------------------------------------------------------------------------
(* Steps while no journal counts, and the one that makes it count.           *)

\* What a restore will make of a path after the step, case by case.
LEMMA NextRestoredIs ==
    ASSUME NEW s, NEW p
    PROVE  /\ Captured(s, p)' => RestoredIn(s, p)' = First(s, p)'
           /\ ~ Captured(s, p)' /\ Covered(s, p)' => RestoredIn(s, p)' = Absent
           /\ ~ Covered(s, p)' => RestoredIn(s, p)' = vault'[p]
  BY DEF RestoredIn, Covered

\* And what the next run will make of it.
LEMMA NextOriginalIs ==
    ASSUME NEW p
    PROVE  /\ ~ Uncommitted' => Original(p)' = vault'[p]
           /\ Uncommitted' /\ Covered("pre", p)' => Original(p)' = RestoredIn("pre", p)'
           /\ Uncommitted' /\ ~ Covered("pre", p)' => Original(p)' = RestoredIn("post", p)'
  BY DEF Original, Covered

\* Without a journal that counts the files are what they are.
LEMMA LooseExact ==
    ASSUME UpgradeInv, ExactInv, ~ Uncommitted, ~ Uncommitted', UNCHANGED <<version, vault>>
    PROVE  SameOriginals /\ Exact'
  <1>1. SameOriginals
    BY OriginalIs, NextOriginalIs DEF SameOriginals
  <1>2. job.pc # "effects"
    BY RunIsUncommitted DEF Running
  <1>3. \A p \in Paths : vault[p].migs \subseteq Installed(Recorded, p)
    BY <1>2 DEF ExactInv, Exact, Doing, Installed
  <1>4. \A p \in Paths : vault'[p].migs \subseteq Installed(Recorded \union Doing, p)'
    BY <1>3 DEF Installed, Recorded
  <1> QED BY <1>1, <1>4 DEF Exact

\* The run is refused, or clears the journal's place.
LEMMA GuardExact == ASSUME UpgradeInv, ExactInv, Guard PROVE ExactInv' /\ SameOriginals
  <1>1. /\ UNCHANGED <<version, head>> /\ UNCHANGED vault /\ job \in Jobs
        /\ \/ MayProceed /\ head = NoHead /\ job' = Goto("open")
           \/ job' = NoRun /\ UNCHANGED lines
    BY DEF Guard, UpgradeInv, Typed
  <1>2. CASE job' = NoRun /\ UNCHANGED lines
    BY <1>1, <1>2, ViewStays, NoRunIs, IdleExact DEF SameView
  <1>3. CASE MayProceed /\ head = NoHead /\ job' = Goto("open")
    <2>1. job'.pc = "open" /\ job'.new = job.new
      BY <1>1, <1>3 DEF Goto, Jobs
    <2>2. ~ Uncommitted /\ ~ Uncommitted'
      BY <1>1, <1>3 DEF Uncommitted
    <2>3. Exact' /\ SameOriginals
      BY <1>1, <2>2, LooseExact
    <2>4. version <= job.new /\ \A m \in Recorded : Ver[m] <= job.new
      BY <1>3, LedgerTyped, Names DEF MayProceed, UpgradeInv, Typed, Jobs
    <2>5. Newer'
      BY <1>1, <2>1, <2>4 DEF Newer, Recorded
    <2>6. Due' /\ Listed' /\ FirstStage' /\ Undone'
      BY <2>1 DEF Due, Chosen, Listed, FirstStage, Staged, Undone, Restoring
    <2> QED BY <2>3, <2>5, <2>6 DEF ExactInv
  <1> QED BY <1>1, <1>2, <1>3

\* What is left of a journal without a header is removed.
LEMMA SweepExact == ASSUME UpgradeInv, ExactInv, Sweep PROVE ExactInv' /\ SameOriginals
  <1>1. /\ UNCHANGED <<version, head>> /\ UNCHANGED vault /\ job \in Jobs /\ job.pc = "sweep" /\ job' = Goto(job.then)
        /\ job.then \in {"version", "idle", "guard"} /\ head = NoHead
    BY DEF Sweep, UpgradeInv, Typed, Phases, Headed
  <1>2. job'.pc = job.then /\ job'.new = job.new
    BY <1>1 DEF Goto, Jobs
  <1>3. ~ Uncommitted /\ ~ Uncommitted'
    BY <1>1 DEF Uncommitted
  <1>4. Exact' /\ SameOriginals
    BY <1>1, <1>3, LooseExact
  <1>5. Newer'
    <2>1. Forward' \/ job'.pc = "open" => Forward
      BY <1>1, <1>2 DEF Forward, Running, Ending
    <2> QED BY <1>1, <1>2, <2>1 DEF ExactInv, Newer, Recorded
  <1>6. Due' /\ Listed' /\ FirstStage' /\ Undone'
    BY <1>1, <1>2 DEF Due, Chosen, Listed, FirstStage, Staged, Undone, Restoring
  <1> QED BY <1>4, <1>5, <1>6 DEF ExactInv

\* A journal that holds nothing yet takes nothing back.
LEMMA OpenExact == ASSUME UpgradeInv, ExactInv, Open PROVE ExactInv' /\ SameOriginals
  <1>1. /\ UNCHANGED <<version, lines>> /\ UNCHANGED vault /\ job \in Jobs /\ job.pc = "open"
        /\ head' = <<job.old, job.new>> /\ job' = [job EXCEPT !.pc = "copy", !.backup = core]
        /\ job.old = version
    BY DEF Open, UpgradeInv, Typed, Phases
  <1>2. job'.pc = "copy" /\ job'.new = job.new
    BY <1>1 DEF Jobs
  <1>3. ~ Uncommitted /\ lines = <<>>
    BY <1>1 DEF UpgradeInv, Headed, Uncommitted
  <1>4. Len(lines') = 0 /\ \A s, p : ~ Covered(s, p)'
    BY <1>1, <1>3 DEF Captured, Covered
  <1>5. \A p : Original(p)' = vault[p] /\ Original(p) = vault[p]
    BY <1>1, <1>3, <1>4, NextRestoredIs, NextOriginalIs, OriginalIs
  <1>6. Before' = Recorded /\ Recorded' = Recorded
    BY <1>1, <1>4, NextRestoredIs DEF Before, Recorded
  <1>7. \A p \in Paths : vault[p].migs \subseteq Installed(Recorded, p)
    BY <1>1, <1>3 DEF ExactInv, Exact, Doing
  <1>8. \A p \in Paths : vault[p].migs \subseteq Base(p)'
    BY <1>1, <1>6, <1>7 DEF Base, Installed
  <1>9. \A p \in Paths : vault'[p].migs \subseteq Installed(Recorded \union Doing, p)'
    BY <1>1, <1>2, <1>6, <1>7 DEF Installed, Doing
  <1>10. Exact'
    BY <1>5, <1>6, <1>8, <1>9 DEF Exact
  <1>11. Newer'
    BY <1>1, <1>2, <1>6 DEF ExactInv, Newer
  <1>12. Due' /\ Listed' /\ FirstStage' /\ Undone'
    BY <1>2 DEF Due, Chosen, Listed, FirstStage, Staged, Undone, Restoring
  <1> QED BY <1>1, <1>5, <1>10, <1>11, <1>12 DEF ExactInv, SameOriginals

\* The process is killed: what is on disk is what counts, and a torn line does not.
LEMMA KillExact == ASSUME UpgradeInv, ExactInv, Kill PROVE ExactInv' /\ SameOriginals
  <1>1. /\ UNCHANGED <<version, head>> /\ UNCHANGED vault /\ Typed /\ job'.pc = "idle"
        /\ \/ lines' = lines
           \/ job.pc = "lines" /\ lines' = Append(lines, Torn)
    BY KillIs, NoRunIs DEF UpgradeInv
  <1>2. CASE lines' = lines
    BY <1>1, <1>2, ViewStays, IdleExact DEF SameView
  <1>3. CASE job.pc = "lines" /\ lines' = Append(lines, Torn)
    <2>1. \A s \in {"pre", "post"} : \A p : RestoredIn(s, p)' = RestoredIn(s, p) /\ (Covered(s, p)' <=> Covered(s, p))
      <3> TAKE s \in {"pre", "post"}
      <3> TAKE p
      <3>1. /\ Captured(s, p)' <=> Captured(s, p)
            /\ Captured(s, p) => First(s, p)' = First(s, p)
            /\ Covered(s, p)' <=> Covered(s, p)
        BY <1>1, <1>3, TornCaptures
      <3> QED BY <1>1, <3>1, RestoredIs, NextRestoredIs
    <2>2. Uncommitted /\ Uncommitted'
      BY <1>1, <1>3, RunIsUncommitted DEF Running, Uncommitted
    <2>3. \A p : Original(p)' = Original(p)
      BY <2>1, <2>2, OriginalIs, NextOriginalIs
    <2>4. \A p \in Paths : Base(p)' = Base(p)
      BY <1>1, <2>1 DEF Base, Before
    <2>5. ~ Forward'
      BY <1>1 DEF Forward, Running, Ending
    <2>6. Exact'
      BY <2>2, <2>3, <2>4, <2>5 DEF ExactInv, Exact
    <2>7. Due' /\ Listed' /\ FirstStage' /\ Newer' /\ Undone'
      BY <1>1, <2>5 DEF Due, Chosen, Listed, FirstStage, Newer, Staged, Undone, Restoring
    <2> QED BY <1>1, <2>3, <2>6, <2>7 DEF ExactInv, SameOriginals
  <1> QED BY <1>1, <1>2, <1>3

-----------------------------------------------------------------------------
(* Steps that write to a file the journal knows.                             *)

\* A restore does not look at a file that its stage covers.
LEMMA CoveredStays ==
    ASSUME UNCHANGED lines, NEW s, NEW p, Covered(s, p)
    PROVE  RestoredIn(s, p)' = RestoredIn(s, p)
  <1>1. /\ Captured(s, p)' <=> Captured(s, p)
        /\ First(s, p)' = First(s, p)
        /\ Covered(s, p)' <=> Covered(s, p)
    BY SameLines
  <1> QED BY <1>1, RestoredIs, NextRestoredIs

\* What is written to a file that a stage covers does not change what the next run makes of it.
LEMMA OriginalStays ==
    ASSUME UNCHANGED <<version, head, lines>>, Uncommitted, NEW p,
           vault'[p].migs = vault[p].migs \/ \E s \in {"pre", "post"} : Covered(s, p)
    PROVE  Original(p)'.migs = Original(p).migs
  <1>1. Uncommitted' /\ \A s : Covered(s, p)' <=> Covered(s, p)
    BY SameLines DEF Uncommitted
  <1>2. CASE vault'[p].migs = vault[p].migs
    BY <1>2, SameMigrations
  <1>3. CASE Covered("pre", p)
    BY <1>1, <1>3, CoveredStays, OriginalIs, NextOriginalIs
  <1>4. CASE ~ Covered("pre", p) /\ Covered("post", p)
    BY <1>1, <1>4, CoveredStays, OriginalIs, NextOriginalIs
  <1> QED BY <1>2, <1>3, <1>4

\* A file that is restored has what it would be restored to.
LEMMA RestoreFileExact == ASSUME UpgradeInv, ExactInv, NEW p \in Files, RestoreFile(p) PROVE ExactInv' /\ SameOriginals
  <1>1. /\ UNCHANGED <<version, head, lines>> /\ job.pc = "restore" /\ p \in job.plan /\ job \in Jobs /\ Typed
        /\ vault' = [vault EXCEPT ![p] = Wanted(p)] /\ job' = [job EXCEPT !.plan = job.plan \ {p}]
    BY DEF RestoreFile, UpgradeInv, Typed
  <1>2. job'.pc = "restore" /\ job'.stage = job.stage /\ job'.failed = job.failed
    BY <1>1 DEF Jobs
  <1>3. PICK s \in {"pre", "post"} : /\ Wanted(p) = RestoredIn(s, p)
                                     /\ job.stage = "pre" => s = "pre"
    <2>1. Wanted(p) = RestoredIn(IF job.stage = "ledger" THEN "pre" ELSE job.stage, p)
      BY DEF Wanted
    <2>2. (IF job.stage = "ledger" THEN "pre" ELSE job.stage) \in {"pre", "post"}
      BY <1>1 DEF Jobs
    <2> QED BY <2>1, <2>2
  <1>4. PICK w : w = RestoredIn(s, p)
    OBVIOUS
  <1>5. vault'[p] = w /\ \A q \in Files : q # p => vault'[q] = vault[q]
    BY <1>1, <1>3, <1>4 DEF Typed
  <1>6. ~ Covered(s, p) => w = vault[p]
    BY <1>4, RestoredIs
  <1>7. Uncommitted /\ Uncommitted'
    <2>1. Uncommitted
      BY <1>1 DEF UpgradeInv, Headed, Restoring
    <2> QED BY <1>1, <2>1 DEF Uncommitted
  <1>8. \A q \in Files : Original(q)'.migs = Original(q).migs
    <2> TAKE q \in Files
    <2>1. vault'[q].migs = vault[q].migs \/ \E t \in {"pre", "post"} : Covered(t, q)
      BY <1>5, <1>6
    <2> QED BY <1>1, <1>7, <2>1, OriginalStays
  <1>9. Before' = Before
    <2>1. CASE Covered("pre", Ledger)
      BY <1>1, <2>1, CoveredStays DEF Before
    <2>2. CASE ~ Covered("pre", Ledger)
      <3>1. ~ Covered("post", Ledger)
        BY Names DEF UpgradeInv, Journalled, Covered
      <3>2. vault'[Ledger] = vault[Ledger]
        BY <1>5, <1>6, <2>2, <3>1, Names
      <3>3. ~ Covered("pre", Ledger)'
        BY <1>1, <2>2, SameLines
      <3> QED BY <2>2, <3>2, <3>3, RestoredIs, NextRestoredIs DEF Before
    <2> QED BY <2>1, <2>2
  <1>10. ~ Forward'
    BY <1>2 DEF Forward, Running, Ending
  <1>11. Exact'
    <2>1. \A q \in Paths : Base(q)' = Base(q)
      BY <1>1, <1>9 DEF Base
    <2> QED BY <1>7, <1>8, <1>10, <2>1, Names DEF ExactInv, Exact
  <1>12. Undone'
    <2> SUFFICES ASSUME job.stage = "pre", NEW q \in Files, ~ Covered("pre", q), q \notin job.failed
                 PROVE  vault'[q].migs = RestoredIn("post", q)'.migs
      BY <1>1, <1>2, SameLines DEF Undone, Restoring
    <2>1. vault[q].migs = RestoredIn("post", q).migs
      BY <1>1 DEF ExactInv, Undone, Restoring
    <2>2. vault'[q] = vault[q]
      BY <1>3, <1>5, <1>6
    <2>3. RestoredIn("post", q)'.migs = RestoredIn("post", q).migs
      BY <1>1, <2>2, SameMigrations
    <2> QED BY <2>1, <2>2, <2>3
  <1>13. Due' /\ Listed' /\ FirstStage' /\ Newer'
    BY <1>2, <1>10 DEF Due, Chosen, Listed, FirstStage, Newer, Staged
  <1> QED BY <1>1, <1>8, <1>11, <1>12, <1>13 DEF ExactInv, SameOriginals

\* What the ledger is given belongs to the new version, and is in the files or was claimed for them.
LEMMA RecordExact ==
    ASSUME UpgradeInv, ExactInv, job.pc \in {"seed", "effects"}, job' = Goto("migrate"),
           UNCHANGED <<version, head, lines>>, NEW ms, ms \subseteq Migrations,
           \A p \in Paths : vault'[p].migs = vault[p].migs, Recorded' = Recorded \union ms,
           \A m \in ms : Ver[m] <= job.new, Doing \subseteq ms
    PROVE  ExactInv' /\ SameOriginals
  <1>1. job \in Jobs /\ Typed /\ Forward /\ Captured("pre", Ledger)
    BY DEF UpgradeInv, Typed, Forward, Running, LedgerAhead
  <1>2. /\ job'.pc = "migrate" /\ job'.stage = job.stage /\ job'.old = job.old /\ job'.new = job.new
    BY <1>1 DEF Goto, Jobs
  <1>3. Uncommitted /\ Uncommitted'
    <2>1. Uncommitted
      BY RunIsUncommitted DEF Running
    <2> QED BY <2>1 DEF Uncommitted
  <1>4. SameOriginals
    <2>1. Covered("pre", Ledger)
      BY <1>1 DEF Covered
    <2>2. \A p \in Files : vault'[p].migs = vault[p].migs \/ \E s \in {"pre", "post"} : Covered(s, p)
      BY <2>1 DEF Files
    <2> QED BY <1>3, <2>2, OriginalStays DEF SameOriginals
  <1>5. Before' = Before /\ \A p : Base(p)' = Base(p)
    <2>1. RestoredIn("pre", Ledger)' = RestoredIn("pre", Ledger)
      BY <1>1, CoveredStays DEF Covered
    <2> QED BY <2>1 DEF Before, Base
  <1>6. \A s, p : Captured(s, p)' <=> Captured(s, p)
    BY SameLines
  <1>7. Exact'
    <2>1. \A p \in Paths : Original(p)'.migs \subseteq Base(p)'
      BY <1>3, <1>4, <1>5, Names DEF ExactInv, Exact, SameOriginals
    <2>2. \A p \in Paths : vault'[p].migs \subseteq Installed(Recorded \union Doing, p)'
      <3>1. \A p \in Paths : vault[p].migs \subseteq Installed(Recorded \union Doing, p)
        BY <1>1 DEF ExactInv, Exact
      <3>2. Recorded \union Doing \subseteq Recorded'
        OBVIOUS
      <3> QED BY <3>1, <3>2 DEF Installed
    <2>3. Before' \subseteq Recorded' /\ Recorded' \subseteq Before' \union {m \in Migrations : Ver[m] <= job'.new}
      BY <1>1, <1>2, <1>3, <1>5 DEF ExactInv, Exact
    <2> QED BY <2>1, <2>2, <2>3 DEF Exact
  <1>8. Newer'
    BY <1>1, <1>2 DEF ExactInv, Newer
  <1>9. /\ Staged /\ Pending' \subseteq Pending
        /\ \A p \in Paths : Unlisted(p)' <=> Unlisted(p)
    <2>1. \A p : Captured(job.stage, p)' <=> Captured(job.stage, p)
      <3>1. PICK s : s = job.stage /\ s = job'.stage
        BY <1>2
      <3>2. \A p : Captured(job.stage, p)' <=> Captured(s, p)'
        BY <3>1 DEF Captured
      <3> QED BY <1>6, <3>1, <3>2
    <2>2. Staged /\ Pending' \subseteq Pending
      BY <1>2 DEF Staged, Pending
    <2> QED BY <2>1, <2>2 DEF Unlisted
  <1>10. Listed'
    <2>1. \A p \in Paths : Unlisted(p)' => \A d \in Pending' \cap Declared : p \notin Effects[d]
      BY <1>9 DEF ExactInv, Listed
    <2> QED BY <1>2, <2>1 DEF Listed
  <1>11. FirstStage'
    BY <1>2, <1>6, <1>9 DEF ExactInv, FirstStage
  <1>12. Due' /\ Undone'
    BY <1>2 DEF Due, Chosen, Undone, Restoring
  <1> QED BY <1>4, <1>7, <1>8, <1>10, <1>11, <1>12 DEF ExactInv

\* What the installed version implies is recorded.
LEMMA SeedExact == ASSUME UpgradeInv, ExactInv, Seed PROVE ExactInv' /\ SameOriginals
  <1> DEFINE old == {m \in Migrations : Stage[m] = job.stage /\ Ver[m] <= job.old}
  <1>1. /\ UNCHANGED <<version, head, lines>> /\ job.pc = "seed" /\ job' = Goto("migrate")
        /\ vault' = IF old \subseteq Recorded THEN vault ELSE Recording(old)
        /\ job \in Jobs /\ Typed /\ job.old = version
    BY DEF Seed, UpgradeInv, Typed, Phases
  <1>2. version <= job.new
    BY <1>1 DEF ExactInv, Newer, Forward, Running
  <1>3. \A m \in old : Ver[m] <= job.new
    BY <1>1, <1>2, Names DEF Jobs, Typed
  <1>4. old \subseteq Migrations
    OBVIOUS
  <1> HIDE DEF old
  <1>5. (\A p \in Paths : vault'[p].migs = vault[p].migs) /\ Recorded' = Recorded \union old
    <2>1. CASE old \subseteq Recorded
      BY <1>1, <2>1 DEF Recorded
    <2>2. CASE ~ (old \subseteq Recorded)
      <3>1. vault' = Recording(old)
        BY <1>1, <2>2
      <3>2. vault'[Ledger] = Bytes(vault[Ledger].edit, vault[Ledger].migs \union old)
            /\ \A p \in Paths : vault'[p] = vault[p]
        BY <1>1, <3>1, Names DEF Recording, Typed
      <3> QED BY <3>2 DEF Recorded, Bytes
    <2> QED BY <2>1, <2>2
  <1>6. Doing = {}
    BY <1>1 DEF Doing
  <1> QED BY <1>1, <1>3, <1>4, <1>5, <1>6, RecordExact

\* A migration that has been done is recorded.
LEMMA RecordResultExact == ASSUME UpgradeInv, ExactInv, RecordResult PROVE ExactInv' /\ SameOriginals
  <1>1. /\ UNCHANGED <<version, head, lines>> /\ job.pc = "effects" /\ job' = Goto("migrate")
        /\ vault' = Recording(job.mig) /\ job \in Jobs /\ Typed
    BY DEF RecordResult, UpgradeInv, Typed
  <1>2. PICK m \in Pending : job.mig = {m}
    BY <1>1 DEF ExactInv, Due, Chosen
  <1>3. job.mig \subseteq Migrations /\ \A n \in job.mig : Ver[n] <= job.new
    BY <1>2 DEF Pending
  <1>4. vault'[Ledger] = Bytes(vault[Ledger].edit, vault[Ledger].migs \union job.mig)
        /\ \A p \in Paths : vault'[p] = vault[p]
    BY <1>1, Names DEF Recording, Typed
  <1>5. Recorded' = Recorded \union job.mig
    BY <1>4 DEF Recorded, Bytes
  <1>6. Doing = job.mig
    BY <1>1 DEF Doing
  <1> QED BY <1>1, <1>3, <1>4, <1>5, <1>6, RecordExact

\* What a migration changes was captured before it, or its root was; and no later one of the
\* stage declares a file it creates.
LEMMA MigrateExact ==
    ASSUME Orderly, UpgradeInv, ExactInv, NEW p \in Files, Migrate(p)
    PROVE  ExactInv' /\ SameOriginals
  <1>1. /\ UNCHANGED <<version, head, lines>> /\ job.pc = "effects" /\ p \in job.left /\ job \in Jobs /\ Typed
        /\ vault' = [vault EXCEPT ![p] = Bytes(vault[p].edit, vault[p].migs \union job.mig)]
        /\ job' = [job EXCEPT !.left = job.left \ {p}] /\ Forward /\ job.stage \in {"pre", "post"}
    BY DEF Migrate, UpgradeInv, Typed, Forward, Running, Phases
  <1>2. /\ job'.pc = "effects" /\ job'.stage = job.stage /\ job'.old = job.old /\ job'.new = job.new
        /\ job'.mig = job.mig /\ job'.left = job.left \ {p}
    BY <1>1 DEF Jobs
  <1>3. PICK m \in Pending : /\ job.mig = {m} /\ \A n \in Pending : Ver[m] <= Ver[n]
                             /\ m \in Declared => \A q \in job.left : Captured(job.stage, q)
                             /\ m \notin Declared => Captured(job.stage, Root)
    BY <1>1 DEF ExactInv, Due, Chosen, Planned
  <1>4. m \in Migrations /\ p \in Effects[m] /\ p \in Paths /\ p # Ledger
    BY <1>1, <1>3, Names DEF UpgradeInv, Headway, Pending
  <1>5. vault'[p].migs = vault[p].migs \union {m} /\ \A q \in Files : q # p => vault'[q] = vault[q]
    BY <1>1, <1>3 DEF Bytes, Typed
  <1>6. \E s \in {"pre", "post"} : Covered(s, p)
    BY <1>1, <1>3, <1>4 DEF Covered
  <1>7. Uncommitted /\ Uncommitted'
    <2>1. Uncommitted
      BY <1>1, RunIsUncommitted DEF Running
    <2> QED BY <1>1, <2>1 DEF Uncommitted
  <1>8. SameOriginals
    <2>1. \A q \in Files : vault'[q].migs = vault[q].migs \/ \E s \in {"pre", "post"} : Covered(s, q)
      BY <1>5, <1>6
    <2> QED BY <1>1, <1>7, <2>1, OriginalStays DEF SameOriginals
  <1>9. Before' = Before /\ Recorded' = Recorded /\ \A q : Base(q)' = Base(q)
    <2>1. vault'[Ledger] = vault[Ledger]
      BY <1>4, <1>5, Names
    <2>2. RestoredIn("pre", Ledger)'.migs = RestoredIn("pre", Ledger).migs
      BY <1>1, <2>1, SameMigrations
    <2> QED BY <1>1, <2>1, <2>2 DEF Before, Base, Recorded
  <1>10. Exact'
    <2>1. \A q \in Paths : Original(q)'.migs \subseteq Base(q)'
      BY <1>7, <1>8, <1>9, Names DEF ExactInv, Exact, SameOriginals
    <2>2. \A q \in Paths : vault'[q].migs \subseteq Installed(Recorded \union Doing, q)'
      <3>1. \A q \in Paths : vault[q].migs \subseteq Installed(Recorded \union {m}, q)
        BY <1>1, <1>3 DEF ExactInv, Exact, Doing
      <3>2. m \in Installed(Recorded \union {m}, p)
        BY <1>4 DEF Installed
      <3>3. Doing' = {m}
        BY <1>2, <1>3 DEF Doing
      <3>4. \A q : Installed(Recorded \union Doing, q)' = Installed(Recorded \union {m}, q)
        BY <1>1, <1>9, <3>3 DEF Installed
      <3>5. \A q \in Paths : vault'[q].migs \subseteq Installed(Recorded \union {m}, q)
        BY <1>5, <3>1, <3>2, Names
      <3> QED BY <3>4, <3>5
    <2>3. Before' \subseteq Recorded' /\ Recorded' \subseteq Before' \union {n \in Migrations : Ver[n] <= job'.new}
      BY <1>1, <1>2, <1>7, <1>9 DEF ExactInv, Exact
    <2> QED BY <2>1, <2>2, <2>3 DEF Exact
  <1>11. Newer'
    BY <1>1, <1>2, <1>9 DEF ExactInv, Newer
  <1>12. \A q : Captured(job.stage, q)' <=> Captured(job.stage, q)
    <2>1. PICK s : s = job.stage /\ s = job'.stage
      BY <1>2
    <2>2. \A q : Captured(job.stage, q)' <=> Captured(s, q)'
      BY <2>1 DEF Captured
    <2> QED BY <1>1, <2>1, <2>2, SameLines
  <1>13. Pending' = Pending
    BY <1>2, <1>9 DEF Pending
  <1>14. Due'
    BY <1>2, <1>3, <1>12, <1>13 DEF Due
  <1>15. Listed'
    <2> SUFFICES ASSUME NEW q \in Paths, Unlisted(q)', NEW d \in Pending \cap Declared, q \in Effects[d]
                 PROVE  FALSE
      BY <1>2, <1>13 DEF Listed
    <2>1. CASE q # p
      <3>1. Unlisted(q)
        BY <1>5, <1>12, <2>1, Names DEF Unlisted
      <3> QED BY <1>1, <3>1 DEF ExactInv, Listed, Staged
    <2>2. CASE q = p
      <3>1. m \notin Declared
        BY <1>1, <1>3, <1>12, <2>2 DEF Unlisted
      <3>2. Stage[m] = Stage[d] /\ Effects[m] \cap Effects[d] # {} /\ m \in Migrations \ Declared
        BY <1>3, <1>4, <2>2, <3>1 DEF Pending
      <3>3. version \in Versions /\ version < Ver[m]
        BY <1>1, <1>3 DEF UpgradeInv, Typed, Phases, Pending
      <3>4. Ver[d] < Ver[m]
        BY <3>2, <3>3 DEF Orderly
      <3>5. Ver[m] <= Ver[d] /\ Ver[m] \in Nat /\ Ver[d] \in Nat
        BY <1>3, Names DEF Pending
      <3> QED BY <3>4, <3>5
    <2> QED BY <2>1, <2>2
  <1>16. FirstStage'
    BY <1>1, <1>2, SameLines DEF ExactInv, FirstStage, Staged
  <1>17. Undone'
    BY <1>2 DEF Undone, Restoring
  <1> QED BY <1>8, <1>10, <1>11, <1>14, <1>15, <1>16, <1>17 DEF ExactInv

-----------------------------------------------------------------------------
(* A line is written.                                                        *)

\* A capture that goes on as planned changes nothing of what a restore of its stage would make
\* of the files, and the second stage is not begun before the first is over.
LEMMA LineView ==
    ASSUME UpgradeInv, ExactInv, WriteLine, NEW l \in Entries, lines' = Append(lines, l),
           l = job.todo[1], 1 \in 1 .. Len(job.todo), l.stage = job.stage,
           l.path \in Files => l.was.migs = vault[l.path].migs,
           l.path = Root => /\ l.was = Absent
                            /\ \A p \in Paths : vault[p].migs = {} \/ Captured(l.stage, p)
    PROVE  /\ \A s \in {"pre", "post"} : \A p : Captured(s, p)' <=> Captured(s, p) \/ (l.stage = s /\ l.path = p)
           /\ \A s \in {"pre", "post"}, p \in Files : RestoredIn(s, p)'.migs = RestoredIn(s, p).migs
           /\ \A p \in Paths : Unlisted(p) => l.path # p
  <1>1. /\ UNCHANGED version /\ UNCHANGED vault /\ job.pc = "lines" /\ Typed /\ l \in Entries \union {Torn}
        /\ job.stage \in {"pre", "post"}
    BY DEF WriteLine, UpgradeInv, Phases
  <1>2. \A s \in {"pre", "post"} : \A p :
           /\ Captured(s, p)' <=> Captured(s, p) \/ (l.stage = s /\ l.path = p)
           /\ Captured(s, p) => First(s, p)' = First(s, p)
           /\ ~ Captured(s, p) /\ l.stage = s /\ l.path = p => First(s, p)' = l.was
    BY <1>1, AppendCaptures
  <1>3. \A p \in Paths : Unlisted(p) => l.path # p
    BY <1>1 DEF ExactInv, Listed
  <1>4. ASSUME NEW s \in {"pre", "post"}, NEW p \in Files
        PROVE  RestoredIn(s, p)'.migs = RestoredIn(s, p).migs
    <2>1. CASE Captured(s, p)
      BY <1>2, <2>1, RestoredIs, NextRestoredIs
    <2>2. CASE ~ Captured(s, p) /\ l.stage = s /\ l.path = p
      <3>1. RestoredIn(s, p)'.migs = vault[p].migs
        BY <1>2, <2>2, NextRestoredIs
      <3>2. CASE Covered(s, p)
        <4>1. p \in Paths /\ Captured(s, Root)
          BY <2>2, <3>2 DEF Covered
        <4>2. vault[p].migs = {}
          BY <1>3, <2>2, <4>1 DEF Unlisted
        <4>3. RestoredIn(s, p) = Absent
          BY <2>2, <3>2, RestoredIs
        <4> QED BY <3>1, <4>2, <4>3, Names
      <3>3. CASE ~ Covered(s, p)
        BY <3>1, <3>3, RestoredIs
      <3> QED BY <3>2, <3>3
    <2>3. CASE ~ Captured(s, p) /\ ~ (l.stage = s /\ l.path = p) /\ l.stage = s /\ l.path = Root /\ p \in Paths
      <3>1. ~ Captured(s, p)' /\ Covered(s, p)'
        BY <1>2, <2>3 DEF Covered
      <3>2. RestoredIn(s, p)' = Absent
        BY <3>1, NextRestoredIs
      <3>3. vault[p].migs = {}
        BY <2>3
      <3>4. RestoredIn(s, p).migs = {}
        BY <2>3, <3>3, RestoredIs, Names
      <3> QED BY <3>2, <3>4, Names
    <2>4. CASE ~ Captured(s, p) /\ ~ (l.stage = s /\ l.path = p) /\ ~ (l.stage = s /\ l.path = Root /\ p \in Paths)
      <3>1. ~ Captured(s, p)' /\ (Covered(s, p)' <=> Covered(s, p))
        BY <1>2, <2>4 DEF Covered
      <3> QED BY <1>1, <2>4, <3>1, RestoredIs, NextRestoredIs
    <2> QED BY <2>1, <2>2, <2>3, <2>4
  <1> QED BY <1>2, <1>3, <1>4

\* A file is taken into the journal as the next run would have it.
LEMMA LineExact == ASSUME UpgradeInv, ExactInv, WriteLine, job.todo # <<>> PROVE ExactInv' /\ SameOriginals
  <1>1. /\ UNCHANGED <<version, head>> /\ UNCHANGED vault /\ job.pc = "lines" /\ job \in Jobs
        /\ job' = [job EXCEPT !.todo = Tail(job.todo)]
        /\ job.stage \in {"pre", "post"} /\ Forward /\ Staged
    BY DEF WriteLine, UpgradeInv, Typed, Phases, Forward, Running, Staged
  <1>2. /\ job'.pc = "lines" /\ job'.then = job.then /\ job'.stage = job.stage
        /\ job'.old = job.old /\ job'.new = job.new /\ job'.mig = job.mig /\ job'.left = job.left
        /\ job'.todo = Tail(job.todo)
    BY <1>1 DEF Jobs
  <1>3. PICK todo : todo = job.todo
    OBVIOUS
  <1>4. /\ Len(todo) \in Nat /\ 1 \in 1 .. Len(todo) /\ Len(Tail(todo)) = Len(todo) - 1
        /\ \A i \in 1 .. Len(Tail(todo)) : Tail(todo)[i] = todo[i + 1] /\ i + 1 \in 1 .. Len(todo)
    <2>1. todo \in Seq(Entries) /\ todo # <<>>
      BY <1>1, <1>3 DEF Jobs
    <2> QED BY ONLY <2>1
  <1>5. PICK l \in Entries :
             /\ lines' = Append(lines, l) /\ l = job.todo[1] /\ l.stage = job.stage
             /\ l.path \in Files => l.was.migs = vault[l.path].migs
             /\ l.path = Root => /\ l.was = Absent
                                 /\ \A p \in Paths : vault[p].migs = {} \/ Captured(l.stage, p)
    BY LineIs
  <1>6. /\ \A s \in {"pre", "post"} : \A p : Captured(s, p)' <=> Captured(s, p) \/ (l.stage = s /\ l.path = p)
        /\ \A s \in {"pre", "post"}, p \in Files : RestoredIn(s, p)'.migs = RestoredIn(s, p).migs
        /\ \A p \in Paths : Unlisted(p) => l.path # p
    BY <1>3, <1>4, <1>5, LineView
  <1>7. Uncommitted /\ Uncommitted'
    <2>1. Uncommitted
      BY <1>1, RunIsUncommitted DEF Running
    <2> QED BY <1>1, <2>1 DEF Uncommitted
  <1>8. SameOriginals
    <2> SUFFICES ASSUME NEW p \in Files PROVE Original(p)'.migs = Original(p).migs
      BY <1>1 DEF SameOriginals
    <2>1. CASE Covered("pre", p)' <=> Covered("pre", p)
      BY <1>6, <1>7, <2>1, OriginalIs, NextOriginalIs
    <2>2. CASE ~ (Covered("pre", p)' <=> Covered("pre", p))
      <3>1. l.stage = "pre" /\ ~ Covered("pre", p) /\ Covered("pre", p)'
        BY <1>6, <2>2 DEF Covered
      <3>2. ~ Covered("post", p)
        BY <1>1, <1>5, <3>1 DEF ExactInv, FirstStage, Covered
      <3>3. Original(p) = vault[p] /\ RestoredIn("pre", p) = vault[p]
        BY <1>7, <3>1, <3>2, OriginalIs, RestoredIs
      <3>4. Original(p)' = RestoredIn("pre", p)'
        BY <1>7, <3>1, NextOriginalIs
      <3> QED BY <1>6, <3>3, <3>4
    <2> QED BY <2>1, <2>2
  <1>9. Before' = Before /\ Recorded' = Recorded /\ \A p : Base(p)' = Base(p)
    BY <1>1, <1>6, Names DEF Before, Recorded, Base
  <1>10. Exact'
    <2>1. \A p \in Paths : Original(p)'.migs \subseteq Base(p)'
      BY <1>7, <1>8, <1>9, Names DEF ExactInv, Exact, SameOriginals
    <2>2. \A p \in Paths : vault'[p].migs \subseteq Installed(Recorded \union Doing, p)'
      <3>1. \A p \in Paths : vault[p].migs \subseteq Installed(Recorded \union Doing, p)
        BY <1>1 DEF ExactInv, Exact
      <3>2. Doing = {} /\ Doing' = {}
        BY <1>1, <1>2 DEF Doing
      <3> QED BY <1>1, <1>9, <3>1, <3>2 DEF Installed
    <2>3. Before' \subseteq Recorded' /\ Recorded' \subseteq Before' \union {m \in Migrations : Ver[m] <= job'.new}
      BY <1>1, <1>2, <1>7, <1>9 DEF ExactInv, Exact
    <2> QED BY <2>1, <2>2, <2>3 DEF Exact
  <1>11. Newer'
    BY <1>1, <1>2, <1>9 DEF ExactInv, Newer
  <1>12. \A p : Captured(job.stage, p)' <=> Captured(job.stage, p) \/ l.path = p
    <2>1. PICK s \in {"pre", "post"} : s = job.stage /\ s = job'.stage
      BY <1>1, <1>2
    <2>2. \A p : Captured(job.stage, p)' <=> Captured(s, p)'
      BY <2>1 DEF Captured
    <2> QED BY <1>5, <1>6, <2>1, <2>2
  <1>13. Pending' = Pending
    BY <1>2, <1>9 DEF Pending
  <1>14. \A p : Planned(p) => Planned(p)' \/ l.path = p
    <2> SUFFICES ASSUME NEW p, NEW i \in 1 .. Len(todo), todo[i].path = p, l.path # p
                 PROVE  \E j \in 1 .. Len(Tail(todo)) : Tail(todo)[j].path = p
      BY <1>2, <1>3 DEF Planned
    <2>1. i # 1
      BY <1>3, <1>5
    <2>2. i - 1 \in 1 .. Len(Tail(todo)) /\ (i - 1) + 1 = i
      BY <1>4, <2>1
    <2> QED BY <1>4, <2>2
  <1>15. Due'
    <2>1. Chosen' <=> Chosen
      BY <1>1, <1>2 DEF Chosen
    <2>2. \A p : Captured(job.stage, p) \/ Planned(p) => Captured(job.stage, p)' \/ Planned(p)'
      BY <1>12, <1>14
    <2> QED BY <1>2, <1>13, <2>1, <2>2 DEF ExactInv, Due
  <1>16. \A p \in Paths : Unlisted(p)' => Unlisted(p)
    BY <1>1, <1>5, <1>12 DEF Unlisted
  <1>17. Listed'
    <2>1. \A p \in Paths : Unlisted(p)' => \A d \in Pending' \cap Declared : p \notin Effects[d]
      BY <1>1, <1>13, <1>16 DEF ExactInv, Listed
    <2>2. \A i \in 1 .. Len(todo) : todo[i].path \in Paths => ~ Unlisted(todo[i].path)
      BY <1>1, <1>3 DEF ExactInv, Listed
    <2>3. \A i \in 1 .. Len(Tail(todo)) : Tail(todo)[i].path \in Paths => ~ Unlisted(Tail(todo)[i].path)'
      BY <1>4, <1>16, <2>2
    <2> QED BY <1>2, <1>3, <2>1, <2>3 DEF Listed
  <1>18. FirstStage'
    BY <1>1, <1>2, <1>5, <1>6 DEF ExactInv, FirstStage
  <1>19. Undone'
    BY <1>2 DEF Undone, Restoring
  <1> QED BY <1>8, <1>10, <1>11, <1>15, <1>17, <1>18, <1>19 DEF ExactInv

-----------------------------------------------------------------------------
(* The steps that close the journal or write VERSION: nothing, or all of it. *)

\* The ledger is restored in the first stage.
LEMMA OriginalLedger == ASSUME UpgradeInv, Uncommitted PROVE Original(Ledger).migs = Before
  <1>1. ~ Covered("post", Ledger)
    BY Names DEF UpgradeInv, Journalled, Covered
  <1> QED BY <1>1, OriginalIs, RestoredIs DEF Before

\* A step of the promise, told in terms of what the next run will make of the files.
LEMMA UpgradesTo ==
    ASSUME NEW w \in Versions, version <= w, \A m \in Original(Ledger).migs : Ver[m] <= w, version' \in {version, w},
           version \in Nat,
           \A p \in Paths : Original(p)'.migs = Original(p).migs \union
              {m \in Migrations : /\ version < Ver[m] /\ Ver[m] <= w /\ m \notin Original(Ledger).migs
                                  /\ p \in Effects[m]},
           Original(Ledger)'.migs = Original(Ledger).migs \union {m \in Migrations : Ver[m] <= w}
    PROVE  Promise!Next
  <1>1. w >= version
    BY Names
  <1>2. \A p \in Paths : Original(p)'.migs = Original(p).migs \union {m \in Promise!Owed(w) : p \in Effects[m]}
    BY DEF Promise!Owed
  <1>3. [p \in Paths |-> Original(p).migs]' = [p \in Paths |-> [q \in Paths |-> Original(q).migs][p]
                                                  \union {m \in Promise!Owed(w) : p \in Effects[m]}]
    BY <1>2
  <1>4. Promise!Upgrade(w)
    BY <1>1, <1>3 DEF Promise!Upgrade
  <1> QED BY <1>4 DEF Promise!Next

\* The run that commits has done what it owes, and nothing else.
LEMMA CommitIs ==
    ASSUME UpgradeInv, ExactInv, job.pc \in Ending, job.then = "version", Uncommitted, ~ Uncommitted',
           UNCHANGED vault, version' \in {version, job.new}
    PROVE  Promise!Next
  <1>1. /\ Forward /\ Behind /\ Typed /\ job.new \in Versions /\ version \in Nat /\ job.new \in Nat
        /\ Owing("pre") \union Owing("post") \subseteq Recorded
    BY Names DEF Forward, UpgradeInv, Typed, Phases, Preserved, Headway, Ending
  <1>2. version <= job.new /\ \A m \in Recorded : Ver[m] <= job.new
    BY <1>1 DEF ExactInv, Newer
  <1>3. \A m \in Migrations : Ver[m] <= job.new => m \in Recorded
    BY <1>1, Names DEF Owing
  <1>4. Before \subseteq Recorded /\ Recorded \subseteq Before \union {m \in Migrations : Ver[m] <= job.new}
    BY <1>1 DEF ExactInv, Exact
  <1>5. Original(Ledger).migs = Before /\ Original(Ledger)'.migs = Recorded
    BY OriginalLedger, NextOriginalIs DEF Recorded
  <1>6. \A m \in Migrations : Ver[m] \in Nat
    BY Names
  <1>7. ASSUME NEW p \in Paths
        PROVE  Original(p)'.migs = Original(p).migs \union
                  {m \in Migrations : /\ version < Ver[m] /\ Ver[m] <= job.new /\ m \notin Before
                                      /\ p \in Effects[m]}
    <2>1. p \in Files /\ Original(p)' = vault[p]
      BY Names, NextOriginalIs
    <2>2. Original(p).migs = Base(p)
      <3>1. Original(p).migs \subseteq Base(p)
        BY DEF ExactInv, Exact
      <3>2. Base(p) \subseteq RestoredIn("pre", p).migs /\ Base(p) \subseteq RestoredIn("post", p).migs
        BY DEF UpgradeInv, Preserved, Safe
      <3> QED BY <3>1, <3>2, OriginalIs
    <2>3. vault[p].migs = Installed(Recorded, p)
      <3>1. vault[p].migs \subseteq Installed(Recorded, p)
        <4>1. Doing = {}
          BY DEF Doing, Ending
        <4> QED BY <1>1, <4>1 DEF ExactInv, Exact
      <3>2. VersionWitnesses
        BY DEF UpgradeInv, Preserved, Safe
      <3> QED BY <1>1, <3>1, <3>2 DEF Installed, Behind, VersionWitnesses
    <2>4. Installed(Recorded, p) = Base(p) \union
             {m \in Migrations : version < Ver[m] /\ Ver[m] <= job.new /\ m \notin Before /\ p \in Effects[m]}
      BY <1>1, <1>2, <1>3, <1>4, <1>6 DEF Installed, Base
    <2> QED BY <2>1, <2>2, <2>3, <2>4
  <1>8. Recorded = Before \union {m \in Migrations : Ver[m] <= job.new}
    BY <1>3, <1>4
  <1> QED BY <1>1, <1>2, <1>4, <1>5, <1>7, <1>8, UpgradesTo

\* Closing the journal is what commits the run, or is the end of its restore.
LEMMA DiscardExact == ASSUME UpgradeInv, ExactInv, Discard PROVE ExactInv' /\ (SameOriginals \/ Promise!Next)
  <1>1. /\ UNCHANGED version /\ UNCHANGED vault /\ job \in Jobs /\ job.pc = "discard" /\ head' = NoHead
        /\ job' = Goto("sweep") /\ job.then \in {"version", "idle", "guard"} /\ Typed
    BY DEF Discard, UpgradeInv, Typed, Phases
  <1>2. job'.pc = "sweep" /\ job'.then = job.then /\ job'.new = job.new
    BY <1>1 DEF Goto, Jobs
  <1>3. ~ Uncommitted' /\ \A p : Original(p)' = vault[p]
    BY <1>1, NextOriginalIs DEF Uncommitted
  <1>4. job.then # "version" => \A p \in Files : vault[p].migs = Original(p).migs
    <2>1. CASE Uncommitted
      BY <1>1, <2>1 DEF ExactInv, Undone
    <2>2. CASE ~ Uncommitted
      BY <2>2, OriginalIs
    <2> QED BY <2>1, <2>2
  <1>5. SameOriginals \/ Promise!Next
    <2>1. CASE job.then = "version" /\ Uncommitted
      BY <1>1, <1>3, <2>1, CommitIs DEF Ending
    <2>2. CASE ~ Uncommitted
      BY <1>1, <1>3, <2>2, LooseExact
    <2>3. CASE job.then # "version"
      BY <1>1, <1>3, <1>4, <2>3 DEF SameOriginals
    <2> QED BY <2>1, <2>2, <2>3
  <1>6. Exact'
    <2>1. CASE ~ Uncommitted
      BY <1>1, <1>3, <2>1, LooseExact
    <2>2. CASE Uncommitted
      <3>1. \A p \in Paths : vault[p].migs \subseteq Installed(Recorded, p)
        <4>1. CASE job.then = "version"
          BY <1>1, <4>1 DEF ExactInv, Exact, Forward, Ending, Doing
        <4>2. CASE job.then # "version"
          <5>1. Recorded = Before
            BY <1>4, <2>2, <4>2, OriginalLedger, Names DEF Recorded
          <5>2. \A p \in Paths : vault[p].migs \subseteq Base(p)
            BY <1>4, <2>2, <4>2, Names DEF ExactInv, Exact
          <5> QED BY <5>1, <5>2 DEF Base, Installed
        <4> QED BY <4>1, <4>2
      <3>2. \A p \in Paths : vault'[p].migs \subseteq Installed(Recorded \union Doing, p)'
        BY <1>1, <3>1 DEF Installed, Recorded
      <3> QED BY <1>3, <3>2 DEF Exact
    <2> QED BY <2>1, <2>2
  <1>7. Newer'
    <2>1. Forward' \/ job'.pc = "open" => Forward
      BY <1>1, <1>2 DEF Forward, Running, Ending
    <2> QED BY <1>1, <1>2, <2>1 DEF ExactInv, Newer, Recorded
  <1>8. Due' /\ Listed' /\ FirstStage' /\ Undone'
    BY <1>2 DEF Due, Chosen, Listed, FirstStage, Staged, Undone, Restoring
  <1> QED BY <1>5, <1>6, <1>7, <1>8 DEF ExactInv

\* VERSION follows the content; where the journal could not be closed it is what commits the run.
LEMMA WriteVersionExact == ASSUME UpgradeInv, ExactInv, WriteVersion PROVE ExactInv' /\ (SameOriginals \/ Promise!Next)
  <1>1. /\ UNCHANGED <<head, lines>> /\ UNCHANGED vault /\ job \in Jobs /\ job.pc = "version" /\ version' = job.new
        /\ job' = NoRun /\ job'.pc = "idle" /\ job.then = "version" /\ job.old = version
        /\ head \in {NoHead, <<job.old, job.new>>} /\ Typed /\ job.new \in Versions
    BY NoRunIs DEF WriteVersion, UpgradeInv, Typed, Phases, Headed
  <1>2. Forward /\ version \in Nat /\ job.new \in Nat
    BY <1>1, Names DEF Forward, Ending, Typed
  <1>3. version <= job.new /\ \A m \in Recorded : Ver[m] <= job.new
    BY <1>2 DEF ExactInv, Newer
  <1>4. ~ Forward'
    BY <1>1 DEF Forward, Running, Ending
  <1>5. CASE version' = version
    BY <1>1, <1>5, ViewStays, IdleExact DEF SameView
  <1>6. CASE version' # version
    <2>1. ~ Uncommitted'
      <3>1. head = <<job.old, job.new>> => head[1] = job.old
        OBVIOUS
      <3> QED BY <1>1, <1>6, <3>1 DEF Uncommitted
    <2>2. Promise!Next
      <3>1. CASE Uncommitted
        BY <1>1, <2>1, <3>1, CommitIs DEF Ending
      <3>2. CASE ~ Uncommitted
        <4>1. \A p : Original(p)' = vault[p] /\ Original(p) = vault[p]
          BY <1>1, <2>1, <3>2, OriginalIs, NextOriginalIs
        <4>2. \A m \in Migrations : Ver[m] <= job.new => m \in Original(Ledger).migs
          BY <1>1, <4>1, Names DEF UpgradeInv, Headway, Ending, Owing, Recorded
        <4>3. \A m \in Original(Ledger).migs : Ver[m] <= job.new
          BY <1>3, <4>1 DEF Recorded
        <4> QED BY <1>1, <1>2, <1>3, <4>1, <4>2, <4>3, UpgradesTo
      <3> QED BY <3>1, <3>2
    <2>3. Exact'
      <3>1. \A p \in Paths : vault[p].migs \subseteq Installed(Recorded, p)
        BY <1>1, <1>2 DEF ExactInv, Exact, Doing
      <3>2. \A m \in Migrations : Ver[m] \in Nat
        BY Names
      <3>3. \A m \in Migrations : Ver[m] <= version => Ver[m] <= job.new
        BY <1>2, <1>3, <3>2
      <3>4. \A p \in Paths : vault'[p].migs \subseteq Installed(Recorded \union Doing, p)'
        BY <1>1, <3>1, <3>3 DEF Installed, Recorded
      <3> QED BY <1>4, <2>1, <3>4 DEF Exact
    <2>4. Due' /\ Listed' /\ FirstStage' /\ Newer' /\ Undone'
      BY <1>1, <1>4 DEF Due, Chosen, Listed, FirstStage, Newer, Staged, Undone, Restoring
    <2> QED BY <2>2, <2>3, <2>4 DEF ExactInv
  <1> QED BY <1>5, <1>6

-----------------------------------------------------------------------------
(* The refinement.                                                           *)

\* A vault of a version has its migrations, and no run.
LEMMA ExactInit == UpgradeInit => ExactInv /\ Promise!Init
  <1> SUFFICES ASSUME UpgradeInit PROVE ExactInv /\ Promise!Init
    OBVIOUS
  <1>1. UpgradeInv
    BY UpgradeInitInv
  <1>2. PICK v \in Versions, there \in SUBSET Paths :
          /\ version = v
          /\ vault = [p \in Files |->
               LET ms == {m \in Migrations : Ver[m] <= v /\ p \in Effects[m]}
               IN IF ms # {} \/ p \in there THEN Bytes(0, ms) ELSE Absent]
    BY DEF UpgradeInit
  <1>3. head = NoHead /\ job.pc = "idle"
    BY NoRunIs DEF UpgradeInit
  <1> DEFINE Ms(p) == {m \in Migrations : Ver[m] <= v /\ p \in Effects[m]}
  <1>4. \A p \in Files : vault[p].migs = Ms(p)
    <2> TAKE p \in Files
    <2>1. vault[p] = IF Ms(p) # {} \/ p \in there THEN Bytes(0, Ms(p)) ELSE Absent
      BY <1>2
    <2>2. PICK ms : ms = Ms(p)
      OBVIOUS
    <2>3. vault[p] = IF ms # {} \/ p \in there THEN Bytes(0, ms) ELSE Absent
      BY <2>1, <2>2
    <2>4. Bytes(0, ms).migs = ms
      BY DEF Bytes
    <2> QED BY <2>2, <2>3, <2>4, Names
  <1>5. ~ Uncommitted /\ \A p : Original(p) = vault[p]
    BY <1>3, OriginalIs DEF Uncommitted
  <1>6. ~ Forward
    BY <1>3 DEF Forward, Running, Ending
  <1>7. Exact
    <2>1. \A p \in Paths : Ms(p) \subseteq Installed(Recorded \union Doing, p)
      BY <1>2 DEF Installed
    <2> QED BY <1>4, <1>5, <1>6, <2>1, Names DEF Exact
  <1>8. Due /\ Listed /\ FirstStage /\ Newer /\ Undone
    BY <1>3, <1>6 DEF Due, Chosen, Listed, FirstStage, Newer, Staged, Undone, Restoring
  <1>9. Promise!Init
    <2>1. [p \in Paths |-> Original(p).migs] = [p \in Paths |-> {m \in Migrations : Ver[m] <= v /\ p \in Effects[m]}]
      BY <1>4, <1>5, Names
    <2>2. Original(Ledger).migs = {}
      <3>1. \A m \in Migrations : Ledger \notin Effects[m]
        BY Names
      <3> QED BY <1>4, <1>5, <3>1, Names
    <2> QED BY <1>2, <2>1, <2>2 DEF Promise!Init
  <1> QED BY <1>7, <1>8, <1>9 DEF ExactInv

\* Every step of the run, of a restore, of the user and of what goes wrong is a step of the
\* promise or changes nothing of it.
LEMMA ExactNext == ASSUME Orderly, UpgradeInv, ExactInv, [UpgradeNext]_upgradeVars
                   PROVE  ExactInv' /\ (SameOriginals \/ Promise!Next)
  <1>1. CASE WriteLine
    BY <1>1, WrittenExact, LineExact
  <1>2. ASSUME NEW p \in Files, Migrate(p) PROVE ExactInv' /\ SameOriginals
    BY <1>2, MigrateExact
  <1>3. ASSUME NEW p \in Files, RestoreFile(p) PROVE ExactInv' /\ SameOriginals
    BY <1>3, RestoreFileExact
  <1>4. ASSUME NEW p \in Files, RestoreFails(p) PROVE ExactInv' /\ SameOriginals
    BY <1>4, RestoreFailsExact
  <1>5. ASSUME NEW m \in Migrations, Prepare(m) PROVE ExactInv' /\ SameOriginals
    BY <1>5, PrepareExact
  <1>6. ASSUME NEW w \in Versions, NEW force \in BOOLEAN, Start(w, force) PROVE ExactInv' /\ SameOriginals
    BY <1>6, StartExact
  <1>7. CASE Recover
    BY <1>7, RecoverExact
  <1>8. CASE Guard
    BY <1>8, GuardExact
  <1>9. CASE Open
    BY <1>9, OpenExact
  <1>10. CASE Copied
    BY <1>10, CopiedExact
  <1>11. CASE WriteBlob
    BY <1>11, WriteBlobExact
  <1>12. CASE Seed
    BY <1>12, SeedExact
  <1>13. CASE RecordResult
    BY <1>13, RecordResultExact
  <1>14. CASE EndStage
    BY <1>14, EndStageExact
  <1>15. CASE Cutover
    BY <1>15, CutoverExact
  <1>16. CASE Discard
    BY <1>16, DiscardExact
  <1>17. CASE Sweep
    BY <1>17, SweepExact
  <1>18. CASE WriteVersion
    BY <1>18, WriteVersionExact
  <1>19. CASE PlanRestore
    BY <1>19, PlanRestoreExact
  <1>20. CASE Verify
    BY <1>20, VerifyExact
  <1>21. CASE EndRollback
    BY <1>21, EndRollbackExact
  <1>22. CASE Refuse
    BY <1>22, RefuseExact
  <1>23. CASE DiscardFails
    BY <1>23, DiscardFailsExact
  <1>24. CASE VersionFails
    BY <1>24, VersionFailsExact
  <1>25. CASE Fail
    BY <1>25, FailExact
  <1>26. CASE Kill
    BY <1>26, KillExact
  <1>27. CASE (\E f \in CoreFiles : Copy(f) \/ RestoreCore(f)) \/ (\E p \in Paths : Edit(p)) \/ UNCHANGED upgradeVars
    BY <1>27, StillExact
  <1> QED
    BY <1>1, <1>2, <1>3, <1>4, <1>5, <1>6, <1>7, <1>8, <1>9, <1>10, <1>11, <1>12, <1>13, <1>14, <1>15,
       <1>16, <1>17, <1>18, <1>19, <1>20, <1>21, <1>22, <1>23, <1>24, <1>25, <1>26, <1>27
    DEF UpgradeNext, Step

\* An upgrade happens whole or not at all, whatever version is asked for and wherever it is
\* killed, fails, is restored or is edited: what the next run will make of the files changes in
\* one step, the one that closes the journal or, where that failed, writes VERSION (_commit,
\* _recover_leftover_journal, restore_journal).  It needs the migrations of a stage to be in
\* order: see Orderly.
THEOREM UpgradeIsAllOrNothing == ASSUME Orderly PROVE UpgradeSpec => ImplementsAllOrNothing
  <1>1. UpgradeInit => ExactInv /\ Promise!Init
    BY ExactInit
  <1>2. SameOriginals => UNCHANGED Promise!vars
    BY Names DEF SameOriginals, Promise!vars
  <1>3. UpgradeInv /\ ExactInv /\ [UpgradeNext]_upgradeVars => ExactInv' /\ [Promise!Next]_(Promise!vars)
    BY <1>2, ExactNext
  <1>4. UpgradeSpec => []UpgradeInv
    BY UpgradeInvHolds, PTL
  <1> QED BY <1>1, <1>3, <1>4, PTL DEF UpgradeSpec, ImplementsAllOrNothing, Promise!Spec

=============================================================================
