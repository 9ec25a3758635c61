----------------------------- MODULE ResultProofs ----------------------------
(***************************************************************************)
(* The result store, the reads of the pages it keeps and the accounting of *)
(* its bytes, three models with variables of their own.                    *)
(*                                                                         *)
(* The store, for any instances, commands and bounds, through failing      *)
(* steps and deaths: what ended is never read again, what can be read is   *)
(* whole, and without a failure nothing is left over.  The inductive       *)
(* invariant IInv says of the operation that holds the lock what it has    *)
(* reached (Reached) and, while nothing has failed, what it still has to   *)
(* take away (Tidy).                                                       *)
(*                                                                         *)
(* The reads, for any readers, pages and bounds: a page that is answered   *)
(* is of the revision that it states and was permitted, and every change   *)
(* is announced, once, or lost with its commit.  ReadsInv says what a      *)
(* read may rely on at each step (Reading), and that as long as no view    *)
(* went back what was observed or selected is no newer than the current    *)
(* view.                                                                   *)
(*                                                                         *)
(* The accounting, for any tree of directories, limits and bounds: what is *)
(* believed is exact, and no step goes over a limit.  The invariant AInv   *)
(* says that the subtotals in memory are what the directories hold and     *)
(* what the call in progress still owes them (MemoryExact), and what saving*)
(* has still to do (WorkLeft).  A sum over a tree is the cardinality of a  *)
(* set of units, so that it changes by unions and differences.             *)
(***************************************************************************)
EXTENDS ResultStore, ResultReads, ResultAccounting, FiniteSetTheorems, TLAPS

Pcs == {"idle", "admit", "supersede", "stage", "install", "announce", "undo", "stageView", "installView",
        "point", "undoView", "dropView", "clear", "revoke", "empty", "over"}
OfView == {"stageView", "installView", "point", "undoView", "dropView"}
Operation == [by : Instances \union {Nobody}, pc : Pcs, res : Results \union {NoOne},
              gen : 0 .. MaxGenerations, old : 0 .. MaxGenerations]
Slot == [seq : 0 .. MaxSeq, state : States]

Typed ==
    /\ owner \in {"live", "revoked"} /\ slot \in [Commands -> Slot]
    /\ \A c \in Commands : slot[c].seq = 0 <=> slot[c].state = "none"
    /\ installed \subseteq Results /\ staged \subseteq Results \X (0 .. MaxGenerations)
    /\ pointer \in [Results -> 0 .. MaxGenerations] /\ kept \in [Results -> SUBSET (1 .. MaxGenerations)]
    /\ proven \subseteq Instances /\ tickets \in [Instances -> SUBSET Results]
    /\ op \in Operation /\ generations \in 0 .. MaxGenerations
    /\ faults \in 0 .. MaxFaults /\ crashes \in 0 .. MaxCrashes
    /\ ended \subseteq Results

\* What ended has been followed by another result or is cleared, or its owner is gone.
Ended ==
    \A r \in ended :
        \/ owner = "revoked" \/ slot[r[1]].seq > r[2]
        \/ slot[r[1]].seq = r[2] /\ slot[r[1]].state = "cleared"

Whole ==
    \A r \in Results :
        owner = "live" /\ slot[r[1]].seq = r[2] /\ slot[r[1]].state = "published" => r \in installed

Selected ==
    \A r \in Results : pointer[r] <= generations /\ (pointer[r] # 0 => pointer[r] \in kept[r])

\* What the operation that holds the lock has made sure of.
Reached ==
    /\ op.pc = "idle" \/ op.by \in Instances
    /\ op.pc \notin {"idle", "empty", "over"} => owner = "live"
    /\ op.pc = "admit" => op.res \in Results /\ op.res[2] = slot[op.res[1]].seq + 1
    /\ op.pc \in {"supersede", "stage", "install", "announce", "undo"} =>
          op.res \in Results /\ slot[op.res[1]].seq = op.res[2]
    /\ op.pc \in {"supersede", "stage", "install", "announce"} => slot[op.res[1]].state = "pending"
    /\ op.pc = "announce" => op.res \in installed
    /\ op.pc = "empty" => owner = "revoked" \/ \A c \in Commands : slot[c].state # "published"
    /\ op.pc \in OfView => op.res \in Results /\ op.old < op.gen /\ op.gen <= generations
    /\ op.pc \in {"stageView", "installView", "point"} => pointer[op.res] = op.old
    /\ op.pc = "point" => op.gen \in kept[op.res]
    /\ op.pc = "dropView" => pointer[op.res] = op.gen

\* What the operation leaves to be removed as long as nothing has failed.
TidyStaged ==
    /\ op.pc \in {"install", "undo"} => staged \subseteq {<<op.res, 0>>}
    /\ op.pc \in {"installView", "undoView"} => staged \subseteq {<<op.res, op.gen>>}
    /\ op.pc \notin {"install", "undo", "installView", "undoView", "empty"} => staged = {}
TidyInstalled ==
    /\ op.pc = "undo" => slot[op.res[1]].state = "pending"
    /\ op.pc # "empty" =>
          \A r \in installed :
              \/ owner = "live" /\ slot[r[1]].seq = r[2] /\ slot[r[1]].state = "published"
              \/ op.pc = "supersede" /\ r[1] = op.res[1] /\ r[2] + 1 = op.res[2]
              \/ op.pc \in {"announce", "undo"} /\ r = op.res
TidyKept ==
    op.pc # "empty" =>
        \A r \in Results : \A v \in kept[r] :
            \/ v = pointer[r]
            \/ r = op.res /\ op.pc \in {"point", "undoView"} /\ v = op.gen
            \/ r = op.res /\ op.pc = "dropView" /\ v = op.old
Tidy == faults = 0 /\ crashes = 0 => TidyStaged /\ TidyInstalled /\ TidyKept

IInv == Typed /\ Ended /\ Whole /\ Selected /\ Reached /\ Tidy

\* A result is its command and its number.
LEMMA Pairs ==
    ASSUME NEW r \in Results
    PROVE  /\ r[1] \in Commands /\ r[2] \in 1 .. MaxSeq /\ r[2] \in Nat /\ r = <<r[1], r[2]>>
           /\ \A q \in Results : q[1] = r[1] /\ q[2] = r[2] => q = r
           /\ Latest(r[1]) = r <=> slot[r[1]].seq = r[2]
  BY DEF Results, Latest

\* No operation is an operation of its own; the result of a command's slot is one.
LEMMA IdleIsOperation == Idle \in Operation
  BY StoreAssumption DEF Idle, Operation, Pcs

LEMMA LatestIsResult ==
    ASSUME Typed, NEW c \in Commands, slot[c].seq > 0 PROVE Latest(c) \in Results
  BY DEF Typed, Slot, Latest, Results

LEMMA InitIInv == ASSUME Init PROVE IInv
<1>1. Typed
  BY StoreAssumption DEF Init, Typed, Slot, States, Operation, Idle, Pcs
<1>2. Ended /\ Whole /\ Selected
  BY Pairs DEF Init, Ended, Whole, Selected
<1>3. Reached /\ Tidy
  BY DEF Init, Reached, Tidy, TidyStaged, TidyInstalled, TidyKept, Idle, OfView
<1> QED BY <1>1, <1>2, <1>3 DEF IInv

LEMMA AuthenticateKeeps == ASSUME IInv, NEW i \in Instances, Authenticate(i) PROVE IInv'
<1>1. Typed'
  BY DEF IInv, Typed, Authenticate, dirs, bodies
<1>2. Ended'
  BY DEF IInv, Ended, Authenticate, dirs
<1>3. Whole'
  BY DEF IInv, Whole, Authenticate, dirs, bodies
<1>4. Selected'
  BY DEF IInv, Selected, Authenticate, dirs, bodies
<1>5. Reached'
  BY DEF IInv, Reached, Authenticate, Idle
<1>6. Tidy'
  BY DEF IInv, Tidy, TidyStaged, TidyInstalled, TidyKept, Authenticate, dirs, bodies
<1> QED BY <1>1, <1>2, <1>3, <1>4, <1>5, <1>6 DEF IInv

LEMMA AdmitKeeps == ASSUME IInv, NEW i \in Instances, NEW c \in Commands, Admit(i, c) PROVE IInv'
<1>1. Typed'
  <2>1. <<c, slot[c].seq + 1>> \in Results /\ i \in Instances
    BY StoreAssumption DEF IInv, Typed, Slot, Admit, Results
  <2>2. op' \in Operation
    BY <2>1, StoreAssumption DEF Admit, Locks, Operation, Pcs
  <2> QED BY <2>2 DEF IInv, Typed, Admit, dirs, bodies
<1>2. Ended'
  BY DEF IInv, Ended, Admit, dirs
<1>3. Whole'
  BY DEF IInv, Whole, Admit, dirs, bodies
<1>4. Selected'
  BY DEF IInv, Selected, Admit, dirs, bodies
<1>5. Reached'
  <2>1. <<c, slot[c].seq + 1>> \in Results
    BY StoreAssumption DEF IInv, Typed, Slot, Admit, Results
  <2> QED BY <2>1 DEF IInv, Typed, Reached, OfView, Admit, Locks, dirs, bodies
<1>6. Tidy'
  BY DEF IInv, Tidy, TidyStaged, TidyInstalled, TidyKept, Admit, Locks, Idle, dirs, bodies
<1> QED BY <1>1, <1>2, <1>3, <1>4, <1>5, <1>6 DEF IInv

LEMMA TakeSlotKeeps == ASSUME IInv, TakeSlot PROVE IInv'
<1>1. /\ op.pc = "admit" /\ op \in Operation /\ faults \in 0 .. MaxFaults
      /\ UNCHANGED <<owner, installed, pointer, kept, staged, generations, proven, tickets, crashes>>
  BY DEF IInv, Typed, TakeSlot, At, bodies
<1>2. /\ op' \in Operation /\ op'.pc \in {"supersede", "over"}
      /\ op'.by = op.by /\ op'.res = op.res /\ op'.gen = op.gen /\ op'.old = op.old
  <2>1. op' = [op EXCEPT !.pc = "supersede"] \/ op' = [op EXCEPT !.pc = "over"]
    BY DEF TakeSlot, Durable, Go
  <2> QED BY <1>1, <2>1 DEF Operation, Pcs
<1>3. \/ /\ slot' = [slot EXCEPT ![op.res[1]] = [seq |-> op.res[2], state |-> "pending"]]
         /\ ended' = ended \union ({Latest(op.res[1])} \intersect Results)
      \/ UNCHANGED <<slot, ended>>
  BY DEF TakeSlot, Durable
<1>4. op'.pc = "supersede" =>
         /\ slot' = [slot EXCEPT ![op.res[1]] = [seq |-> op.res[2], state |-> "pending"]]
         /\ ended' = ended \union ({Latest(op.res[1])} \intersect Results)
  BY <1>1 DEF TakeSlot, Durable, Go, Operation
<1>5. /\ faults' \in 0 .. MaxFaults
      /\ faults' = 0 => /\ faults = 0
                        /\ op'.pc # "supersede" => UNCHANGED <<slot, ended>>
  BY <1>1, StoreAssumption DEF TakeSlot, Durable, Go, Operation, Fault
<1>6. /\ slot' \in [Commands -> Slot] /\ op.res \in Results
      /\ \A c \in Commands : c # op.res[1] => slot'[c] = slot[c]
      /\ \/ /\ slot'[op.res[1]].seq = slot[op.res[1]].seq + 1 /\ slot'[op.res[1]].state = "pending"
            /\ slot'[op.res[1]].seq = op.res[2]
            /\ ended' \subseteq ended \union {Latest(op.res[1])}
         \/ UNCHANGED <<slot, ended>>
      /\ ended' \subseteq Results
  BY <1>1, <1>3, Pairs DEF IInv, Typed, Reached, Slot, States
<1>7. Typed'
  BY <1>1, <1>2, <1>3, <1>4, <1>5, <1>6 DEF IInv, Typed, Slot
<1>8. Ended'
  <2>1. \A r \in ended' : r \in ended \/ (r = Latest(op.res[1]) /\ slot'[op.res[1]].seq = slot[op.res[1]].seq + 1)
    BY <1>6
  <2>2. ASSUME NEW r \in ended'
        PROVE  \/ owner = "revoked" \/ slot'[r[1]].seq > r[2]
               \/ slot'[r[1]].seq = r[2] /\ slot'[r[1]].state = "cleared"
    <3>1. r \in Results /\ r[1] \in Commands /\ r[2] \in Nat /\ slot[r[1]].seq \in Nat /\ slot'[r[1]].seq \in Nat
      BY <1>6, Pairs DEF IInv, Typed, Slot
    <3>2. CASE r = Latest(op.res[1]) /\ slot'[op.res[1]].seq = slot[op.res[1]].seq + 1
      <4>1. r[1] = op.res[1] /\ r[2] = slot[op.res[1]].seq
        BY <3>2 DEF Latest
      <4> QED BY <4>1, <3>1, <3>2
    <3>3. CASE r \in ended
      <4>1. \/ owner = "revoked" \/ slot[r[1]].seq > r[2]
            \/ slot[r[1]].seq = r[2] /\ slot[r[1]].state = "cleared"
        BY <3>3 DEF IInv, Ended
      <4> QED BY <4>1, <3>1, <1>6
    <3> QED BY <2>1, <3>2, <3>3
  <2> QED BY <2>2, <1>1 DEF Ended
<1>9. Whole'
  BY <1>1, <1>2, <1>3, <1>4, <1>5, <1>6, Pairs DEF IInv, Whole
<1>10. Selected'
  BY <1>1, <1>2, <1>3, <1>4, <1>5, <1>6 DEF IInv, Selected
<1>11. Reached'
  BY <1>1, <1>2, <1>3, <1>4, <1>5, <1>6, Pairs DEF IInv, Reached, OfView
<1>12. Tidy'
  BY <1>1, <1>2, <1>3, <1>4, <1>5, <1>6, Pairs DEF IInv, Typed, Tidy, TidyStaged, TidyInstalled, TidyKept
<1> QED BY <1>7, <1>8, <1>9, <1>10, <1>11, <1>12 DEF IInv

LEMMA SupersedeKeeps == ASSUME IInv, Supersede PROVE IInv'
<1>1. Typed'
  <2>1. op \in Operation /\ op.pc = "supersede" /\ op.res \in Results /\ op.by \in Instances
    BY DEF IInv, Typed, Reached, Supersede, At
  <2>2. tickets' \in [Instances -> SUBSET Results]
    BY <2>1 DEF IInv, Typed, Supersede, Removal
  <2>3. installed' \subseteq Results /\ pointer' \in [Results -> 0 .. MaxGenerations]
        /\ kept' \in [Results -> SUBSET (1 .. MaxGenerations)]
    BY StoreAssumption DEF IInv, Typed, Supersede, Removal, Forget, bodies
  <2>4. op' = Idle /\ faults' \in 0 .. MaxFaults
    BY StoreAssumption DEF IInv, Typed, Supersede, Removal, Done, Fault
  <2> QED BY <2>2, <2>3, <2>4, IdleIsOperation DEF IInv, Typed, Supersede
<1>2. Ended'
  BY DEF IInv, Ended, Supersede
<1>3. Whole'
  BY DEF IInv, Whole, Reached, Supersede, At, Removal, Forget, bodies
<1>4. Selected'
  BY DEF IInv, Typed, Selected, Supersede, Removal, Forget, bodies
<1>5. Reached'
  BY DEF IInv, Reached, OfView, Supersede, Done, Idle, Removal
<1>6. Tidy'
  <2> SUFFICES ASSUME faults' = 0, crashes' = 0 PROVE (TidyStaged /\ TidyInstalled /\ TidyKept)'
    BY DEF Tidy
  <2> DEFINE S == {r \in installed : r[1] = op.res[1] /\ r[2] + 1 = op.res[2]}
  <2>1. faults = 0 /\ crashes = 0 /\ Forget(S) /\ op.pc = "supersede" /\ op' = Idle
        /\ UNCHANGED <<owner, slot, staged>>
    BY DEF IInv, Typed, Supersede, At, Removal, Fault, Done
  <2>2. TidyStaged /\ TidyInstalled /\ TidyKept
    BY <2>1 DEF IInv, Tidy
  <2>3. TidyStaged'
    BY <2>1, <2>2 DEF TidyStaged
  <2>4. TidyInstalled'
    BY <2>1, <2>2 DEF TidyInstalled, Idle, Forget
  <2>5. TidyKept'
    <3>1. \A r \in Results : kept'[r] = (IF r \in S THEN {} ELSE kept[r])
                              /\ pointer'[r] = (IF r \in S THEN 0 ELSE pointer[r])
      BY <2>1 DEF Forget
    <3> HIDE DEF S
    <3>2. \A r \in Results : \A v \in kept[r] : v = pointer[r]
      BY <2>1, <2>2 DEF TidyKept
    <3> QED BY <2>1, <3>1, <3>2 DEF TidyKept
  <2> QED BY <2>3, <2>4, <2>5
<1> QED BY <1>1, <1>2, <1>3, <1>4, <1>5, <1>6 DEF IInv

LEMMA PublishKeeps == ASSUME IInv, NEW i \in Instances, NEW r \in Results, Publish(i, r) PROVE IInv'
<1>1. Typed'
  BY DEF IInv, Typed, Operation, Pcs, Publish, Locks, Idle, dirs, bodies
<1>2. Ended'
  BY DEF IInv, Ended, Publish, dirs
<1>3. Whole'
  BY DEF IInv, Whole, Publish, dirs, bodies
<1>4. Selected'
  BY DEF IInv, Selected, Publish, dirs, bodies
<1>5. Reached'
  BY Pairs DEF IInv, Reached, OfView, Publish, Locks, dirs
<1>6. Tidy'
  BY DEF IInv, Tidy, TidyStaged, TidyInstalled, TidyKept, Publish, Locks, Idle, dirs, bodies
<1> QED BY <1>1, <1>2, <1>3, <1>4, <1>5, <1>6 DEF IInv

LEMMA StageKeeps == ASSUME IInv, Stage PROVE IInv'
<1>1. /\ op.pc = "stage" /\ op \in Operation /\ faults \in 0 .. MaxFaults
      /\ UNCHANGED <<owner, slot, installed, pointer, kept, generations, proven, tickets, ended, crashes>>
  BY DEF IInv, Typed, Stage, At, bodies
<1>2. /\ op' \in Operation /\ op'.pc \in {"install", "undo"}
      /\ op'.by = op.by /\ op'.res = op.res /\ op'.gen = op.gen /\ op'.old = op.old
  <2>1. op' = [op EXCEPT !.pc = "install"] \/ op' = [op EXCEPT !.pc = "undo"]
    BY DEF Stage, Durable, Go
  <2> QED BY <1>1, <2>1 DEF Operation, Pcs
<1>3. \/ staged' = staged \union {<<op.res, 0>>}
      \/ UNCHANGED staged
  BY DEF Stage, Durable
<1>4. op'.pc = "install" =>
         staged' = staged \union {<<op.res, 0>>}
  BY <1>1 DEF Stage, Durable, Go, Operation
<1>5. /\ faults' \in 0 .. MaxFaults
      /\ faults' = 0 => /\ faults = 0
                        /\ op'.pc # "install" => UNCHANGED staged
  BY <1>1, StoreAssumption DEF Stage, Durable, Go, Operation, Fault
<1>6. Typed'
  <2>1. op.res \in Results /\ 0 \in 0 .. MaxGenerations
    BY <1>1, StoreAssumption DEF IInv, Reached
  <2>2. staged' \subseteq Results \X (0 .. MaxGenerations)
    BY <1>3, <2>1 DEF IInv, Typed
  <2> QED BY <1>1, <1>2, <1>5, <2>2 DEF IInv, Typed
<1>7. Ended'
  BY <1>1, <1>2, <1>3, <1>4, <1>5 DEF IInv, Ended
<1>8. Whole'
  BY <1>1, <1>2, <1>3, <1>4, <1>5 DEF IInv, Whole
<1>9. Selected'
  BY <1>1, <1>2, <1>3, <1>4, <1>5 DEF IInv, Selected
<1>10. Reached'
  BY <1>1, <1>2, <1>3, <1>4, <1>5 DEF IInv, Reached, OfView
<1>11. Tidy'
  BY <1>1, <1>2, <1>3, <1>4, <1>5 DEF IInv, Tidy, TidyStaged, TidyInstalled, TidyKept, Reached
<1> QED BY <1>6, <1>7, <1>8, <1>9, <1>10, <1>11 DEF IInv

LEMMA InstallKeeps == ASSUME IInv, Install PROVE IInv'
<1>1. /\ op.pc = "install" /\ op \in Operation /\ faults \in 0 .. MaxFaults
      /\ UNCHANGED <<owner, slot, pointer, kept, generations, proven, tickets, ended, crashes>>
  BY DEF IInv, Typed, Install, At
<1>2. /\ op' \in Operation /\ op'.pc \in {"announce", "undo"}
      /\ op'.by = op.by /\ op'.res = op.res /\ op'.gen = op.gen /\ op'.old = op.old
  <2>1. op' = [op EXCEPT !.pc = "announce"] \/ op' = [op EXCEPT !.pc = "undo"]
    BY DEF Install, Durable, Go
  <2> QED BY <1>1, <2>1 DEF Operation, Pcs
<1>3. \/ staged' = staged \ {<<op.res, 0>>} /\ installed' = installed \union {op.res}
      \/ UNCHANGED <<staged, installed>>
  BY DEF Install, Durable
<1>4. op'.pc = "announce" =>
         staged' = staged \ {<<op.res, 0>>} /\ installed' = installed \union {op.res}
  BY <1>1 DEF Install, Durable, Go, Operation
<1>5. /\ faults' \in 0 .. MaxFaults
      /\ faults' = 0 => /\ faults = 0
                        /\ op'.pc # "announce" => UNCHANGED <<staged, installed>>
  BY <1>1, StoreAssumption DEF Install, Durable, Go, Operation, Fault
<1>6. Typed'
  <2>1. op.res \in Results /\ 0 \in 0 .. MaxGenerations
    BY <1>1, StoreAssumption DEF IInv, Reached
  <2>2. staged' \subseteq Results \X (0 .. MaxGenerations)
    BY <1>3, <2>1 DEF IInv, Typed
  <2>3. installed' \subseteq Results
    BY <1>3, <2>1 DEF IInv, Typed
  <2> QED BY <1>1, <1>2, <1>5, <2>2, <2>3 DEF IInv, Typed
<1>7. Ended'
  BY <1>1, <1>2, <1>3, <1>4, <1>5 DEF IInv, Ended
<1>8. Whole'
  BY <1>1, <1>2, <1>3, <1>4, <1>5 DEF IInv, Whole
<1>9. Selected'
  BY <1>1, <1>2, <1>3, <1>4, <1>5 DEF IInv, Selected
<1>10. Reached'
  BY <1>1, <1>2, <1>3, <1>4, <1>5 DEF IInv, Reached, OfView
<1>11. Tidy'
  BY <1>1, <1>2, <1>3, <1>4, <1>5 DEF IInv, Tidy, TidyStaged, TidyInstalled, TidyKept, Reached
<1> QED BY <1>6, <1>7, <1>8, <1>9, <1>10, <1>11 DEF IInv

LEMMA AnnounceKeeps == ASSUME IInv, Announce PROVE IInv'
<1>1. /\ op.pc = "announce" /\ op \in Operation /\ faults \in 0 .. MaxFaults
      /\ UNCHANGED <<owner, installed, pointer, kept, staged, generations, proven, tickets, ended, crashes>>
  BY DEF IInv, Typed, Announce, At, bodies
<1>2. /\ op' \in Operation /\ op'.pc \in {"over", "undo"}
      /\ op'.by = op.by /\ op'.res = op.res /\ op'.gen = op.gen /\ op'.old = op.old
  <2>1. op' = [op EXCEPT !.pc = "over"] \/ op' = [op EXCEPT !.pc = "undo"]
    BY DEF Announce, Durable, Go
  <2> QED BY <1>1, <2>1 DEF Operation, Pcs
<1>3. \/ slot' = [slot EXCEPT ![op.res[1]].state = "published"]
      \/ UNCHANGED slot
  BY DEF Announce, Durable
<1>4. op'.pc = "over" =>
         slot' = [slot EXCEPT ![op.res[1]].state = "published"]
  BY <1>1 DEF Announce, Durable, Go, Operation
<1>5. /\ faults' \in 0 .. MaxFaults
      /\ faults' = 0 => /\ faults = 0
                        /\ op'.pc # "over" => UNCHANGED slot
  BY <1>1, StoreAssumption DEF Announce, Durable, Go, Operation, Fault
<1>6. /\ slot' \in [Commands -> Slot] /\ op.res \in Results
      /\ \A c \in Commands : slot'[c].seq = slot[c].seq
      /\ \A c \in Commands : c # op.res[1] => slot'[c] = slot[c]
      /\ slot[op.res[1]].state = "pending" /\ slot[op.res[1]].seq = op.res[2]
      /\ op.res \in installed
      /\ slot'[op.res[1]].state \in {"pending", "published"}
  <2>1. op.res \in Results /\ slot[op.res[1]].state = "pending" /\ slot[op.res[1]].seq = op.res[2]
        /\ op.res \in installed
    BY <1>1 DEF IInv, Reached
  <2>2. op.res[1] \in Commands /\ slot \in [Commands -> Slot]
    BY <2>1, Pairs DEF IInv, Typed
  <2>3. CASE UNCHANGED slot
    BY <2>1, <2>2, <2>3
  <2>4. CASE slot' = [slot EXCEPT ![op.res[1]].state = "published"]
    <3>1. [slot[op.res[1]] EXCEPT !.state = "published"] \in Slot
      BY <2>2 DEF Slot, States
    <3>2. /\ slot' \in [Commands -> Slot] /\ \A c \in Commands : c # op.res[1] => slot'[c] = slot[c]
          /\ slot'[op.res[1]] = [slot[op.res[1]] EXCEPT !.state = "published"]
      BY <2>2, <2>4, <3>1
    <3>3. slot'[op.res[1]].seq = slot[op.res[1]].seq /\ slot'[op.res[1]].state = "published"
      BY <2>2, <3>2
    <3> QED BY <2>1, <3>2, <3>3
  <2> QED BY <1>3, <2>3, <2>4
<1>7. Typed'
  BY <1>1, <1>2, <1>3, <1>4, <1>5, <1>6 DEF IInv, Typed
<1>8. Ended'
  BY <1>1, <1>2, <1>3, <1>4, <1>5, <1>6, Pairs DEF IInv, Typed, Ended
<1>9. Whole'
  BY <1>1, <1>2, <1>3, <1>4, <1>5, <1>6, Pairs DEF IInv, Whole
<1>10. Selected'
  BY <1>1, <1>2, <1>3, <1>4, <1>5, <1>6 DEF IInv, Selected
<1>11. Reached'
  BY <1>1, <1>2, <1>3, <1>4, <1>5, <1>6, Pairs DEF IInv, Reached, OfView
<1>12. Tidy'
  <2> SUFFICES ASSUME faults' = 0, crashes' = 0 PROVE (TidyStaged /\ TidyInstalled /\ TidyKept)'
    BY DEF Tidy
  <2>1. faults = 0 /\ crashes = 0 /\ (op'.pc # "over" => UNCHANGED slot) /\ op'.pc \in {"over", "undo"}
    BY <1>1, <1>2, <1>5
  <2>2. TidyStaged /\ TidyInstalled /\ TidyKept
    BY <2>1 DEF IInv, Tidy
  <2>3. TidyStaged'
    BY <1>1, <2>1, <2>2 DEF TidyStaged
  <2>4. TidyInstalled'
    <3>1. CASE op'.pc = "undo"
      BY <1>1, <1>2, <1>6, <2>1, <2>2, <3>1 DEF TidyInstalled
    <3>2. CASE op'.pc = "over"
      <4>1. slot'[op.res[1]].state = "published"
        BY <1>4, <1>6, <3>2, Pairs DEF IInv, Slot
      <4>2. owner = "live"
        BY <1>1 DEF IInv, Reached
      <4> QED BY <1>1, <1>2, <1>6, <2>2, <3>2, <4>1, <4>2, Pairs DEF TidyInstalled, IInv, Typed
    <3> QED BY <2>1, <3>1, <3>2
  <2>5. TidyKept'
    BY <1>1, <2>1, <2>2 DEF TidyKept
  <2> QED BY <2>3, <2>4, <2>5
<1> QED BY <1>7, <1>8, <1>9, <1>10, <1>11, <1>12 DEF IInv

LEMMA UndoKeeps == ASSUME IInv, Undo PROVE IInv'
<1>1. Typed'
  <2>1. installed' \subseteq Results /\ pointer' \in [Results -> 0 .. MaxGenerations]
        /\ kept' \in [Results -> SUBSET (1 .. MaxGenerations)]
    BY StoreAssumption DEF IInv, Typed, Undo, Removal, Forget, bodies
  <2>2. staged' \subseteq Results \X (0 .. MaxGenerations) /\ faults' \in 0 .. MaxFaults /\ op' = Idle
    BY StoreAssumption DEF IInv, Typed, Undo, Removal, Fault, Done
  <2> QED BY <2>1, <2>2, IdleIsOperation DEF IInv, Typed, Undo, Removal
<1>2. Ended'
  BY DEF IInv, Ended, Undo
<1>3. Whole'
  BY DEF IInv, Whole, Undo, Removal, Forget, bodies
<1>4. Selected'
  BY DEF IInv, Typed, Selected, Undo, Removal, Forget, bodies
<1>5. Reached'
  BY DEF IInv, Reached, OfView, Undo, Done, Idle, Removal
<1>6. Tidy'
  BY DEF IInv, Typed, Tidy, TidyStaged, TidyInstalled, TidyKept, Undo, At, Done, Idle, Removal, Forget, Fault
<1> QED BY <1>1, <1>2, <1>3, <1>4, <1>5, <1>6 DEF IInv

LEMMA SaveViewKeeps == ASSUME IInv, NEW i \in Instances, NEW r \in Results, SaveView(i, r) PROVE IInv'
<1>1. Typed'
  BY StoreAssumption DEF IInv, Typed, Operation, Pcs, SaveView, bodies
<1>2. Ended'
  BY DEF IInv, Ended, SaveView
<1>3. Whole'
  BY DEF IInv, Whole, SaveView, bodies
<1>4. Selected'
  BY DEF IInv, Typed, Selected, SaveView, bodies
<1>5. Reached'
  <2>1. pointer[r] \in 0 .. MaxGenerations /\ pointer[r] <= generations /\ generations \in Nat
    BY DEF IInv, Typed, Selected
  <2>2. /\ op' = [by |-> i, pc |-> "stageView", res |-> r, gen |-> generations + 1, old |-> pointer[r]]
        /\ generations' = generations + 1 /\ UNCHANGED <<owner, slot, pointer, kept, installed>>
        /\ owner = "live"
    BY DEF SaveView, Readable, bodies
  <2>3. pointer[r] < generations + 1
    BY <2>1
  <2> QED BY <2>1, <2>2, <2>3 DEF Reached
<1>6. Tidy'
  BY DEF IInv, Tidy, TidyStaged, TidyInstalled, TidyKept, SaveView, Idle, bodies
<1> QED BY <1>1, <1>2, <1>3, <1>4, <1>5, <1>6 DEF IInv

LEMMA StageViewKeeps == ASSUME IInv, StageView PROVE IInv'
<1>1. /\ op.pc = "stageView" /\ op \in Operation /\ faults \in 0 .. MaxFaults
      /\ UNCHANGED <<owner, slot, installed, pointer, kept, generations, proven, tickets, ended, crashes>>
  BY DEF IInv, Typed, StageView, At, bodies
<1>2. /\ op' \in Operation /\ op'.pc \in {"installView", "undoView"}
      /\ op'.by = op.by /\ op'.res = op.res /\ op'.gen = op.gen /\ op'.old = op.old
  <2>1. op' = [op EXCEPT !.pc = "installView"] \/ op' = [op EXCEPT !.pc = "undoView"]
    BY DEF StageView, Durable, Go
  <2> QED BY <1>1, <2>1 DEF Operation, Pcs
<1>3. \/ staged' = staged \union {<<op.res, op.gen>>}
      \/ UNCHANGED staged
  BY DEF StageView, Durable
<1>4. op'.pc = "installView" =>
         staged' = staged \union {<<op.res, op.gen>>}
  BY <1>1 DEF StageView, Durable, Go, Operation
<1>5. /\ faults' \in 0 .. MaxFaults
      /\ faults' = 0 => /\ faults = 0
                        /\ op'.pc # "installView" => UNCHANGED staged
  BY <1>1, StoreAssumption DEF StageView, Durable, Go, Operation, Fault
<1>6. Typed'
  <2>1. op.res \in Results /\ op.gen \in 0 .. MaxGenerations
    BY <1>1 DEF IInv, Reached, OfView, Operation
  <2>2. staged' \subseteq Results \X (0 .. MaxGenerations)
    BY <1>3, <2>1 DEF IInv, Typed
  <2> QED BY <1>1, <1>2, <1>5, <2>2 DEF IInv, Typed
<1>7. Ended'
  BY <1>1, <1>2, <1>3, <1>4, <1>5 DEF IInv, Ended
<1>8. Whole'
  BY <1>1, <1>2, <1>3, <1>4, <1>5 DEF IInv, Whole
<1>9. Selected'
  BY <1>1, <1>2, <1>3, <1>4, <1>5 DEF IInv, Selected
<1>10. Reached'
  BY <1>1, <1>2, <1>3, <1>4, <1>5 DEF IInv, Reached, OfView
<1>11. Tidy'
  BY <1>1, <1>2, <1>3, <1>4, <1>5 DEF IInv, Tidy, TidyStaged, TidyInstalled, TidyKept
<1> QED BY <1>6, <1>7, <1>8, <1>9, <1>10, <1>11 DEF IInv

LEMMA InstallViewKeeps == ASSUME IInv, InstallView PROVE IInv'
<1>1. /\ op.pc = "installView" /\ op \in Operation /\ faults \in 0 .. MaxFaults
      /\ UNCHANGED <<owner, slot, installed, pointer, generations, proven, tickets, ended, crashes>>
  BY DEF IInv, Typed, InstallView, At
<1>2. /\ op' \in Operation /\ op'.pc \in {"point", "undoView"}
      /\ op'.by = op.by /\ op'.res = op.res /\ op'.gen = op.gen /\ op'.old = op.old
  <2>1. op' = [op EXCEPT !.pc = "point"] \/ op' = [op EXCEPT !.pc = "undoView"]
    BY DEF InstallView, Durable, Go
  <2> QED BY <1>1, <2>1 DEF Operation, Pcs
<1>3. \/ /\ staged' = staged \ {<<op.res, op.gen>>}
         /\ kept' = [kept EXCEPT ![op.res] = @ \union {op.gen}]
      \/ UNCHANGED <<staged, kept>>
  BY DEF InstallView, Durable
<1>4. op'.pc = "point" =>
         /\ staged' = staged \ {<<op.res, op.gen>>}
         /\ kept' = [kept EXCEPT ![op.res] = @ \union {op.gen}]
  BY <1>1 DEF InstallView, Durable, Go, Operation
<1>5. /\ faults' \in 0 .. MaxFaults
      /\ faults' = 0 => /\ faults = 0
                        /\ op'.pc # "point" => UNCHANGED <<staged, kept>>
  BY <1>1, StoreAssumption DEF InstallView, Durable, Go, Operation, Fault
<1>6. Typed'
  <2>1. op.res \in Results /\ op.gen \in 0 .. MaxGenerations
    BY <1>1 DEF IInv, Reached, OfView, Operation
  <2>2. staged' \subseteq Results \X (0 .. MaxGenerations)
    BY <1>3, <2>1 DEF IInv, Typed
  <2>3. kept' \in [Results -> SUBSET (1 .. MaxGenerations)]
    <3>1. op.gen \in 1 .. MaxGenerations
      BY <1>1, <2>1 DEF IInv, Reached, OfView, Operation
    <3> QED BY <1>3, <2>1, <3>1 DEF IInv, Typed
  <2> QED BY <1>1, <1>2, <1>5, <2>2, <2>3 DEF IInv, Typed
<1>7. Ended'
  BY <1>1, <1>2, <1>3, <1>4, <1>5 DEF IInv, Ended
<1>8. Whole'
  BY <1>1, <1>2, <1>3, <1>4, <1>5 DEF IInv, Whole
<1>9. Selected'
  BY <1>1, <1>2, <1>3, <1>4, <1>5, StoreAssumption DEF IInv, Typed, Selected
<1>10. Reached'
  BY <1>1, <1>2, <1>3, <1>4, <1>5 DEF IInv, Typed, Reached, OfView
<1>11. Tidy'
  BY <1>1, <1>2, <1>3, <1>4, <1>5 DEF IInv, Typed, Tidy, TidyStaged, TidyInstalled, TidyKept
<1> QED BY <1>6, <1>7, <1>8, <1>9, <1>10, <1>11 DEF IInv

LEMMA PointKeeps == ASSUME IInv, Point PROVE IInv'
<1>1. /\ op.pc = "point" /\ op \in Operation /\ faults \in 0 .. MaxFaults
      /\ UNCHANGED <<owner, slot, installed, kept, staged, generations, proven, tickets, ended, crashes>>
  BY DEF IInv, Typed, Point, At
<1>2. /\ op' \in Operation /\ op'.pc \in {"dropView", "undoView"}
      /\ op'.by = op.by /\ op'.res = op.res /\ op'.gen = op.gen /\ op'.old = op.old
  <2>1. op' = [op EXCEPT !.pc = "dropView"] \/ op' = [op EXCEPT !.pc = "undoView"]
    BY DEF Point, Durable, Go
  <2> QED BY <1>1, <2>1 DEF Operation, Pcs
<1>3. \/ pointer' = [pointer EXCEPT ![op.res] = op.gen]
      \/ UNCHANGED pointer
  BY DEF Point, Durable
<1>4. op'.pc = "dropView" =>
         pointer' = [pointer EXCEPT ![op.res] = op.gen]
  BY <1>1 DEF Point, Durable, Go, Operation
<1>5. /\ faults' \in 0 .. MaxFaults
      /\ faults' = 0 => /\ faults = 0
                        /\ op'.pc # "dropView" => UNCHANGED pointer
  BY <1>1, StoreAssumption DEF Point, Durable, Go, Operation, Fault
<1>6. Typed'
  BY <1>1, <1>2, <1>3, <1>4, <1>5 DEF IInv, Typed, Operation
<1>7. Ended'
  BY <1>1, <1>2, <1>3, <1>4, <1>5 DEF IInv, Ended
<1>8. Whole'
  BY <1>1, <1>2, <1>3, <1>4, <1>5 DEF IInv, Whole
<1>9. Selected'
  <2>1. /\ op.res \in Results /\ op.gen \in kept[op.res] /\ op.gen <= generations
        /\ UNCHANGED <<kept, generations>>
    BY <1>1 DEF IInv, Reached, OfView
  <2>2. \A r \in Results : pointer'[r] = pointer[r] \/ (r = op.res /\ pointer'[r] = op.gen)
    BY <1>3 DEF IInv, Typed
  <2> QED BY <2>1, <2>2 DEF IInv, Selected
<1>10. Reached'
  BY <1>1, <1>2, <1>3, <1>4, <1>5 DEF IInv, Typed, Reached, OfView
<1>11. Tidy'
  BY <1>1, <1>2, <1>3, <1>4, <1>5 DEF IInv, Typed, Tidy, TidyStaged, TidyInstalled, TidyKept, Reached
<1> QED BY <1>6, <1>7, <1>8, <1>9, <1>10, <1>11 DEF IInv

LEMMA UndoViewKeeps == ASSUME IInv, UndoView PROVE IInv'
<1>1. Typed'
  <2>1. op.res \in Results /\ op' = Idle
    BY DEF IInv, Reached, OfView, UndoView, At, Done
  <2>2. kept' \in [Results -> SUBSET (1 .. MaxGenerations)]
    BY <2>1 DEF IInv, Typed, UndoView
  <2>3. faults' \in 0 .. MaxFaults /\ staged' \subseteq Results \X (0 .. MaxGenerations)
    BY StoreAssumption DEF IInv, Typed, UndoView, Fault
  <2> QED BY <2>1, <2>2, <2>3, IdleIsOperation DEF IInv, Typed, UndoView
<1>2. Ended'
  BY DEF IInv, Ended, UndoView
<1>3. Whole'
  BY DEF IInv, Whole, UndoView
<1>4. Selected'
  <2>1. op.res \in Results /\ UNCHANGED <<pointer, generations>>
    BY DEF IInv, Reached, OfView, UndoView, At
  <2>2. \A r \in Results :
          \/ kept'[r] = kept[r]
          \/ r = op.res /\ pointer[r] # op.gen /\ kept'[r] = kept[r] \ {op.gen}
    BY <2>1 DEF IInv, Typed, UndoView
  <2> QED BY <2>1, <2>2 DEF IInv, Selected
<1>5. Reached'
  BY DEF IInv, Reached, OfView, UndoView, Done, Idle
<1>6. Tidy'
  BY DEF IInv, Typed, Tidy, TidyStaged, TidyInstalled, TidyKept, UndoView, At, Done, Idle, Fault
<1> QED BY <1>1, <1>2, <1>3, <1>4, <1>5, <1>6 DEF IInv

LEMMA DropViewKeeps == ASSUME IInv, DropView PROVE IInv'
<1>1. Typed'
  BY StoreAssumption DEF IInv, Typed, Operation, Pcs, DropView, Done, Idle, Fault
<1>2. Ended'
  BY DEF IInv, Ended, DropView
<1>3. Whole'
  BY DEF IInv, Whole, DropView
<1>4. Selected'
  <2>1. /\ op.res \in Results /\ pointer[op.res] = op.gen /\ op.old < op.gen
        /\ op.gen \in Nat /\ op.old \in Nat /\ UNCHANGED <<pointer, generations>>
    BY DEF IInv, Typed, Reached, OfView, Operation, DropView, At
  <2>2. op.old # op.gen
    BY <2>1
  <2>3. \A r \in Results : kept'[r] = kept[r] \/ (r = op.res /\ kept'[r] = kept[r] \ {op.old})
    BY DEF IInv, Typed, DropView
  <2> QED BY <2>1, <2>2, <2>3 DEF IInv, Selected
<1>5. Reached'
  BY DEF IInv, Reached, OfView, DropView, Done, Idle
<1>6. Tidy'
  BY DEF IInv, Typed, Tidy, TidyStaged, TidyInstalled, TidyKept, DropView, At, Done, Idle, Fault
<1> QED BY <1>1, <1>2, <1>3, <1>4, <1>5, <1>6 DEF IInv

LEMMA ClearKeeps == ASSUME IInv, NEW i \in Instances, Clear(i) PROVE IInv'
<1>1. Typed'
  BY DEF IInv, Typed, Operation, Pcs, Clear, Locks, Idle, dirs, bodies
<1>2. Ended'
  BY DEF IInv, Ended, Clear, dirs
<1>3. Whole'
  BY DEF IInv, Whole, Clear, dirs, bodies
<1>4. Selected'
  BY DEF IInv, Selected, Clear, dirs, bodies
<1>5. Reached'
  BY DEF IInv, Reached, OfView, Clear, Locks, dirs
<1>6. Tidy'
  BY DEF IInv, Tidy, TidyStaged, TidyInstalled, TidyKept, Clear, Locks, Idle, dirs, bodies
<1> QED BY <1>1, <1>2, <1>3, <1>4, <1>5, <1>6 DEF IInv

LEMMA ClearSlotsKeeps == ASSUME IInv, ClearSlots PROVE IInv'
<1>1. /\ op.pc = "clear" /\ op \in Operation /\ faults \in 0 .. MaxFaults
      /\ UNCHANGED <<owner, installed, pointer, kept, staged, generations, proven, tickets, crashes>>
  BY DEF IInv, Typed, ClearSlots, At, bodies
<1>2. /\ op' \in Operation /\ op'.pc \in {"empty", "over"}
      /\ op'.by = op.by /\ op'.res = op.res /\ op'.gen = op.gen /\ op'.old = op.old
  <2>1. op' = [op EXCEPT !.pc = "empty"] \/ op' = [op EXCEPT !.pc = "over"]
    BY DEF ClearSlots, Durable, Go
  <2> QED BY <1>1, <2>1 DEF Operation, Pcs
<1>3. \/ /\ slot' = [c \in Commands |-> IF slot[c].seq > 0 THEN [slot[c] EXCEPT !.state = "cleared"] ELSE slot[c]]
         /\ ended' = ended \union Admitted
      \/ UNCHANGED <<slot, ended>>
  BY DEF ClearSlots, Durable
<1>4. op'.pc = "empty" =>
         /\ slot' = [c \in Commands |-> IF slot[c].seq > 0 THEN [slot[c] EXCEPT !.state = "cleared"] ELSE slot[c]]
         /\ ended' = ended \union Admitted
  BY <1>1 DEF ClearSlots, Durable, Go, Operation
<1>5. /\ faults' \in 0 .. MaxFaults
      /\ faults' = 0 => /\ faults = 0
                        /\ op'.pc # "empty" => UNCHANGED <<slot, ended>>
  BY <1>1, StoreAssumption DEF ClearSlots, Durable, Go, Operation, Fault
<1>6. /\ slot' \in [Commands -> Slot]
      /\ \A c \in Commands : slot'[c].seq = slot[c].seq
      /\ \A c \in Commands : slot'[c].state # slot[c].state => slot[c].seq > 0 /\ slot'[c].state = "cleared"
      /\ slot' # slot => \A c \in Commands : slot[c].seq > 0 => slot'[c].state = "cleared"
  BY <1>1, <1>3 DEF IInv, Typed, Slot, States
<1>7. Typed'
  <2>1. Admitted \subseteq Results
    BY LatestIsResult DEF Admitted, IInv
  <2>2. ended' \subseteq Results
    BY <1>3, <2>1 DEF IInv, Typed
  <2>3. \A c \in Commands : slot'[c].seq = 0 <=> slot'[c].state = "none"
    BY <1>6 DEF IInv, Typed
  <2> QED BY <1>1, <1>2, <1>5, <1>6, <2>2, <2>3 DEF IInv, Typed
<1>8. Ended'
  <2>1. ASSUME NEW r \in ended'
        PROVE  \/ owner' = "revoked" \/ slot'[r[1]].seq > r[2]
               \/ slot'[r[1]].seq = r[2] /\ slot'[r[1]].state = "cleared"
    <3>1. CASE r \in ended
      <4>1. r[1] \in Commands
        BY <3>1, Pairs DEF IInv, Typed
      <4>2. \/ owner = "revoked" \/ slot[r[1]].seq > r[2]
            \/ slot[r[1]].seq = r[2] /\ slot[r[1]].state = "cleared"
        BY <3>1 DEF IInv, Ended
      <4> QED BY <1>1, <1>6, <4>1, <4>2
    <3>2. CASE r \notin ended
      <4>1. slot' = [c \in Commands |-> IF slot[c].seq > 0 THEN [slot[c] EXCEPT !.state = "cleared"] ELSE slot[c]]
            /\ r \in Admitted
        BY <1>3, <3>2, <2>1
      <4>2. PICK c \in Commands : slot[c].seq > 0 /\ r = <<c, slot[c].seq>>
        BY <4>1 DEF Admitted, Latest
      <4>3. slot'[c].state = "cleared"
        BY <4>1, <4>2 DEF IInv
      <4> QED BY <1>6, <4>2, <4>3
    <3> QED BY <3>1, <3>2
  <2> QED BY <2>1 DEF Ended
<1>9. Whole'
  BY <1>1, <1>2, <1>3, <1>4, <1>5, <1>6, Pairs DEF IInv, Whole
<1>10. Selected'
  BY <1>1, <1>2, <1>3, <1>4, <1>5, <1>6 DEF IInv, Selected
<1>11. Reached'
  <2>1. op'.by \in Instances
    BY <1>1, <1>2 DEF IInv, Reached
  <2>2. op'.pc = "empty" => \A c \in Commands : slot'[c].state # "published"
    BY <1>4, <1>6 DEF IInv, Typed, Slot
  <2> QED BY <1>1, <1>2, <2>1, <2>2 DEF Reached, OfView
<1>12. Tidy'
  BY <1>1, <1>2, <1>3, <1>4, <1>5, <1>6 DEF IInv, Tidy, TidyStaged, TidyInstalled, TidyKept
<1> QED BY <1>7, <1>8, <1>9, <1>10, <1>11, <1>12 DEF IInv

LEMMA RevokeKeeps == ASSUME IInv, NEW i \in Instances, Revoke(i) PROVE IInv'
<1>1. Typed'
  BY DEF IInv, Typed, Operation, Pcs, Revoke, Locks, Idle, dirs, bodies
<1>2. Ended'
  BY DEF IInv, Ended, Revoke, dirs
<1>3. Whole'
  BY DEF IInv, Whole, Revoke, dirs, bodies
<1>4. Selected'
  BY DEF IInv, Selected, Revoke, dirs, bodies
<1>5. Reached'
  BY DEF IInv, Reached, OfView, Revoke, Locks, dirs
<1>6. Tidy'
  BY DEF IInv, Tidy, TidyStaged, TidyInstalled, TidyKept, Revoke, Locks, Idle, dirs, bodies
<1> QED BY <1>1, <1>2, <1>3, <1>4, <1>5, <1>6 DEF IInv

LEMMA EntombKeeps == ASSUME IInv, Entomb PROVE IInv'
<1>1. /\ op.pc = "revoke" /\ op \in Operation /\ faults \in 0 .. MaxFaults
      /\ UNCHANGED <<slot, installed, pointer, kept, staged, generations, tickets, crashes>>
  BY DEF IInv, Typed, Entomb, At, bodies
<1>2. /\ op' \in Operation /\ op'.pc \in {"empty", "over"}
      /\ op'.by = op.by /\ op'.res = op.res /\ op'.gen = op.gen /\ op'.old = op.old
  <2>1. op' = [op EXCEPT !.pc = "empty"] \/ op' = [op EXCEPT !.pc = "over"]
    BY DEF Entomb, Durable, Go
  <2> QED BY <1>1, <2>1 DEF Operation, Pcs
<1>3. \/ owner' = "revoked" /\ ended' = ended \union Admitted /\ proven' = proven \ {op.by}
      \/ UNCHANGED <<owner, ended, proven>>
  BY DEF Entomb, Durable
<1>4. op'.pc = "empty" =>
         owner' = "revoked" /\ ended' = ended \union Admitted /\ proven' = proven \ {op.by}
  BY <1>1 DEF Entomb, Durable, Go, Operation
<1>5. /\ faults' \in 0 .. MaxFaults
      /\ faults' = 0 => /\ faults = 0
                        /\ op'.pc # "empty" => UNCHANGED <<owner, ended, proven>>
  BY <1>1, StoreAssumption DEF Entomb, Durable, Go, Operation, Fault
<1>6. Typed'
  <2>1. Admitted \subseteq Results
    BY LatestIsResult DEF Admitted, IInv
  <2>2. ended' \subseteq Results /\ proven' \subseteq Instances /\ owner' \in {"live", "revoked"}
    BY <1>3, <2>1 DEF IInv, Typed
  <2> QED BY <1>1, <1>2, <1>5, <2>2 DEF IInv, Typed
<1>7. Ended'
  BY <1>1, <1>2, <1>3, <1>4, <1>5 DEF IInv, Ended
<1>8. Whole'
  BY <1>1, <1>2, <1>3, <1>4, <1>5 DEF IInv, Whole
<1>9. Selected'
  BY <1>1, <1>2, <1>3, <1>4, <1>5 DEF IInv, Selected
<1>10. Reached'
  BY <1>1, <1>2, <1>3, <1>4, <1>5 DEF IInv, Reached, OfView
<1>11. Tidy'
  BY <1>1, <1>2, <1>3, <1>4, <1>5 DEF IInv, Tidy, TidyStaged, TidyInstalled, TidyKept
<1> QED BY <1>6, <1>7, <1>8, <1>9, <1>10, <1>11 DEF IInv

LEMMA EmptyKeeps == ASSUME IInv, Empty PROVE IInv'
<1>1. Typed'
  <2>1. installed' \subseteq Results /\ pointer' \in [Results -> 0 .. MaxGenerations]
        /\ kept' \in [Results -> SUBSET (1 .. MaxGenerations)]
    BY StoreAssumption DEF IInv, Typed, Empty, Forget
  <2>2. staged' \subseteq Results \X (0 .. MaxGenerations) /\ faults' \in 0 .. MaxFaults
    BY StoreAssumption DEF IInv, Typed, Empty, Fault
  <2> QED BY <2>1, <2>2, IdleIsOperation DEF IInv, Typed, Empty, Done
<1>2. Ended'
  BY DEF IInv, Ended, Empty
<1>3. Whole'
  BY Pairs DEF IInv, Whole, Reached, Empty, At
<1>4. Selected'
  BY DEF IInv, Typed, Selected, Empty, Forget
<1>5. Reached'
  BY DEF IInv, Reached, OfView, Empty, Done, Idle
<1>6. Tidy'
  BY DEF IInv, Typed, Tidy, TidyStaged, TidyInstalled, TidyKept, Empty, Done, Idle, Forget, Fault
<1> QED BY <1>1, <1>2, <1>3, <1>4, <1>5, <1>6 DEF IInv

LEMMA OverKeeps == ASSUME IInv, Over PROVE IInv'
<1>1. Typed'
  BY StoreAssumption DEF IInv, Typed, Operation, Pcs, Over, Done, Idle, dirs, bodies
<1>2. Ended'
  BY DEF IInv, Ended, Over, dirs
<1>3. Whole'
  BY DEF IInv, Whole, Over, dirs, bodies
<1>4. Selected'
  BY DEF IInv, Selected, Over, dirs, bodies
<1>5. Reached'
  BY DEF IInv, Reached, OfView, Over, Done, Idle
<1>6. Tidy'
  BY DEF IInv, Tidy, TidyStaged, TidyInstalled, TidyKept, Over, At, Done, Idle, dirs, bodies
<1> QED BY <1>1, <1>2, <1>3, <1>4, <1>5, <1>6 DEF IInv

LEMMA CrashKeeps == ASSUME IInv, NEW i \in Instances, Crash(i) PROVE IInv'
<1>1. Typed'
  BY StoreAssumption DEF IInv, Typed, Operation, Pcs, Crash, Idle, dirs, bodies
<1>2. Ended'
  BY DEF IInv, Ended, Crash, dirs
<1>3. Whole'
  BY DEF IInv, Whole, Crash, dirs, bodies
<1>4. Selected'
  BY DEF IInv, Selected, Crash, dirs, bodies
<1>5. Reached'
  BY DEF IInv, Reached, OfView, Crash, Idle, dirs, bodies
<1>6. Tidy'
  BY DEF IInv, Typed, Tidy, Crash
<1> QED BY <1>1, <1>2, <1>3, <1>4, <1>5, <1>6 DEF IInv

LEMMA NextIInv == ASSUME IInv, [Next]_vars PROVE IInv'
<1>1. CASE UNCHANGED vars
  <2>1. Typed' /\ Ended' /\ Whole' /\ Selected'
    BY <1>1 DEF IInv, Typed, Ended, Whole, Selected, vars, dirs, bodies
  <2>2. Reached' /\ Tidy'
    BY <1>1 DEF IInv, Reached, Tidy, TidyStaged, TidyInstalled, TidyKept, vars, dirs, bodies
  <2> QED BY <2>1, <2>2 DEF IInv
<1>2. CASE Next
  BY <1>2, AuthenticateKeeps, AdmitKeeps, TakeSlotKeeps, SupersedeKeeps, PublishKeeps, StageKeeps,
     InstallKeeps, AnnounceKeeps, UndoKeeps, SaveViewKeeps, StageViewKeeps, InstallViewKeeps,
     PointKeeps, UndoViewKeeps, DropViewKeeps, ClearKeeps, ClearSlotsKeeps, RevokeKeeps,
     EntombKeeps, EmptyKeeps, OverKeeps, CrashKeeps DEF Next
<1> QED BY <1>1, <1>2

\* The inductive invariant holds.
THEOREM Invariance == Spec => []IInv
  BY InitIInv, NextIInv, PTL DEF Spec

\* What was superseded, cleared or revoked is never read again: the slots only
\* go on, and a published one is not among the ended.
THEOREM EndedStays == Spec => []EndedStaysEnded
<1>1. ASSUME IInv PROVE EndedStaysEnded
  <2> SUFFICES ASSUME NEW r \in ended, Readable(r) PROVE FALSE
    BY DEF EndedStaysEnded
  <2>1. r \in Results /\ owner = "live" /\ slot[r[1]].seq = r[2] /\ slot[r[1]].state = "published" /\ r[2] \in Nat
    BY <1>1, Pairs DEF IInv, Typed, Readable
  <2> QED BY <1>1, <2>1 DEF IInv, Ended
<1> QED BY <1>1, Invariance, PTL

\* What can be read is completely there, and without a failure or a death the
\* store holds nothing else between two operations.
THEOREM WholeResults == Spec => []ResultsWhole
<1>1. ASSUME IInv PROVE ReadableIsWhole /\ ViewsWhole
  BY <1>1, Pairs DEF IInv, Whole, Selected, ReadableIsWhole, ViewsWhole, Readable
<1>2. ASSUME IInv PROVE NothingLeftOver
  <2> SUFFICES ASSUME op = Idle, faults = 0, crashes = 0
               PROVE  /\ staged = {} /\ installed = {r \in Results : Readable(r)}
                      /\ \A r \in Results : kept[r] \subseteq {pointer[r]}
    BY DEF NothingLeftOver
  <2>1. op.pc = "idle" /\ TidyStaged /\ TidyInstalled /\ TidyKept
    BY <1>2 DEF IInv, Tidy, Idle
  <2>2. \A r \in installed : r \in Results /\ Readable(r)
    BY <1>2, <2>1, Pairs DEF IInv, Typed, TidyInstalled, Readable
  <2>3. \A r \in Results : Readable(r) => r \in installed
    BY <1>1, <1>2 DEF ReadableIsWhole
  <2> QED BY <2>1, <2>2, <2>3 DEF TidyStaged, TidyKept
<1>3. ASSUME IInv PROVE TypeOK
  <2>1. slot \in [Commands -> [seq : 0 .. MaxSeq, state : States]]
    BY <1>3 DEF IInv, Typed, Slot
  <2>2. op.by \in Instances \union {Nobody} /\ {op.gen, op.old} \subseteq 0 .. MaxGenerations
    BY <1>3 DEF IInv, Typed, Operation
  <2> QED BY <1>3, <2>1, <2>2 DEF IInv, Typed, TypeOK
<1> QED BY <1>1, <1>2, <1>3, Invariance, PTL DEF ResultsWhole

-----------------------------------------------------------------------------
(* Reads of the pages of a live list.                                        *)

Frame == [stated : Nat, data : Nat]
Read == [pc : ReadPcs, page : Pages \union {0}, want : Nat, frame : Frame, previous : Nat,
         notice : BOOLEAN, held : BOOLEAN]

Chosen == {"check", "commit", "answered"}       \* a page is in hand
Underway == Chosen \union {"look", "query", "recheck", "save", "select"}

ReadsTyped ==
    /\ revision \in 1 .. MaxRevision /\ permitted \in BOOLEAN /\ alive \in BOOLEAN
    /\ toggles \in 0 .. MaxToggles /\ regressed \in BOOLEAN
    /\ view \in Frame /\ observed \in [Pages -> Nat]
    /\ announced \in [Pages -> SUBSET Nat] /\ lost \in [Pages -> SUBSET Nat] /\ accepted \subseteq Pages

\* The view is of one revision; what was observed was announced or lost, and is not
\* newer than the view, nor older than what was accepted for it.
World ==
    /\ ReadsTyped
    /\ view.stated = view.data /\ view.stated <= revision
    /\ \A g \in Pages :
          /\ observed[g] <= revision
          /\ observed[g] # 0 => observed[g] \in announced[g] \union lost[g]
          /\ ~ regressed => observed[g] <= view.stated
    /\ AcceptedWins

\* What a read r knows at each of its steps.
Reading(r) ==
    /\ r \in Read /\ r.want <= revision
    /\ r.pc \in Underway => r.page \in Pages /\ r.want >= 1
    /\ r.pc = "recheck" => r.frame.stated = r.want /\ r.want <= r.frame.data /\ r.frame.data <= revision
    /\ r.pc = "save" => r.frame.stated = r.want /\ r.frame.data = r.want
    /\ r.pc \in Chosen \union {"select"} => view.stated # 0
    /\ r.pc \in Chosen =>
          /\ r.frame.stated = r.frame.data /\ r.frame.stated <= revision
          /\ r.notice \/ r.frame.stated \in {Opening} \union announced[r.page] \union lost[r.page]
          /\ ~ regressed => r.frame.stated <= view.stated /\ r.previous <= r.frame.stated
    /\ r.pc = "check" /\ permitted => r.held
    /\ r.pc = "commit" => r.notice
    /\ r.pc \in {"commit", "answered"} => r.held

ReadsInv ==
    /\ World
    /\ rd \in [Readers -> Read]
    /\ \A p \in Readers : Reading(rd[p])

world == <<revision, permitted, toggles, alive, view, observed, history>>

LEMMA IdleReads ==
    ASSUME World
    PROVE  /\ Reading(NotReading)
           /\ Reading([NotReading EXCEPT !.pc = "refused"])
           /\ \A g \in Pages : Reading([NotReading EXCEPT !.pc = "look", !.page = g, !.want = revision])
<1>1. revision \in Nat /\ revision >= 1
  BY ReadsAssumption DEF World, ReadsTyped
<1>2. NotReading \in Read /\ NotReading.want = 0 /\ NotReading.pc = "idle"
  BY DEF Read, Frame, NotReading, NoView, ReadPcs
<1>3. Reading(NotReading)
  BY <1>1, <1>2 DEF Reading, Chosen, Underway
<1>4. Reading([NotReading EXCEPT !.pc = "refused"])
  <2>1. [NotReading EXCEPT !.pc = "refused"] \in Read
    BY <1>2 DEF Read, ReadPcs
  <2> QED BY <1>1, <1>2, <2>1 DEF Reading, Chosen, Underway, NotReading
<1>5. ASSUME NEW g \in Pages
      PROVE  Reading([NotReading EXCEPT !.pc = "look", !.page = g, !.want = revision])
  <2> DEFINE r == [NotReading EXCEPT !.pc = "look", !.page = g, !.want = revision]
  <2>1. r \in Read
    BY <1>1, <1>2 DEF Read, ReadPcs
  <2>2. r.pc = "look" /\ r.page = g /\ r.want = revision
    BY DEF NotReading
  <2> HIDE DEF r
  <2>3. Reading(r)
    BY <1>1, <2>1, <2>2 DEF Reading, Chosen, Underway
  <2> QED BY <2>3 DEF r
<1> QED BY <1>3, <1>4, <1>5

LEMMA InitReadsInv == ASSUME ReadsInit PROVE ReadsInv
<1>1. World
  <2>1. ReadsTyped
    <3>1. view \in Frame
      BY DEF ReadsInit, Frame, NoView, Opening
    <3>2. revision \in 1 .. MaxRevision /\ toggles \in 0 .. MaxToggles
      BY ReadsAssumption DEF ReadsInit, Opening
    <3>4. permitted \in BOOLEAN /\ alive \in BOOLEAN /\ regressed \in BOOLEAN
      BY Zenon DEF ReadsInit
    <3>3. /\ observed \in [Pages -> Nat]
          /\ announced \in [Pages -> SUBSET Nat] /\ lost \in [Pages -> SUBSET Nat] /\ accepted \subseteq Pages
      BY DEF ReadsInit
    <3> QED BY <3>1, <3>2, <3>3, <3>4 DEF ReadsTyped
  <2>2. view.stated = view.data /\ view.stated <= revision /\ view.stated \in Nat /\ revision \in Nat
    BY DEF ReadsInit, NoView, Opening
  <2>3. accepted = {} /\ \A g \in Pages : observed[g] = 0
    BY DEF ReadsInit
  <2> QED BY <2>1, <2>2, <2>3 DEF World, AcceptedWins
<1>2. Reading(NotReading)
  BY <1>1, IdleReads
<1>3. rd = [p \in Readers |-> NotReading]
  BY DEF ReadsInit
<1>4. rd \in [Readers -> Read] /\ \A p \in Readers : Reading(rd[p])
  BY <1>2, <1>3 DEF Reading
<1> QED BY <1>1, <1>4 DEF ReadsInv

\* A step of a single read that leaves the world alone.
LEMMA Moves ==
    ASSUME ReadsInv, NEW p \in Readers, NEW r, Reading(r),
           rd' = [rd EXCEPT ![p] = r], UNCHANGED world
    PROVE  ReadsInv'
<1>1. World'
  BY DEF ReadsInv, World, ReadsTyped, AcceptedWins, world, history
<1>2. rd' \in [Readers -> Read]
  BY DEF ReadsInv, Reading
<1>3. ASSUME NEW q \in Readers PROVE Reading(rd[q])'
  <2>1. Reading(rd'[q])
    BY DEF ReadsInv
  <2> QED BY <2>1 DEF Reading, world, history
<1> QED BY <1>1, <1>2, <1>3 DEF ReadsInv

LEMMA RefusedKeeps ==
    ASSUME ReadsInv, NEW p \in Readers, Refused(p), UNCHANGED world
    PROVE  ReadsInv'
  BY IdleReads, Moves DEF Refused, ReadsInv

LEMMA BeginKeeps == ASSUME ReadsInv, NEW p \in Readers, Begin(p) PROVE ReadsInv'
<1>1. UNCHANGED world
  BY DEF Begin, Unchanged, world
<1>2. CASE ~ (alive /\ permitted)
  BY <1>1, <1>2, RefusedKeeps DEF Begin
<1>3. CASE alive /\ permitted
  <2>1. PICK g \in Pages :
          rd' = [rd EXCEPT ![p] = [NotReading EXCEPT !.pc = "look", !.page = g, !.want = revision]]
    BY <1>3 DEF Begin
  <2> QED BY <1>1, <2>1, IdleReads, Moves DEF ReadsInv
<1> QED BY <1>2, <1>3

LEMMA LookKeeps == ASSUME ReadsInv, NEW p \in Readers, Look(p) PROVE ReadsInv'
<1>1. UNCHANGED world /\ rd[p].pc = "look"
  BY DEF Look, Step, IsAt, Unchanged, world
<1>2. CASE ~ alive
  BY <1>1, <1>2, RefusedKeeps DEF Look, Step
<1>3. CASE alive
  <2> DEFINE r == [rd[p] EXCEPT !.pc = IF view.stated = rd[p].want THEN "select" ELSE "query"]
  <2>1. rd' = [rd EXCEPT ![p] = r]
    BY <1>3 DEF Look, Step
  <2>2. rd[p] \in Read /\ Reading(rd[p]) /\ view.stated \in Nat
    BY DEF ReadsInv, World, ReadsTyped, Frame
  <2>3. /\ r \in Read /\ r.pc \in {"select", "query"} /\ r.page = rd[p].page /\ r.want = rd[p].want
        /\ r.pc = "select" => view.stated = rd[p].want
    BY <2>2 DEF Read, ReadPcs
  <2> HIDE DEF r
  <2>4. Reading(r)
    BY <1>1, <2>2, <2>3 DEF Reading, Read, Chosen, Underway
  <2> QED BY <1>1, <2>1, <2>4, Moves
<1> QED BY <1>2, <1>3

LEMMA QueryKeeps == ASSUME ReadsInv, NEW p \in Readers, Query(p) PROVE ReadsInv'
<1>1. UNCHANGED world /\ rd[p].pc = "query"
  BY DEF Query, IsAt, Unchanged, world
<1>2. CASE Refused(p)
  BY <1>1, <1>2, RefusedKeeps
<1>3. CASE rd' = [rd EXCEPT ![p].pc = "recheck", ![p].frame = [stated |-> rd[p].want, data |-> revision]]
  <2> DEFINE r == [rd[p] EXCEPT !.pc = "recheck", !.frame = [stated |-> rd[p].want, data |-> revision]]
  <2>1. rd' = [rd EXCEPT ![p] = r]
    BY <1>3 DEF ReadsInv
  <2>2. r \in Read /\ revision \in Nat /\ rd[p] \in Read
    <3>1. revision \in Nat /\ rd[p] \in Read
      BY ReadsAssumption DEF ReadsInv, World, ReadsTyped
    <3>2. [stated |-> rd[p].want, data |-> revision] \in Frame
      BY <3>1 DEF Read, Frame
    <3> QED BY <3>1, <3>2 DEF Read, ReadPcs
  <2>3. /\ r.pc = "recheck" /\ r.page = rd[p].page /\ r.want = rd[p].want
        /\ r.frame.stated = rd[p].want /\ r.frame.data = revision
    BY <2>2 DEF Read
  <2>4. rd[p].page \in Pages /\ rd[p].want >= 1 /\ rd[p].want <= revision /\ rd[p].want \in Nat
    BY <1>1 DEF ReadsInv, Reading, Underway, Read
  <2> HIDE DEF r
  <2>5. Reading(r)
    BY <2>2, <2>3, <2>4 DEF Reading, Chosen, Underway
  <2> QED BY <1>1, <2>1, <2>5, Moves
<1> QED BY <1>2, <1>3 DEF Query

LEMMA RecheckKeeps == ASSUME ReadsInv, NEW p \in Readers, Recheck(p) PROVE ReadsInv'
<1>1. UNCHANGED world /\ rd[p].pc = "recheck"
  BY DEF Recheck, IsAt, Unchanged, world
<1>2. CASE revision # rd[p].want
  BY <1>1, <1>2, RefusedKeeps DEF Recheck
<1>3. CASE revision = rd[p].want
  <2> DEFINE r == [rd[p] EXCEPT !.pc = "save"]
  <2>1. rd' = [rd EXCEPT ![p] = r]
    BY <1>3 DEF Recheck
  <2>2. rd[p] \in Read /\ Reading(rd[p])
    BY DEF ReadsInv
  <2>3. /\ r \in Read /\ r.pc = "save" /\ r.page = rd[p].page /\ r.want = rd[p].want
        /\ r.frame = rd[p].frame
    BY <2>2 DEF Read, ReadPcs
  <2> HIDE DEF r
  <2>4. Reading(r)
    BY <1>1, <1>3, <2>2, <2>3 DEF Reading, Read, Frame, Chosen, Underway
  <2> QED BY <1>1, <2>1, <2>4, Moves
<1> QED BY <1>2, <1>3

\* The reads in a world in which the view has changed or more is known.
LEMMA SaveKeeps == ASSUME ReadsInv, NEW p \in Readers, Save(p) PROVE ReadsInv'
<1>1. UNCHANGED <<revision, permitted, toggles, alive>> /\ rd[p].pc = "save"
  BY DEF Save, IsAt, Unchanged
<1>2. CASE Refused(p) /\ UNCHANGED <<view, observed, history>>
  BY <1>1, <1>2, RefusedKeeps DEF world
<1>3. CASE /\ view' = rd[p].frame
           /\ rd' = [rd EXCEPT ![p].pc = "select"] \/ Refused(p)
           /\ accepted' = {}
           /\ regressed' = (regressed \/ rd[p].frame.stated < view.stated)
           /\ UNCHANGED <<observed, announced, lost>>
  <2>1. /\ rd[p] \in Read /\ rd[p].page \in Pages /\ rd[p].want >= 1 /\ rd[p].want <= revision
        /\ rd[p].frame.stated = rd[p].want /\ rd[p].frame.data = rd[p].want
        /\ rd[p].frame \in Frame /\ rd[p].want \in Nat /\ view \in Frame /\ revision \in Nat
    BY <1>1, ReadsAssumption DEF ReadsInv, World, ReadsTyped, Reading, Underway, Read
  <2>2. view'.stated = rd[p].want /\ view'.data = rd[p].want
    BY <1>3, <2>1
  <2>3. ~ regressed' => ~ regressed /\ view.stated <= view'.stated
    <3>1. ~ regressed' => ~ regressed /\ ~ (rd[p].frame.stated < view.stated)
      BY <1>3, Zenon
    <3>2. rd[p].frame.stated \in Nat /\ view.stated \in Nat
      BY <2>1 DEF Frame
    <3> QED BY <2>1, <2>2, <3>1, <3>2
  <2>4. ReadsTyped'
    BY <1>1, <1>3, <2>1 DEF ReadsInv, World, ReadsTyped
  <2>5. ASSUME NEW g \in Pages
        PROVE  /\ observed'[g] <= revision'
               /\ observed'[g] # 0 => observed'[g] \in announced'[g] \union lost'[g]
               /\ ~ regressed' => observed'[g] <= view'.stated
    BY <1>1, <1>3, <2>1, <2>2, <2>3 DEF ReadsInv, World, ReadsTyped, Frame
  <2>6. AcceptedWins'
    BY <1>3 DEF AcceptedWins
  <2>7. World'
    BY <1>1, <2>1, <2>2, <2>4, <2>5, <2>6 DEF World
  <2>8. PICK r \in Read :
          /\ rd' = [rd EXCEPT ![p] = r]
          /\ \/ r.pc = "select" /\ r.page = rd[p].page /\ r.want = rd[p].want
             \/ r.pc = "refused" /\ r.want = 0
    <3>1. CASE rd' = [rd EXCEPT ![p].pc = "select"]
      <4> DEFINE n == [rd[p] EXCEPT !.pc = "select"]
      <4>1. n \in Read /\ n.pc = "select" /\ n.page = rd[p].page /\ n.want = rd[p].want
        BY <2>1 DEF Read, ReadPcs
      <4>2. rd' = [rd EXCEPT ![p] = n]
        BY <3>1
      <4> HIDE DEF n
      <4> QED BY <4>1, <4>2
    <3>2. CASE Refused(p)
      BY <3>2, IdleReads DEF Refused, ReadsInv, Reading, NotReading
    <3> QED BY <1>3, <3>1, <3>2
  <2>9. rd' \in [Readers -> Read] /\ Reading(rd[p])'
    <3>1. rd' \in [Readers -> Read] /\ rd'[p] = r
      BY <2>8 DEF ReadsInv
    <3> QED BY <1>1, <2>1, <2>2, <2>8, <3>1 DEF Reading, Chosen, Underway
  <2>10. ASSUME NEW q \in Readers, q # p PROVE Reading(rd[q])'
    <3>1. rd'[q] = rd[q] /\ Reading(rd[q]) /\ rd[q].frame.stated \in Nat
      BY <2>8, <2>10 DEF ReadsInv, Read, Frame
    <3>2. UNCHANGED <<revision, permitted, announced, lost>>
      BY <1>1, <1>3
    <3>3. view'.stated # 0 /\ view'.stated \in Nat /\ view.stated \in Nat
      BY <2>1, <2>2 DEF Frame
    <3>4. rd'[q].pc \in Chosen /\ ~ regressed' =>
            rd'[q].frame.stated <= view'.stated /\ rd'[q].previous <= rd'[q].frame.stated
      BY <2>3, <3>1, <3>3 DEF Reading
    <3> QED BY <3>1, <3>2, <3>3, <3>4 DEF Reading
  <2> QED BY <2>7, <2>9, <2>10 DEF ReadsInv
<1> QED BY <1>2, <1>3 DEF Save

LEMMA SelectKeeps == ASSUME ReadsInv, NEW p \in Readers, Select(p) PROVE ReadsInv'
<1>1. UNCHANGED world /\ rd[p].pc = "select"
  BY DEF Select, Step, IsAt, Unchanged, world
<1>2. CASE ~ alive
  BY <1>1, <1>2, RefusedKeeps DEF Select, Step
<1>3. CASE alive
  <2> DEFINE g == rd[p].page
             r == [rd[p] EXCEPT !.pc = "check", !.frame = view, !.previous = observed[g],
                                !.notice = Changes(g), !.held = permitted]
  <2>1. rd' = [rd EXCEPT ![p] = r]
    BY <1>3 DEF Select, Step, Selects
  <2>2. /\ rd[p] \in Read /\ g \in Pages /\ rd[p].want >= 1 /\ rd[p].want <= revision
        /\ view \in Frame /\ view.stated # 0 /\ observed[g] \in Nat /\ permitted \in BOOLEAN
        /\ Changes(g) \in BOOLEAN
    BY <1>1 DEF ReadsInv, World, ReadsTyped, Reading, Underway, Changes
  <2>3. r \in Read
    BY <2>2 DEF Read, ReadPcs
  <2>4. /\ r.pc = "check" /\ r.page = g /\ r.want = rd[p].want /\ r.frame = view
        /\ r.previous = observed[g] /\ r.notice = Changes(g) /\ r.held = permitted
    BY <2>2 DEF Read
  <2>5. Changes(g) \/ view.stated \in {Opening} \union announced[g] \union lost[g]
    BY <2>2 DEF ReadsInv, World, Changes
  <2>6. ~ regressed => observed[g] <= view.stated
    BY <2>2 DEF ReadsInv, World
  <2>7. view.stated = view.data /\ view.stated \in Nat /\ view.stated <= revision
    BY <2>2 DEF ReadsInv, World, Frame
  <2> HIDE DEF g, r
  <2>8. Reading(r)
    BY <2>2, <2>3, <2>4, <2>5, <2>6, <2>7 DEF Reading, Chosen, Underway
  <2> QED BY <1>1, <2>1, <2>8, Moves
<1> QED BY <1>2, <1>3

LEMMA LastCheckKeeps == ASSUME ReadsInv, NEW p \in Readers, LastCheck(p) PROVE ReadsInv'
<1>1. UNCHANGED world /\ rd[p].pc = "check"
  BY DEF LastCheck, IsAt, Unchanged, world
<1>2. CASE ~ permitted
  BY <1>1, <1>2, RefusedKeeps DEF LastCheck
<1>3. CASE permitted
  <2> DEFINE r == [rd[p] EXCEPT !.pc = IF rd[p].notice THEN "commit" ELSE "answered"]
  <2>1. rd' = [rd EXCEPT ![p] = r]
    BY <1>3 DEF LastCheck
  <2>2. rd[p] \in Read /\ Reading(rd[p])
    BY DEF ReadsInv
  <2>3. r \in Read
    BY <2>2 DEF Read, ReadPcs
  <2>4. /\ r.pc = IF rd[p].notice THEN "commit" ELSE "answered"
        /\ r.page = rd[p].page /\ r.want = rd[p].want /\ r.frame = rd[p].frame
        /\ r.previous = rd[p].previous /\ r.notice = rd[p].notice /\ r.held = rd[p].held
    BY <2>2 DEF Read
  <2> HIDE DEF r
  <2>5. Reading(r)
    BY <1>1, <1>3, <2>2, <2>3, <2>4 DEF Reading, Chosen, Underway
  <2> QED BY <1>1, <2>1, <2>5, Moves
<1> QED BY <1>2, <1>3

LEMMA CommitKeeps == ASSUME ReadsInv, NEW p \in Readers, Commit(p) PROVE ReadsInv'
<1> DEFINE g == rd[p].page
           s == rd[p].frame.stated
<1>1. UNCHANGED <<revision, permitted, toggles, alive, view, regressed>> /\ rd[p].pc = "commit"
  BY DEF Commit, IsAt, Unchanged
<1>2. CASE Refused(p) /\ UNCHANGED <<observed, announced, accepted, lost>>
  BY <1>1, <1>2, RefusedKeeps DEF world, history
<1>3. CASE /\ IF Stands(p)
                 THEN /\ observed' = [observed EXCEPT ![g] = s]
                      /\ accepted' = IF s = view.stated THEN accepted \union {g} ELSE accepted
                 ELSE UNCHANGED <<observed, accepted>>
           /\ \/ /\ rd' = [rd EXCEPT ![p].pc = "answered"] /\ UNCHANGED lost
                 /\ announced' = [announced EXCEPT ![g] = @ \union {s}]
              \/ /\ Stands(p) /\ Refused(p) /\ UNCHANGED announced
                 /\ lost' = [lost EXCEPT ![g] = @ \union {s}]
  <2>1. /\ Reading(rd[p]) /\ rd[p] \in Read /\ g \in Pages /\ s \in Nat /\ s <= revision
        /\ rd[p].previous \in Nat /\ rd[p].held /\ rd[p].notice
    BY <1>1 DEF ReadsInv, Reading, Read, Frame, Underway, Chosen
  <2>2. ~ regressed => s <= view.stated /\ rd[p].previous <= s
    BY <1>1, <2>1 DEF Reading, Chosen
  <2>3. /\ revision \in Nat /\ view.stated \in Nat /\ observed \in [Pages -> Nat]
        /\ announced \in [Pages -> SUBSET Nat] /\ lost \in [Pages -> SUBSET Nat] /\ accepted \subseteq Pages
    BY ReadsAssumption DEF ReadsInv, World, ReadsTyped, Frame
  <2> HIDE DEF g, s
  <2>4. /\ observed' \in [Pages -> Nat] /\ accepted' \subseteq Pages
        /\ announced' \in [Pages -> SUBSET Nat] /\ lost' \in [Pages -> SUBSET Nat]
    BY <1>3, <2>1, <2>3
  <2>5. ReadsTyped'
    BY <1>1, <2>4 DEF ReadsInv, World, ReadsTyped
  <2>6. ASSUME NEW h \in Pages
        PROVE  /\ announced[h] \subseteq announced'[h] /\ lost[h] \subseteq lost'[h]
               /\ observed'[h] <= revision
               /\ observed'[h] # 0 => observed'[h] \in announced'[h] \union lost'[h]
               /\ ~ regressed => observed'[h] <= view.stated
    <3>1. /\ observed[h] <= revision
          /\ observed[h] # 0 => observed[h] \in announced[h] \union lost[h]
          /\ ~ regressed => observed[h] <= view.stated
      BY DEF ReadsInv, World
    <3>2. CASE h # g
      BY <1>3, <2>1, <2>3, <3>1, <3>2
    <3>3. CASE h = g
      <4>1. /\ announced[h] \subseteq announced'[h] /\ lost[h] \subseteq lost'[h]
            /\ s \in announced'[h] \union lost'[h]
        BY <1>3, <2>1, <2>3, <3>3
      <4>2. observed'[h] = s \/ observed'[h] = observed[h]
        BY <1>3, <2>1, <2>3, <3>3
      <4> QED BY <2>1, <2>2, <3>1, <4>1, <4>2
    <3> QED BY <3>2, <3>3
  <2>7. ASSUME ~ regressed, NEW h \in accepted'
        PROVE  observed'[h] = view.stated
    <3>1. h \in accepted => observed[h] = view.stated
      BY <2>7 DEF ReadsInv, World, AcceptedWins
    <3>2. CASE h # g \/ ~ Stands(p)
      BY <1>3, <2>1, <2>3, <2>7, <3>1, <3>2
    <3>3. CASE h = g /\ Stands(p)
      <4>1. observed'[h] = s /\ (h \in accepted \/ s = view.stated)
        BY <1>3, <2>1, <2>3, <2>7, <3>3
      <4>2. observed[h] = rd[p].previous
        BY <3>3 DEF Stands, g
      <4> QED BY <2>1, <2>2, <2>3, <2>7, <3>1, <4>1, <4>2
    <3> QED BY <3>2, <3>3
  <2>8. World'
    <3>1. AcceptedWins'
      BY <1>1, <2>7 DEF AcceptedWins
    <3> QED BY <1>1, <2>5, <2>6, <3>1 DEF ReadsInv, World
  <2>9. PICK r \in Read :
          /\ rd' = [rd EXCEPT ![p] = r]
          /\ \/ /\ r.pc = "answered" /\ r.page = rd[p].page /\ r.want = rd[p].want
                /\ r.frame = rd[p].frame /\ r.previous = rd[p].previous
                /\ r.notice = rd[p].notice /\ r.held = rd[p].held
             \/ r.pc = "refused" /\ r.want = 0
    <3>1. CASE rd' = [rd EXCEPT ![p].pc = "answered"]
      <4> DEFINE n == [rd[p] EXCEPT !.pc = "answered"]
      <4>1. /\ n \in Read /\ n.pc = "answered" /\ n.page = rd[p].page /\ n.want = rd[p].want
            /\ n.frame = rd[p].frame /\ n.previous = rd[p].previous
            /\ n.notice = rd[p].notice /\ n.held = rd[p].held
        BY <2>1 DEF Read, ReadPcs
      <4>2. rd' = [rd EXCEPT ![p] = n]
        BY <3>1
      <4> HIDE DEF n
      <4> QED BY <4>1, <4>2
    <3>2. CASE Refused(p)
      BY <3>2, IdleReads DEF Refused, ReadsInv, Reading, NotReading
    <3> QED BY <1>3, <3>1, <3>2
  <2>10. rd' \in [Readers -> Read] /\ Reading(rd[p])'
    <3>1. rd' \in [Readers -> Read] /\ rd'[p] = r
      BY <2>9 DEF ReadsInv
    <3>2. Reading(r)'
      <4>1. CASE r.pc = "refused"
        BY <2>3, <2>9, <4>1, <1>1 DEF Reading, Chosen, Underway
      <4>2. CASE r.pc = "answered"
        <5>1. /\ r.page = g /\ r.want = rd[p].want /\ r.want >= 1 /\ r.want <= revision
              /\ r.frame = rd[p].frame /\ r.previous = rd[p].previous
              /\ r.notice /\ r.held /\ view.stated # 0
              /\ r.frame.stated = r.frame.data /\ r.frame.stated <= revision
              /\ ~ regressed => r.frame.stated <= view.stated /\ r.previous <= r.frame.stated
          BY <1>1, <2>1, <2>9, <4>2 DEF Reading, Chosen, Underway, g
        <5> QED BY ONLY <1>1, <2>1, <2>9, <4>2, <5>1 DEF Reading, Chosen, Underway
      <4> QED BY <2>9, <4>1, <4>2
    <3> QED BY <3>1, <3>2
  <2>11. ASSUME NEW q \in Readers, q # p PROVE Reading(rd[q])'
    <3>1. rd'[q] = rd[q] /\ Reading(rd[q])
      BY <2>9, <2>11 DEF ReadsInv
    <3>2. rd[q].pc \in Chosen => /\ announced[rd[q].page] \subseteq announced'[rd[q].page]
                                /\ lost[rd[q].page] \subseteq lost'[rd[q].page]
      BY <2>6, <3>1 DEF Reading, Underway
    <3> QED BY <1>1, <3>1, <3>2 DEF Reading
  <2> QED BY <2>8, <2>10, <2>11 DEF ReadsInv
<1> QED BY <1>2, <1>3 DEF Commit

\* The source changes: what is of an earlier revision stays so.
LEMMA ChangeKeeps == ASSUME ReadsInv, Change PROVE ReadsInv'
<1>1. /\ revision \in Nat /\ revision' = revision + 1 /\ revision' \in 1 .. MaxRevision
      /\ view.stated \in Nat /\ observed \in [Pages -> Nat]
      /\ UNCHANGED <<permitted, toggles, alive, view, observed, rd, history>>
  BY ReadsAssumption DEF ReadsInv, World, ReadsTyped, Frame, Change
<1>2. World'
  <2>1. ReadsTyped'
    BY <1>1 DEF ReadsInv, World, ReadsTyped, history
  <2>2. view'.stated = view'.data /\ view'.stated <= revision'
    BY <1>1 DEF ReadsInv, World
  <2>3. ASSUME NEW g \in Pages
        PROVE  /\ observed'[g] <= revision'
               /\ observed'[g] # 0 => observed'[g] \in announced'[g] \union lost'[g]
               /\ ~ regressed' => observed'[g] <= view'.stated
    BY <1>1 DEF ReadsInv, World, history
  <2>4. AcceptedWins'
    BY <1>1 DEF ReadsInv, World, AcceptedWins, history
  <2> QED BY <2>1, <2>2, <2>3, <2>4 DEF World
<1>3. ASSUME NEW q \in Readers PROVE Reading(rd[q])'
  <2>1. rd'[q] = rd[q] /\ Reading(rd[q]) /\ rd[q].want \in Nat /\ rd[q].frame \in Frame
    BY <1>1 DEF ReadsInv, Read
  <2> QED BY <1>1, <2>1 DEF Reading, Frame, history
<1> QED BY <1>1, <1>2, <1>3 DEF ReadsInv

\* Permission is taken or given back, which the reads about to be checked note.
LEMMA ToggleKeeps == ASSUME ReadsInv, Toggle PROVE ReadsInv'
<1>1. /\ permitted' = ~ permitted /\ permitted \in BOOLEAN /\ toggles' \in 0 .. MaxToggles
      /\ UNCHANGED <<revision, alive, view, observed, history>>
      /\ rd' = [p \in Readers |-> IF IsAt(p, "check") THEN [rd[p] EXCEPT !.held = @ \/ ~ permitted] ELSE rd[p]]
  BY ReadsAssumption DEF ReadsInv, World, ReadsTyped, Toggle
<1>2. World'
  <2>1. ReadsTyped'
    BY <1>1 DEF ReadsInv, World, ReadsTyped, history
  <2> QED BY <1>1, <2>1 DEF ReadsInv, World, AcceptedWins, history
<1>3. ASSUME NEW q \in Readers PROVE rd'[q] \in Read /\ Reading(rd[q])'
  <2>1. rd[q] \in Read /\ Reading(rd[q])
    BY DEF ReadsInv
  <2>2. CASE rd[q].pc # "check"
    <3>1. rd'[q] = rd[q]
      BY <1>1, <2>2 DEF IsAt
    <3> QED BY <1>1, <2>1, <2>2, <3>1 DEF Reading, history
  <2>3. CASE rd[q].pc = "check"
    <3> DEFINE r == [rd[q] EXCEPT !.held = @ \/ ~ permitted]
    <3>1. rd'[q] = r
      BY <1>1, <2>3 DEF IsAt
    <3>2. r \in Read
      BY <2>1 DEF Read
    <3>3. /\ r.pc = "check" /\ r.page = rd[q].page /\ r.want = rd[q].want /\ r.frame = rd[q].frame
          /\ r.previous = rd[q].previous /\ r.notice = rd[q].notice
      BY <2>1, <2>3 DEF Read
    <3>4. r.held = (rd[q].held \/ ~ permitted)
      BY <2>1 DEF Read
    <3>5. permitted' => r.held
      BY <1>1, <3>4
    <3> HIDE DEF r
    <3> QED BY <1>1, <2>1, <2>3, <3>1, <3>2, <3>3, <3>5 DEF Reading, Chosen, Underway, history
  <2> QED BY <2>2, <2>3
<1>4. rd' \in [Readers -> Read]
  BY <1>1, <1>3
<1> QED BY <1>2, <1>3, <1>4 DEF ReadsInv

LEMMA EndsKeeps == ASSUME ReadsInv, Ends PROVE ReadsInv'
<1>1. World'
  BY DEF ReadsInv, World, ReadsTyped, AcceptedWins, Ends, history
<1> QED BY <1>1 DEF ReadsInv, Reading, Ends, history

LEMMA NextReadsInv == ASSUME ReadsInv, [ReadsNext]_readsVars PROVE ReadsInv'
<1>1. CASE UNCHANGED readsVars
  BY <1>1 DEF ReadsInv, World, ReadsTyped, Reading, AcceptedWins, readsVars
<1>2. CASE ReadsNext
  BY <1>2, BeginKeeps, LookKeeps, QueryKeeps, RecheckKeeps, SaveKeeps, SelectKeeps,
     LastCheckKeeps, CommitKeeps, ChangeKeeps, ToggleKeeps, EndsKeeps DEF ReadsNext
<1> QED BY <1>1, <1>2

\* The inductive invariant holds.
THEOREM ReadsInvHolds == ReadsSpec => []ReadsInv
  BY InitReadsInv, NextReadsInv, PTL DEF ReadsSpec

\* A page that is answered is of the revision that it states, whatever changed or
\* was replaced while it was read, and was permitted after it was selected.
THEOREM PagesTrue == ReadsSpec => []AnswersTrue
<1>1. ReadsInv => PageIsWhatItSays /\ CheckedLast
  BY DEF ReadsInv, Reading, Chosen, PageIsWhatItSays, CheckedLast, IsAt
<1>2. ReadsInv => ReadsTypeOK
  <2> SUFFICES ASSUME ReadsInv PROVE ReadsTypeOK
    OBVIOUS
  <2>1. /\ revision \in 1 .. MaxRevision /\ revision \in Nat /\ permitted \in BOOLEAN
        /\ alive \in BOOLEAN /\ toggles \in 0 .. MaxToggles
    BY ReadsAssumption DEF ReadsInv, World, ReadsTyped
  <2>2. view \in [stated : 0 .. revision, data : 0 .. revision]
    BY <2>1 DEF ReadsInv, World, ReadsTyped, Frame
  <2>3. observed \in [Pages -> 0 .. revision]
    BY <2>1 DEF ReadsInv, World, ReadsTyped
  <2>4. \A p \in Readers :
          /\ rd[p].pc \in ReadPcs /\ rd[p].want \in 0 .. revision
          /\ rd[p].pc \in {"select", "check", "commit", "answered"} => view.stated # 0
    BY <2>1 DEF ReadsInv, Reading, Read, Chosen
  <2> QED BY <2>1, <2>2, <2>3, <2>4 DEF ReadsTypeOK
<1> QED BY <1>1, <1>2, ReadsInvHolds, PTL DEF AnswersTrue

\* A change is announced before a page is answered without a notice of it, unless
\* the commit of the notice failed after its effect, and a committed notice is not
\* given again, while views do not go back.
THEOREM Announced == ReadsSpec => []NoticesKept
<1>1. ReadsInv => NoticesKept
  BY DEF ReadsInv, World, Reading, Chosen, NoticesKept, ChangesAnnounced, IsAt
<1> QED BY <1>1, ReadsInvHolds, PTL

----------------------------------------------------------------------------
(* The accounting: its invariant.                                            *)

\* What the call in progress has charged to d and not done yet.
Owing(d) ==
    IF call.kind = "mkdir" /\ d \in Proper(call.at) THEN 1
    ELSE IF call.kind = "move" /\ d \in Proper(call.to) \ Proper(call.at) THEN Bytes(call.at)
    ELSE IF call.kind = "move" /\ d \in Proper(call.at) \ Proper(call.to) THEN - Bytes(call.at)
    ELSE 0

\* The subtotals in memory can be believed.
Believed == tx.pc = "open" /\ ~ tx.failed /\ call.kind # "unlink"

\* They are what the directories hold, and what the call owes them; those that
\* were not changed are the ones on disk.
MemoryExact ==
    Believed =>
        /\ DOMAIN tx.totals \subseteq tree /\ tx.changed \subseteq DOMAIN tx.totals
        /\ \A d \in tree : Loadable({d}) /\ Total(d) = Bytes(d) + Owing(d)
        /\ \A d \in DOMAIN tx.totals \ tx.changed : tx.totals[d] = counter[d]

\* A transaction that counts or saves is done with the directories that it has
\* no work on.
WorkLeft ==
    tx.pc \in {"recount", "saving"} =>
        /\ ~ tx.failed /\ call.kind = "none"
        /\ \A d \in tree \ tx.changed : counter[d] = Bytes(d)
        /\ tx.pc = "saving" => /\ tx.changed \subseteq DOMAIN tx.totals
                               /\ \A d \in tx.changed : tx.totals[d] = Bytes(d)

\* Nothing is changed under a clean marker.
MarkedFirst ==
    /\ tx.pc \in {"recount", "saving"} \/ (tx.pc = "open" /\ tx.dirty) => marker = "dirty"
    /\ call.kind # "none" => tx.pc = "open" /\ tx.dirty
    /\ tx.dirty \in BOOLEAN /\ tx.failed \in BOOLEAN

\* The records in memory.
IsCall(c) == c = [kind |-> c.kind, at |-> c.at, to |-> c.to, left |-> c.left,
                  written |-> c.written, reserved |-> c.reserved, enforce |-> c.enforce]
Shapes ==
    /\ tx = [pc |-> tx.pc, totals |-> tx.totals, changed |-> tx.changed, dirty |-> tx.dirty, failed |-> tx.failed]
    /\ IsCall(call)
    /\ tx.totals = [d \in DOMAIN tx.totals |-> tx.totals[d]]

\* A call is about directories that are there, or not yet there, and was let in
\* because there is room.
CallSound ==
    /\ call.kind \in {"write", "unlink"} =>
         /\ ~ tx.failed /\ call.at \in tree /\ call.left \in Nat /\ call.written \in 0..bytes[call.at]
         /\ call.kind = "write" => bytes[call.at] + call.left <= MaxBytes
    /\ call.kind = "mkdir" =>
         /\ ~ tx.failed /\ call.at \in Dirs \ tree /\ Proper(call.at) \subseteq tree
         /\ \A e \in Proper(call.at) : Bytes(e) + 1 <= Limit[e]
    /\ call.kind = "remove" =>
         /\ call.at \in tree \ {Root}
         /\ ~ tx.failed => call.reserved = Bytes(call.at)
    /\ call.kind = "move" =>
         /\ ~ tx.failed /\ call.at \in tree /\ Below(call.at) = {call.at}
         /\ call.to \in Dirs \ tree /\ Proper(call.to) \subseteq tree \ {call.at}
         /\ \A e \in Proper(call.to) \ Proper(call.at) : Bytes(e) + Bytes(call.at) <= Limit[e]

AInv == AccountsTypeOK /\ CleanMeansExact /\ MemoryExact /\ WorkLeft /\ MarkedFirst /\ CallSound /\ Shapes

----------------------------------------------------------------------------
(* The subtotals.                                                            *)

\* The units of d in a store with the directories T and the data b.
UnitsIn(T, b, d) == {u \in {e \in T : d \in Above[e]} \X (0..MaxBytes) : u[2] <= b[u[1]]}
Count(T, b, d) == Cardinality(UnitsIn(T, b, d))
Data == [Dirs -> 0..MaxBytes]

\* What directory e adds to the count of d.
Own(e, b, d) == IF d \in Above[e] THEN b[e] + 1 ELSE 0

LEMMA BytesCounted ==
    ASSUME NEW d
    PROVE  Bytes(d) = Count(tree, bytes, d) /\ Bytes(d)' = Count(tree', bytes', d)
BY DEF Bytes, Units, Below, Count, UnitsIn

LEMMA CountFinite ==
    ASSUME AccountingAssumption, NEW T \in SUBSET Dirs, NEW b \in Data, NEW d
    PROVE  IsFiniteSet(UnitsIn(T, b, d)) /\ Count(T, b, d) \in Nat
<1> DEFINE S == {e \in T : d \in Above[e]}
<1>1. IsFiniteSet(Dirs) /\ S \in SUBSET Dirs
  BY DEF AccountingAssumption
<1>2. IsFiniteSet(S)
  BY ONLY <1>1, FS_Subset
<1>3. 0 \in Int /\ MaxBytes \in Int
  BY DEF AccountingAssumption
<1>4. IsFiniteSet(0..MaxBytes)
  BY ONLY <1>3, FS_Interval
<1>5. IsFiniteSet(S \X (0..MaxBytes))
  BY ONLY <1>2, <1>4, FS_Product
<1>6. UnitsIn(T, b, d) \in SUBSET (S \X (0..MaxBytes))
  BY DEF UnitsIn
<1>7. IsFiniteSet(UnitsIn(T, b, d))
  BY ONLY <1>5, <1>6, FS_Subset
<1> QED BY <1>7, FS_CardinalityType DEF Count

\* The count is of the data of the directories that are there.
LEMMA CountAgrees ==
    ASSUME NEW T \in SUBSET Dirs, NEW b \in Data, NEW c \in Data, \A e \in T : b[e] = c[e], NEW d
    PROVE  Count(T, b, d) = Count(T, c, d)
<1>1. UnitsIn(T, b, d) = UnitsIn(T, c, d)
  BY DEF UnitsIn
<1> QED BY <1>1 DEF Count

\* One directory more.
LEMMA CountAdds ==
    ASSUME AccountingAssumption, NEW T \in SUBSET Dirs, NEW b \in Data, NEW e \in Dirs \ T, NEW d
    PROVE  Count(T \union {e}, b, d) = Count(T, b, d) + Own(e, b, d)
<1>1. /\ IsFiniteSet(UnitsIn(T, b, d)) /\ Count(T, b, d) \in Nat
      /\ Count(T, b, d) = Cardinality(UnitsIn(T, b, d))
  BY CountFinite DEF Count
<1>2. b[e] \in 0..MaxBytes /\ MaxBytes \in Nat
  BY DEF Data, AccountingAssumption
<1>3. CASE d \in Above[e]
  <2> DEFINE N == {e} \X (0..b[e])
  <2>1. UnitsIn(T \union {e}, b, d) = UnitsIn(T, b, d) \union N
    <3>1. ASSUME NEW u \in UnitsIn(T \union {e}, b, d) PROVE u \in UnitsIn(T, b, d) \union N
      <4>1. PICK x \in T \union {e}, i \in 0..MaxBytes : u = <<x, i>> /\ i <= b[x] /\ d \in Above[x]
        BY <3>1 DEF UnitsIn
      <4> QED BY <1>2, <4>1 DEF UnitsIn
    <3>2. ASSUME NEW u \in UnitsIn(T, b, d) PROVE u \in UnitsIn(T \union {e}, b, d)
      BY <3>2 DEF UnitsIn
    <3>3. ASSUME NEW u \in N PROVE u \in UnitsIn(T \union {e}, b, d)
      <4>1. PICK i \in 0..b[e] : u = <<e, i>>
        BY <3>3
      <4> QED BY <1>2, <1>3, <4>1 DEF UnitsIn
    <3> QED BY <3>1, <3>2, <3>3
  <2>2. UnitsIn(T, b, d) \intersect N = {}
    BY DEF UnitsIn
  <2>3. IsFiniteSet({e}) /\ Cardinality({e}) = 1
    BY FS_Singleton
  <2>4. 0 \in Int /\ b[e] \in Int /\ ~ (0 > b[e])
    BY <1>2
  <2>5. IsFiniteSet(0..b[e]) /\ Cardinality(0..b[e]) = b[e] - 0 + 1
    BY ONLY <2>4, FS_Interval
  <2>6. IsFiniteSet(N) /\ Cardinality(N) = Cardinality({e}) * Cardinality(0..b[e])
    BY ONLY <2>3, <2>5, FS_Product
  <2>7. Cardinality(N) = b[e] + 1
    BY <1>2, <2>3, <2>5, <2>6
  <2>8. Cardinality(UnitsIn(T, b, d) \union N)
          = Cardinality(UnitsIn(T, b, d)) + Cardinality(N) - Cardinality(UnitsIn(T, b, d) \intersect N)
    BY ONLY <1>1, <2>6, FS_Union
  <2>9. Cardinality({}) = 0
    BY FS_EmptySet
  <2> HIDE DEF N
  <2>10. Count(T \union {e}, b, d) = Count(T, b, d) + (b[e] + 1) - 0
    BY <1>1, <2>1, <2>2, <2>7, <2>8, <2>9 DEF Count
  <2> QED BY <1>1, <1>2, <1>3, <2>10 DEF Own
<1>4. CASE d \notin Above[e]
  <2>1. UnitsIn(T \union {e}, b, d) = UnitsIn(T, b, d)
    BY <1>4 DEF UnitsIn
  <2> QED BY <1>1, <1>4, <2>1 DEF Count, Own
<1> QED BY <1>3, <1>4

\* What one directory holds counts once for each that it is in.
LEMMA CountSplits ==
    ASSUME AccountingAssumption, NEW T \in SUBSET Dirs, NEW b \in Data, NEW e \in T, NEW d
    PROVE  Count(T, b, d) = Count(T \ {e}, b, d) + Own(e, b, d)
<1>1. T \ {e} \in SUBSET Dirs /\ e \in Dirs \ (T \ {e}) /\ (T \ {e}) \union {e} = T
  OBVIOUS
<1> QED BY <1>1, CountAdds

\* The data of one directory changes.
LEMMA CountChanges ==
    ASSUME AccountingAssumption, NEW T \in SUBSET Dirs, NEW b \in Data, NEW c \in Data, NEW e \in T,
           \A x \in T \ {e} : b[x] = c[x], NEW d
    PROVE  /\ d \in Above[e] => Count(T, c, d) = Count(T, b, d) + c[e] - b[e]
           /\ d \notin Above[e] => Count(T, c, d) = Count(T, b, d)
<1>1. T \ {e} \in SUBSET Dirs
  OBVIOUS
<1>2. Count(T \ {e}, b, d) = Count(T \ {e}, c, d)
  BY <1>1, CountAgrees
<1>3. Count(T \ {e}, b, d) \in Nat
  BY <1>1, CountFinite
<1>4. /\ Count(T, b, d) = Count(T \ {e}, b, d) + Own(e, b, d)
      /\ Count(T, c, d) = Count(T \ {e}, c, d) + Own(e, c, d)
  BY CountSplits
<1>5. b[e] \in Int /\ c[e] \in Int
  BY DEF Data, AccountingAssumption
<1> QED BY <1>2, <1>3, <1>4, <1>5 DEF Own

\* A directory holds at least its own charge.
LEMMA CountPositive ==
    ASSUME AccountingAssumption, NEW T \in SUBSET Dirs, NEW b \in Data, NEW d \in T
    PROVE  Count(T, b, d) \in Nat /\ Count(T, b, d) >= b[d] + 1
<1>1. T \ {d} \in SUBSET Dirs
  OBVIOUS
<1>2. Count(T \ {d}, b, d) \in Nat /\ b[d] \in Nat /\ d \in Above[d]
  BY <1>1, CountFinite DEF Data, AccountingAssumption
<1>3. Count(T, b, d) = Count(T \ {d}, b, d) + Own(d, b, d)
  BY CountSplits
<1> QED BY <1>2, <1>3 DEF Own

\* Fewer directories, or less in them, is not more.
LEMMA CountShrinks ==
    ASSUME AccountingAssumption, NEW T \in SUBSET Dirs, NEW b \in Data,
           NEW R \in SUBSET T, NEW c \in Data, \A e \in R : c[e] <= b[e], NEW d
    PROVE  Count(R, c, d) \in Nat /\ Count(T, b, d) \in Nat /\ Count(R, c, d) <= Count(T, b, d)
<1>1. UnitsIn(R, c, d) \in SUBSET UnitsIn(T, b, d)
  <2> SUFFICES ASSUME NEW u \in UnitsIn(R, c, d) PROVE u \in UnitsIn(T, b, d)
    OBVIOUS
  <2>1. PICK x \in R, i \in 0..MaxBytes : u = <<x, i>> /\ i <= c[x] /\ d \in Above[x]
    BY DEF UnitsIn
  <2>2. x \in Dirs /\ c[x] <= b[x] /\ c[x] \in Int /\ b[x] \in Int /\ i \in Int
    BY <2>1 DEF Data, AccountingAssumption
  <2>3. i <= b[x] /\ x \in T
    BY <2>1, <2>2
  <2> QED BY <2>1, <2>3 DEF UnitsIn
<1>2. R \in SUBSET Dirs
  OBVIOUS
<1>3. IsFiniteSet(UnitsIn(T, b, d)) /\ Count(R, c, d) \in Nat /\ Count(T, b, d) \in Nat
  BY <1>2, CountFinite
<1> QED BY <1>1, <1>3, FS_Subset DEF Count

\* A subtree is removed: what it is in loses what it holds, nothing else changes.
LEMMA CountWithout ==
    ASSUME AccountingAssumption, NEW T \in SUBSET Dirs, NEW b \in Data, NEW e \in T,
           NEW R, R \subseteq T, \A x \in T : x \in R <=> e \notin Above[x],
           NEW c \in Data, \A x \in R : c[x] = b[x], NEW d \in Above[e]
    PROVE  Count(R, c, d) = Count(T, b, d) - Count(T, b, e)
<1>1. R \in SUBSET Dirs
  OBVIOUS
<1>2. Count(R, c, d) = Count(R, b, d)
  BY <1>1, CountAgrees
<1>3. /\ IsFiniteSet(UnitsIn(T, b, d)) /\ Count(T, b, d) \in Nat
      /\ IsFiniteSet(UnitsIn(T, b, e)) /\ Count(T, b, e) \in Nat
  BY CountFinite
<1>4. \A x \in T : e \in Above[x] => d \in Above[x]
  BY DEF AccountingAssumption
<1>5. UnitsIn(R, b, d) = UnitsIn(T, b, d) \ UnitsIn(T, b, e)
  BY DEF UnitsIn
<1>6. UnitsIn(T, b, d) \intersect UnitsIn(T, b, e) = UnitsIn(T, b, e)
  BY <1>4 DEF UnitsIn
<1>7. Cardinality(UnitsIn(T, b, d) \ UnitsIn(T, b, e))
        = Cardinality(UnitsIn(T, b, d)) - Cardinality(UnitsIn(T, b, d) \intersect UnitsIn(T, b, e))
  BY ONLY <1>3, FS_Difference
<1> QED BY <1>2, <1>5, <1>6, <1>7 DEF Count

LEMMA CountBeside ==
    ASSUME AccountingAssumption, NEW T \in SUBSET Dirs, NEW b \in Data, NEW e \in T,
           NEW R, R \subseteq T, \A x \in T : x \in R <=> e \notin Above[x],
           NEW c \in Data, \A x \in R : c[x] = b[x],
           NEW d \in Dirs, e \notin Above[d], d \notin Above[e]
    PROVE  Count(R, c, d) = Count(T, b, d)
<1>1. R \in SUBSET Dirs
  OBVIOUS
<1>2. Count(R, c, d) = Count(R, b, d)
  BY <1>1, CountAgrees
<1>3. \A x \in T : ~ (e \in Above[x] /\ d \in Above[x])
  BY DEF AccountingAssumption
<1>4. UnitsIn(R, b, d) = UnitsIn(T, b, d)
  BY <1>3 DEF UnitsIn
<1> QED BY <1>2, <1>4 DEF Count

\* A directory with no other in it holds its data and its charge.
LEMMA CountLeaf ==
    ASSUME AccountingAssumption, NEW T \in SUBSET Dirs, NEW b \in Data, NEW e \in T,
           {x \in T : e \in Above[x]} = {e}
    PROVE  Count(T, b, e) = b[e] + 1
<1>1. T \ {e} \in SUBSET Dirs /\ b[e] \in Nat /\ e \in Above[e]
  BY DEF Data, AccountingAssumption
<1>2. UnitsIn(T \ {e}, b, e) = {}
  BY DEF UnitsIn
<1>3. Count(T \ {e}, b, e) = 0
  BY <1>2, FS_EmptySet DEF Count
<1>4. Count(T, b, e) = Count(T \ {e}, b, e) + Own(e, b, e)
  BY CountSplits
<1> QED BY <1>1, <1>3, <1>4 DEF Own

\* It moves: its bytes are out of where it was and in where it is.
LEMMA CountMoves ==
    ASSUME AccountingAssumption, NEW T \in SUBSET Dirs, NEW b \in Data, NEW e \in T,
           NEW f \in Dirs \ T, NEW c \in Data, \A x \in T \ {e} : c[x] = b[x], NEW d
    PROVE  Count((T \ {e}) \union {f}, c, d) = Count(T, b, d) - Own(e, b, d) + Own(f, c, d)
<1>1. T \ {e} \in SUBSET Dirs /\ f \in Dirs \ (T \ {e}) /\ b[e] \in Nat /\ c[f] \in Nat
  BY DEF Data, AccountingAssumption
<1>2. Count(T \ {e}, c, d) = Count(T \ {e}, b, d) /\ Count(T \ {e}, b, d) \in Nat
  BY <1>1, CountAgrees, CountFinite
<1>3. Count((T \ {e}) \union {f}, c, d) = Count(T \ {e}, c, d) + Own(f, c, d)
  BY <1>1, CountAdds
<1>4. Count(T, b, d) = Count(T \ {e}, b, d) + Own(e, b, d)
  BY CountSplits
<1>5. Own(e, b, d) \in Nat /\ Own(f, c, d) \in Nat
  BY <1>1 DEF Own
<1> QED BY <1>2, <1>3, <1>4, <1>5

----------------------------------------------------------------------------
(* The parts of the invariant.                                               *)

DiskTyped ==
    /\ Root \in tree /\ tree \subseteq Dirs /\ bytes \in Data
    /\ \A d \in tree : Above[d] \subseteq tree
    /\ \A d \in Dirs \ tree : bytes[d] = 0 /\ counter[d] = NoCounter
    /\ counter \in [Dirs -> Nat \union {NoCounter}] /\ marker \in {"clean", "dirty"}

Bounds == mishaps \in 0..MaxMishaps /\ deaths \in 0..MaxDeaths

TxTyped ==
    /\ tx.pc \in {"none", "open", "recount", "saving"} /\ (~ tx.failed => tx.changed \subseteq tree)
    /\ call.kind \in {"none", "write", "unlink", "mkdir", "remove", "move"}

LEMMA AccountsTyped == AccountsTypeOK <=> DiskTyped /\ Bounds /\ TxTyped
BY DEF AccountsTypeOK, DiskTyped, Bounds, TxTyped, Data

LEMMA Bounded ==
    ASSUME AccountingAssumption, Bounds,
           mishaps' = mishaps \/ Mishap, deaths' = deaths \/ (deaths < MaxDeaths /\ deaths' = deaths + 1)
    PROVE  Bounds'
BY DEF AccountingAssumption, Bounds, Mishap

LEMMA Trees ==
    ASSUME AccountingAssumption, DiskTyped, NEW d \in tree
    PROVE  /\ d \in Dirs /\ d \in Above[d] /\ Root \in Above[d] /\ Above[d] \subseteq tree
           /\ Bytes(d) \in Nat /\ Bytes(d) >= 1 /\ Bytes(d) >= bytes[d] + 1
<1>1. Bytes(d) = Count(tree, bytes, d) /\ tree \in SUBSET Dirs /\ bytes \in Data
  BY BytesCounted DEF DiskTyped
<1>2. Count(tree, bytes, d) \in Nat /\ Count(tree, bytes, d) >= bytes[d] + 1
  BY <1>1, CountPositive
<1>3. bytes[d] \in Nat
  BY DEF DiskTyped, Data, AccountingAssumption
<1> QED BY <1>1, <1>2, <1>3 DEF DiskTyped, AccountingAssumption

\* Where the tree and the data stay, so does what is counted.
LEMMA Still ==
    ASSUME UNCHANGED <<tree, bytes>>
    PROVE  \A d : Bytes(d)' = Bytes(d) /\ Below(d)' = Below(d)
BY DEF Bytes, Units, Below

\* A step that leaves the disk alone but may set the marker.
LEMMA DiskStays ==
    ASSUME DiskTyped, CleanMeansExact, UNCHANGED <<tree, bytes, counter>>, marker' \in {marker, "dirty"}
    PROVE  DiskTyped' /\ CleanMeansExact'
<1>1. \A d : Bytes(d)' = Bytes(d)
  BY Still
<1>2. DiskTyped'
  BY DEF DiskTyped
<1>3. marker' = "clean" => marker = "clean"
  OBVIOUS
<1> QED BY <1>1, <1>2, <1>3 DEF CleanMeansExact

LEMMA NoOpTyped ==
    ASSUME call' = NoOp
    PROVE  /\ call'.kind = "none" /\ call' = NoOp
           /\ IsCall(call')
BY DEF NoOp, IsCall

\* A record of a transaction.
Tx(t) == /\ t = [pc |-> t.pc, totals |-> t.totals, changed |-> t.changed, dirty |-> t.dirty, failed |-> t.failed]
         /\ t.totals = [d \in DOMAIN t.totals |-> t.totals[d]]
         /\ t.dirty \in BOOLEAN /\ t.failed \in BOOLEAN

LEMMA TxIs == ASSUME AInv PROVE Tx(tx)
BY DEF AInv, Shapes, MarkedFirst, Tx

\* What is not there holds nothing.
LEMMA NotThere ==
    ASSUME DiskTyped, NEW d, d \notin tree
    PROVE  Bytes(d) = 0 /\ Count(tree, bytes, d) = 0
<1>1. \A e \in tree : d \notin Above[e]
  BY DEF DiskTyped
<1>2. UnitsIn(tree, bytes, d) = {}
  BY <1>1 DEF UnitsIn
<1> QED BY <1>2, BytesCounted, FS_EmptySet DEF Count

LEMMA NoTxIs == Tx(NoTx) /\ NoTx.pc = "none" /\ ~ NoTx.dirty /\ ~ NoTx.failed /\ NoTx.changed = {}
BY DEF NoTx, Tx

\* A call that fails leaves nothing to be believed.
LEMMA FailedKeeps ==
    ASSUME AInv, DiskTyped', CleanMeansExact', Bounds', NEW t, Tx(t), t.pc = "open",
           Failed(t), t.dirty => marker' = "dirty"
    PROVE  AInv'
<1>1. tx' = [t EXCEPT !.failed = TRUE] /\ call' = NoOp
  BY DEF Failed
<1>2. tx'.pc = "open" /\ tx'.failed /\ tx'.dirty = t.dirty /\ tx'.totals = t.totals /\ Tx(tx')
  BY <1>1 DEF Tx
<1>3. Shapes'
  BY <1>1, <1>2, NoOpTyped DEF Shapes, Tx
<1>4. AccountsTypeOK'
  BY <1>1, <1>2, NoOpTyped DEF AccountsTypeOK, DiskTyped, Bounds, Data
<1>5. call'.kind = "none"
  BY <1>1, NoOpTyped
<1>6. MemoryExact' /\ WorkLeft' /\ CallSound'
  BY <1>2, <1>5 DEF MemoryExact, Believed, WorkLeft, CallSound
<1>7. MarkedFirst'
  BY <1>2, <1>5 DEF MarkedFirst, Tx
<1> QED BY <1>3, <1>4, <1>6, <1>7 DEF AInv

\* So does one that ends the transaction.
LEMMA EndedKeeps ==
    ASSUME DiskTyped', CleanMeansExact', Bounds', tx' = NoTx, call'.kind = "none", IsCall(call')
    PROVE  AInv'
<1>1. Shapes' /\ Tx(tx') /\ ~ tx'.dirty /\ ~ tx'.failed /\ tx'.pc = "none" /\ tx'.changed = {}
  BY NoTxIs DEF Shapes, Tx
<1>2. AccountsTypeOK'
  BY <1>1 DEF AccountsTypeOK, DiskTyped, Bounds, Data
<1>3. MemoryExact' /\ WorkLeft' /\ CallSound' /\ MarkedFirst'
  BY <1>1 DEF MemoryExact, Believed, WorkLeft, CallSound, MarkedFirst, Tx
<1> QED BY <1>1, <1>2, <1>3 DEF AInv

----------------------------------------------------------------------------
(* The calls.                                                                *)

\* The parts together, where a call goes on.
LEMMA GoesOn ==
    ASSUME DiskTyped', Bounds', Tx(tx'), tx'.pc = "open", ~ tx'.failed => tx'.changed \subseteq tree',
           tx'.dirty, marker' = "dirty", NEW k \in {"none", "write", "unlink", "mkdir", "remove", "move"},
           call'.kind = k,
           IsCall(call'),
           MemoryExact', CallSound'
    PROVE  AInv'
<1>1. AccountsTypeOK'
  BY DEF AccountsTypeOK, DiskTyped, Bounds, Data
<1>2. CleanMeansExact' /\ WorkLeft' /\ MarkedFirst' /\ Shapes'
  BY DEF CleanMeansExact, WorkLeft, MarkedFirst, Shapes, Tx
<1> QED BY <1>1, <1>2 DEF AInv

\* The subtotals of S are read and changed.
LEMMA Charged ==
    ASSUME AccountingAssumption, AInv, Believed, counter' = counter,
           NEW S \in SUBSET tree,
           DOMAIN tx'.totals = DOMAIN tx.totals \union S, tx'.changed = tx.changed \union S,
           \A d \in DOMAIN tx.totals \ S : tx'.totals[d] = tx.totals[d]
    PROVE  /\ DOMAIN tx'.totals \subseteq tree /\ tx'.changed \subseteq DOMAIN tx'.totals
           /\ \A d \in tree : Loadable({d})'
           /\ \A d \in S : Total(d)' = tx'.totals[d]
           /\ \A d \in tree \ S : Total(d)' = Total(d)
           /\ \A d \in DOMAIN tx'.totals \ tx'.changed : tx'.totals[d] = counter'[d]
<1>1. /\ DOMAIN tx.totals \subseteq tree /\ tx.changed \subseteq DOMAIN tx.totals
      /\ \A d \in tree : d \in DOMAIN tx.totals \/ counter[d] # NoCounter
      /\ \A d \in DOMAIN tx.totals \ tx.changed : tx.totals[d] = counter[d]
  BY DEF AInv, MemoryExact, Loadable
<1>2. \A d \in tree : Loadable({d})'
  BY <1>1 DEF Loadable
<1>3. /\ \A d \in S : Total(d)' = tx'.totals[d]
      /\ \A d \in tree \ S : Total(d)' = Total(d)
  BY <1>1 DEF Total
<1> QED BY <1>1, <1>2, <1>3

\* The subtotals of S are changed by n.
LEMMA AdjustedIs ==
    ASSUME AInv
    PROVE  \A S, n :
             /\ Tx(Adjusted(S, n)) /\ Adjusted(S, n).pc = tx.pc /\ Adjusted(S, n).dirty = tx.dirty
             /\ Adjusted(S, n).failed = tx.failed /\ Adjusted(S, n).changed = tx.changed \union S
             /\ DOMAIN Adjusted(S, n).totals = DOMAIN tx.totals \union S
             /\ \A d \in S : Adjusted(S, n).totals[d] = Total(d) + n
             /\ \A d \in DOMAIN tx.totals \ S : Adjusted(S, n).totals[d] = tx.totals[d]
<1> SUFFICES ASSUME NEW S, NEW n
             PROVE  /\ Tx(Adjusted(S, n)) /\ Adjusted(S, n).pc = tx.pc /\ Adjusted(S, n).dirty = tx.dirty
                    /\ Adjusted(S, n).failed = tx.failed /\ Adjusted(S, n).changed = tx.changed \union S
                    /\ DOMAIN Adjusted(S, n).totals = DOMAIN tx.totals \union S
                    /\ \A d \in S : Adjusted(S, n).totals[d] = Total(d) + n
                    /\ \A d \in DOMAIN tx.totals \ S : Adjusted(S, n).totals[d] = tx.totals[d]
  OBVIOUS
<1>1. Tx(tx)
  BY TxIs
<1> DEFINE f == [d \in DOMAIN tx.totals \union S |-> IF d \in S THEN Total(d) + n ELSE tx.totals[d]]
<1>2. /\ f = [d \in DOMAIN f |-> f[d]] /\ DOMAIN f = DOMAIN tx.totals \union S
      /\ \A d \in S : f[d] = Total(d) + n
      /\ \A d \in DOMAIN tx.totals \ S : f[d] = tx.totals[d]
  OBVIOUS
<1>3. Adjusted(S, n) = [tx EXCEPT !.totals = f, !.changed = tx.changed \union S]
  BY <1>1 DEF Adjusted, Tx
<1> HIDE DEF f
<1>4. /\ Tx(Adjusted(S, n)) /\ Adjusted(S, n).pc = tx.pc /\ Adjusted(S, n).dirty = tx.dirty
      /\ Adjusted(S, n).failed = tx.failed /\ Adjusted(S, n).changed = tx.changed \union S
      /\ Adjusted(S, n).totals = f
  BY <1>1, <1>2, <1>3 DEF Tx
<1> QED BY <1>2, <1>4

\* They are charged.
LEMMA AdjustedCharges ==
    ASSUME AccountingAssumption, AInv, Believed, counter' = counter, NEW S \in SUBSET tree, NEW n,
           tx'.totals = Adjusted(S, n).totals, tx'.changed = Adjusted(S, n).changed
    PROVE  /\ DOMAIN tx'.totals \subseteq tree /\ tx'.changed \subseteq DOMAIN tx'.totals
           /\ \A d \in tree : Loadable({d})'
           /\ \A d \in S : Total(d)' = Total(d) + n
           /\ \A d \in tree \ S : Total(d)' = Total(d)
           /\ \A d \in DOMAIN tx'.totals \ tx'.changed : tx'.totals[d] = counter'[d]
<1>1. /\ Adjusted(S, n).changed = tx.changed \union S
      /\ DOMAIN Adjusted(S, n).totals = DOMAIN tx.totals \union S
      /\ \A d \in S : Adjusted(S, n).totals[d] = Total(d) + n
      /\ \A d \in DOMAIN tx.totals \ S : Adjusted(S, n).totals[d] = tx.totals[d]
  BY ONLY AInv, AdjustedIs
<1>2. /\ DOMAIN tx'.totals = DOMAIN tx.totals \union S /\ tx'.changed = tx.changed \union S
      /\ \A d \in S : tx'.totals[d] = Total(d) + n
      /\ \A d \in DOMAIN tx.totals \ S : tx'.totals[d] = tx.totals[d]
  BY <1>1
<1>3. S \in SUBSET tree /\ counter' = counter
  OBVIOUS
<1>4. /\ DOMAIN tx'.totals \subseteq tree /\ tx'.changed \subseteq DOMAIN tx'.totals
      /\ \A d \in tree : Loadable({d})'
      /\ \A d \in S : Total(d)' = tx'.totals[d]
      /\ \A d \in tree \ S : Total(d)' = Total(d)
      /\ \A d \in DOMAIN tx'.totals \ tx'.changed : tx'.totals[d] = counter'[d]
  BY ONLY AccountingAssumption, AInv, Believed, <1>2, <1>3, Charged
<1> QED BY <1>2, <1>4

LEMMA DirtiedIs ==
    ASSUME NEW t, Tx(t), Dirtied(t)
    PROVE  /\ marker' = "dirty" /\ Tx(tx') /\ tx'.pc = t.pc /\ tx'.dirty /\ tx'.failed = t.failed
           /\ tx'.changed = t.changed /\ tx'.totals = t.totals
BY DEF Dirtied, Tx

\* Between calls.
LEMMA Starting ==
    ASSUME AccountingAssumption, AInv, NEW k, NEW d, Starts(k, d)
    PROVE  /\ tx.pc = "open" /\ call.kind = "none" /\ d \in tree /\ DiskTyped /\ Bounds /\ CleanMeansExact
           /\ tx.failed => k = "remove"
           /\ ~ tx.failed => Believed /\ \A e \in tree : Total(e) = Bytes(e) /\ Loadable({e})
           /\ ~ tx.failed => tx.changed \subseteq tree
<1>1. tx.pc = "open" /\ call.kind = "none" /\ d \in tree /\ (tx.failed => k = "remove")
  BY DEF Starts
<1>2. DiskTyped /\ Bounds /\ TxTyped /\ CleanMeansExact
  BY AccountsTyped DEF AInv
<1>3. ASSUME ~ tx.failed
      PROVE  Believed /\ \A e \in tree : Total(e) = Bytes(e) /\ Loadable({e})
  <2>1. Believed
    BY <1>1, <1>3 DEF Believed
  <2>2. \A e \in tree : Owing(e) = 0 /\ Bytes(e) \in Nat
    BY <1>1, <1>2, Trees DEF Owing
  <2> QED BY <2>1, <2>2 DEF AInv, MemoryExact
<1> QED BY <1>1, <1>2, <1>3 DEF TxTyped

\* A call that does not start leaves the disk as it was, but for the marker.
LEMMA StartFails ==
    ASSUME AccountingAssumption, AInv, NEW k, NEW d, Starts(k, d), deaths' = deaths,
           (Failed(tx) /\ UNCHANGED <<disk, mishaps>>) \/ MarkFails
    PROVE  AInv'
<1>1. /\ Failed(tx) /\ UNCHANGED <<tree, bytes, counter>> /\ marker' \in {marker, "dirty"}
      /\ mishaps' = mishaps \/ Mishap
  BY DEF MarkFails, disk
<1>2. DiskTyped' /\ CleanMeansExact'
  BY <1>1, Starting, DiskStays
<1>3. Bounds'
  BY <1>1, Starting, Bounded
<1>4. tx.pc = "open" /\ Tx(tx) /\ (tx.dirty => marker' = "dirty")
  BY <1>1, Starting, TxIs DEF AInv, MarkedFirst
<1> QED BY <1>1, <1>2, <1>3, <1>4, FailedKeeps

LEMMA StartWriteKeeps ==
    ASSUME AccountingAssumption, AInv, NEW d, NEW n \in 1..MaxBytes, NEW enforce \in BOOLEAN, StartWrite(d, n, enforce)
    PROVE  AInv'
<1>1. Starts("write", d) /\ bytes[d] + n <= MaxBytes /\ deaths' = deaths
  BY DEF StartWrite
<1>2. CASE (Failed(tx) /\ UNCHANGED <<disk, mishaps>>) \/ MarkFails
  BY <1>1, <1>2, StartFails
<1>3. CASE /\ Dirtied(tx) /\ call' = [NoOp EXCEPT !.kind = "write", !.at = d, !.left = n, !.enforce = enforce]
           /\ UNCHANGED <<tree, bytes, counter, mishaps>>
  <2>1. ~ tx.failed /\ tx.pc = "open" /\ Believed /\ DiskTyped /\ Bounds /\ d \in tree /\ tx.changed \subseteq tree
    BY <1>1, Starting
  <2>2. /\ marker' = "dirty" /\ Tx(tx') /\ tx'.pc = "open" /\ tx'.dirty /\ ~ tx'.failed
        /\ tx'.changed = tx.changed /\ tx'.totals = tx.totals
    BY <1>3, <2>1, TxIs, DirtiedIs
  <2>3. /\ IsCall(call')
        /\ call'.kind = "write" /\ call'.at = d /\ call'.left = n /\ call'.written = 0
    BY <1>3 DEF NoOp, IsCall
  <2>4. DiskTyped' /\ Bounds'
    BY <1>1, <1>3, <2>1, <2>2 DEF DiskTyped, Bounds
  <2>5. MemoryExact'
    <3>1. \A e \in tree : Total(e)' = Total(e) /\ Bytes(e)' = Bytes(e) /\ (Loadable({e}) => Loadable({e})')
      BY <1>3, <2>2, Still DEF Total, Loadable
    <3>2. \A e : Owing(e)' = 0
      BY <2>3 DEF Owing
    <3>3. \A e \in tree : Total(e) = Bytes(e) /\ Loadable({e}) /\ Bytes(e) \in Nat
      BY <1>1, <2>1, Starting, Trees
    <3>4. /\ DOMAIN tx.totals \subseteq tree /\ tx.changed \subseteq DOMAIN tx.totals
          /\ \A e \in DOMAIN tx.totals \ tx.changed : tx.totals[e] = counter[e]
      BY <2>1 DEF AInv, MemoryExact
    <3> QED BY <1>3, <2>2, <3>1, <3>2, <3>3, <3>4 DEF MemoryExact
  <2>6. CallSound'
    <3>1. bytes[d] \in 0..MaxBytes /\ n \in Nat /\ MaxBytes \in Nat
      BY <2>1 DEF DiskTyped, Data, AccountingAssumption
    <3> QED BY <1>1, <1>3, <2>1, <2>2, <2>3, <3>1 DEF CallSound
  <2> QED BY <1>3, <2>1, <2>2, <2>3, <2>4, <2>5, <2>6, GoesOn
<1> QED BY <1>2, <1>3 DEF StartWrite

LEMMA Calling ==
    ASSUME AccountingAssumption, AInv, call.kind \in {"write", "unlink", "mkdir", "move"}
    PROVE  /\ tx.pc = "open" /\ tx.dirty /\ ~ tx.failed /\ marker = "dirty" /\ tx.changed \subseteq tree
           /\ DiskTyped /\ Bounds /\ CleanMeansExact /\ Tx(tx)
           /\ tree \in SUBSET Dirs /\ bytes \in Data
           /\ call.kind # "unlink" => Believed
<1>1. tx.pc = "open" /\ tx.dirty /\ marker = "dirty" /\ ~ tx.failed
  BY DEF AInv, MarkedFirst, CallSound
<1>2. DiskTyped /\ Bounds /\ TxTyped /\ CleanMeansExact /\ Tx(tx)
  BY AccountsTyped, TxIs DEF AInv
<1> QED BY <1>1, <1>2 DEF TxTyped, DiskTyped, Believed

LEMMA CallIs ==
    ASSUME AInv
    PROVE  IsCall(call)
BY DEF AInv, Shapes

\* A unit is written.
LEMMA WrittenCounts ==
    ASSUME AccountingAssumption, DiskTyped, NEW e \in tree, NEW n \in Int, bytes[e] + n \in 0..MaxBytes,
           tree' = tree, bytes' \in Data, bytes'[e] = bytes[e] + n,
           \A x \in Dirs \ {e} : bytes'[x] = bytes[x], NEW d
    PROVE  /\ d \in Above[e] => Bytes(d)' = Bytes(d) + n
           /\ d \notin Above[e] => Bytes(d)' = Bytes(d)
<1>1. tree \in SUBSET Dirs /\ bytes \in Data /\ bytes[e] \in Int
  BY DEF DiskTyped, Data, AccountingAssumption
<1>2. \A x \in tree \ {e} : bytes[x] = bytes'[x]
  BY <1>1
<1>3. bytes' \in Data
  OBVIOUS
<1>4. /\ d \in Above[e] => Count(tree, bytes', d) = Count(tree, bytes, d) + bytes'[e] - bytes[e]
      /\ d \notin Above[e] => Count(tree, bytes', d) = Count(tree, bytes, d)
  BY ONLY AccountingAssumption, <1>1, <1>2, <1>3, e \in tree, CountChanges
<1>5. Count(tree, bytes, d) \in Nat
  BY <1>1, CountFinite
<1>6. Bytes(d) = Count(tree, bytes, d) /\ Bytes(d)' = Count(tree, bytes', d)
  BY BytesCounted
<1> QED BY <1>1, <1>4, <1>5, <1>6

LEMMA FlushKeeps ==
    ASSUME AccountingAssumption, AInv, Flush
    PROVE  AInv'
<1> DEFINE S == Above[call.at]
<1>1. /\ call.kind = "write" /\ call.left > 0 /\ UNCHANGED <<tree, counter, marker, deaths>>
  BY DEF Flush
<1>2. /\ tx.pc = "open" /\ tx.dirty /\ ~ tx.failed /\ marker = "dirty" /\ tx.changed \subseteq tree
      /\ DiskTyped /\ Bounds /\ Tx(tx) /\ Believed
  BY <1>1, Calling
<1>3. /\ call.at \in tree /\ call.at \in Dirs /\ call.left \in Nat /\ call.written \in 0..bytes[call.at]
      /\ bytes[call.at] \in 0..MaxBytes /\ bytes[call.at] + call.left <= MaxBytes
      /\ S \subseteq tree /\ bytes[call.at] \in Nat /\ MaxBytes \in Nat
  BY <1>1, <1>2 DEF AInv, CallSound, DiskTyped, Data, AccountingAssumption
<1>4. /\ Adjusted(S, 1).pc = "open" /\ Adjusted(S, 1).dirty /\ ~ Adjusted(S, 1).failed /\ Tx(Adjusted(S, 1))
      /\ Adjusted(S, 1).changed = tx.changed \union S
      /\ DOMAIN Adjusted(S, 1).totals = DOMAIN tx.totals \union S
      /\ \A d \in S : Adjusted(S, 1).totals[d] = Total(d) + 1
      /\ \A d \in DOMAIN tx.totals \ S : Adjusted(S, 1).totals[d] = tx.totals[d]
  <2>1. tx.pc = "open" /\ tx.dirty /\ ~ tx.failed
    BY <1>2
  <2> HIDE DEF S
  <2>2. PICK n \in Int : n = 1
    OBVIOUS
  <2>3. /\ Tx(Adjusted(S, n)) /\ Adjusted(S, n).pc = tx.pc /\ Adjusted(S, n).dirty = tx.dirty
        /\ Adjusted(S, n).failed = tx.failed /\ Adjusted(S, n).changed = tx.changed \union S
        /\ DOMAIN Adjusted(S, n).totals = DOMAIN tx.totals \union S
        /\ \A d \in S : Adjusted(S, n).totals[d] = Total(d) + n
        /\ \A d \in DOMAIN tx.totals \ S : Adjusted(S, n).totals[d] = tx.totals[d]
    BY ONLY AInv, AdjustedIs
  <2> QED BY <2>1, <2>2, <2>3
<1>5. CASE /\ call' = [call EXCEPT !.kind = "unlink"] /\ UNCHANGED <<bytes, tx, mishaps>>
  <2>1. /\ IsCall(call')
        /\ call'.kind = "unlink" /\ call'.at = call.at /\ call'.left = call.left /\ call'.written = call.written
    BY <1>5, CallIs DEF IsCall
  <2>2. DiskTyped' /\ Bounds'
    BY <1>1, <1>2, <1>5 DEF DiskTyped, Bounds
  <2>3. MemoryExact' /\ CallSound'
    BY <1>1, <1>2, <1>3, <1>5, <2>1 DEF MemoryExact, Believed, CallSound
  <2> QED BY <1>1, <1>2, <1>5, <2>1, <2>2, <2>3, GoesOn
<1>6. CASE /\ tx' = Adjusted(S, 1) /\ bytes' = [bytes EXCEPT ![call.at] = @ + 1] /\ UNCHANGED mishaps
           /\ call' = [call EXCEPT !.left = @ - 1, !.written = @ + 1, !.reserved = @ + 1]
  <2>1. /\ IsCall(call')
        /\ call'.kind = "write" /\ call'.at = call.at /\ call'.left = call.left - 1 /\ call'.written = call.written + 1
    BY <1>1, <1>6, CallIs DEF IsCall
  <2>2. bytes[call.at] + 1 \in 0..MaxBytes
    BY <1>1, <1>3
  <2>3. /\ bytes' \in Data /\ bytes'[call.at] = bytes[call.at] + 1
        /\ \A d \in Dirs \ {call.at} : bytes'[d] = bytes[d]
    BY <1>2, <1>3, <1>6, <2>2 DEF DiskTyped, Data
  <2>10. ASSUME NEW d
         PROVE  /\ d \in S => Bytes(d)' = Bytes(d) + 1
                /\ d \notin S => Bytes(d)' = Bytes(d)
    <3>1. PICK n \in Int : n = 1
      OBVIOUS
    <3>2. /\ bytes'[call.at] = bytes[call.at] + n /\ bytes[call.at] + n \in 0..MaxBytes
          /\ DiskTyped /\ call.at \in tree /\ tree' = tree
          /\ bytes' \in Data /\ \A x \in Dirs \ {call.at} : bytes'[x] = bytes[x]
      BY <1>1, <1>2, <1>3, <2>2, <2>3, <3>1
    <3>3. /\ d \in Above[call.at] => Bytes(d)' = Bytes(d) + n
          /\ d \notin Above[call.at] => Bytes(d)' = Bytes(d)
      BY ONLY AccountingAssumption, <3>1, <3>2, WrittenCounts
    <3> QED BY <3>1, <3>3
  <2>4. DiskTyped' /\ Bounds'
    <3>1. \A d \in Dirs \ tree : bytes'[d] = bytes[d]
      BY <1>3, <2>3
    <3> QED BY <1>1, <1>2, <1>6, <2>3, <3>1 DEF DiskTyped, Bounds
  <2>5. /\ DOMAIN tx'.totals \subseteq tree /\ tx'.changed \subseteq DOMAIN tx'.totals
        /\ \A d \in tree : Loadable({d})'
        /\ \A d \in S : Total(d)' = Total(d) + 1
        /\ \A d \in tree \ S : Total(d)' = Total(d)
        /\ \A d \in DOMAIN tx'.totals \ tx'.changed : tx'.totals[d] = counter'[d]
    <3>1. /\ DOMAIN tx'.totals = DOMAIN tx.totals \union S /\ tx'.changed = tx.changed \union S
          /\ \A d \in S : tx'.totals[d] = Total(d) + 1
          /\ \A d \in DOMAIN tx.totals \ S : tx'.totals[d] = tx.totals[d]
      BY <1>4, <1>6
    <3>2. counter' = counter /\ S \in SUBSET tree /\ Believed
      BY <1>1, <1>2, <1>3
    <3> HIDE DEF S
    <3>3. /\ DOMAIN tx'.totals \subseteq tree /\ tx'.changed \subseteq DOMAIN tx'.totals
          /\ \A d \in tree : Loadable({d})'
          /\ \A d \in S : Total(d)' = tx'.totals[d]
          /\ \A d \in tree \ S : Total(d)' = Total(d)
          /\ \A d \in DOMAIN tx'.totals \ tx'.changed : tx'.totals[d] = counter'[d]
      BY ONLY AccountingAssumption, AInv, <3>1, <3>2, Charged
    <3> QED BY <3>1, <3>3
  <2>6. \A d \in tree : Total(d) = Bytes(d) /\ Bytes(d) \in Nat
    <3>1. \A d \in tree : Owing(d) = 0 /\ Bytes(d) \in Nat
      BY <1>1, <1>2, Trees DEF Owing
    <3>2. \A d \in tree : Total(d) = Bytes(d) + Owing(d)
      BY <1>2 DEF AInv, MemoryExact
    <3> QED BY <3>1, <3>2
  <2>7. MemoryExact'
    <3>1. \A d : Owing(d)' = 0
      BY <2>1 DEF Owing
    <3> QED BY <1>1, <2>5, <2>6, <2>10, <3>1 DEF MemoryExact
  <2>8. CallSound'
    BY <1>1, <1>2, <1>3, <1>4, <1>6, <2>1, <2>3 DEF CallSound
  <2>9. tx'.changed \subseteq tree'
    BY <1>1, <2>5
  <2> QED BY <1>1, <1>2, <1>4, <1>6, <2>1, <2>4, <2>7, <2>8, <2>9, GoesOn
<1>7. CASE /\ Mishap /\ tx' = Adjusted(S, 1)
           /\ \E n \in 0..1 : /\ bytes' = [bytes EXCEPT ![call.at] = @ + n]
                              /\ call' = [call EXCEPT !.kind = "unlink", !.written = @ + n, !.reserved = @ + 1]
  <2>0. PICK n \in 0..1 : /\ bytes' = [bytes EXCEPT ![call.at] = @ + n]
                          /\ call' = [call EXCEPT !.kind = "unlink", !.written = @ + n, !.reserved = @ + 1]
    BY <1>7
  <2>1. /\ IsCall(call')
        /\ call'.kind = "unlink" /\ call'.at = call.at /\ call'.left = call.left /\ call'.written = call.written + n
    BY <2>0, CallIs DEF IsCall
  <2>2. bytes[call.at] + n \in 0..MaxBytes /\ n \in Int
    BY <1>1, <1>3
  <2>3. /\ bytes' \in Data /\ bytes'[call.at] = bytes[call.at] + n
        /\ \A d \in Dirs \ {call.at} : bytes'[d] = bytes[d]
    BY <1>2, <1>3, <2>0, <2>2 DEF DiskTyped, Data
  <2>4. DiskTyped' /\ Bounds'
    <3>1. \A d \in Dirs \ tree : bytes'[d] = bytes[d]
      BY <1>3, <2>3
    <3>2. Bounds'
      BY <1>1, <1>2, <1>7, Bounded
    <3> QED BY <1>1, <1>2, <2>3, <3>1, <3>2 DEF DiskTyped
  <2>5. MemoryExact' /\ CallSound'
    BY <1>1, <1>2, <1>3, <1>4, <1>7, <2>1, <2>2, <2>3 DEF MemoryExact, Believed, CallSound
  <2>6. tx'.changed \subseteq tree'
    BY <1>1, <1>2, <1>3, <1>4, <1>7
  <2> QED BY <1>1, <1>2, <1>4, <1>7, <2>1, <2>4, <2>5, <2>6, GoesOn
<1> QED BY <1>5, <1>6, <1>7 DEF Flush

LEMMA EndWriteKeeps ==
    ASSUME AccountingAssumption, AInv, EndWrite
    PROVE  AInv'
<1>1. call.kind = "write" /\ call.left = 0 /\ UNCHANGED <<tree, bytes, counter, marker, tx, deaths>>
  BY DEF EndWrite, disk
<1>2. /\ tx.pc = "open" /\ tx.dirty /\ ~ tx.failed /\ marker = "dirty" /\ tx.changed \subseteq tree
      /\ DiskTyped /\ Bounds /\ Tx(tx) /\ Believed /\ CleanMeansExact
  BY <1>1, Calling
<1>3. (call' = NoOp /\ UNCHANGED mishaps) \/ (Mishap /\ call' = [call EXCEPT !.kind = "unlink"])
  BY DEF EndWrite
<1>4. DiskTyped' /\ Bounds'
  BY <1>1, <1>2, <1>3, DiskStays, Bounded
<1>5. CASE call' = NoOp
  <2>1. call'.kind = "none"
    BY <1>5, NoOpTyped
  <2>2. /\ \A d \in tree : Total(d)' = Total(d) /\ Bytes(d)' = Bytes(d) /\ (Loadable({d}) => Loadable({d})')
        /\ \A d : Owing(d) = 0 /\ Owing(d)' = 0
    BY <1>1, <2>1, Still DEF Total, Loadable, Owing
  <2>3. MemoryExact'
    <3>1. /\ DOMAIN tx.totals \subseteq tree /\ tx.changed \subseteq DOMAIN tx.totals
          /\ \A d \in tree : Loadable({d}) /\ Total(d) = Bytes(d) + Owing(d)
          /\ \A d \in DOMAIN tx.totals \ tx.changed : tx.totals[d] = counter[d]
      BY <1>2 DEF AInv, MemoryExact
    <3> QED BY <1>1, <2>2, <3>1 DEF MemoryExact
  <2>4. CallSound'
    BY <2>1 DEF CallSound
  <2> QED BY <1>1, <1>2, <1>4, <1>5, <2>1, <2>3, <2>4, NoOpTyped, GoesOn
<1>6. CASE call' = [call EXCEPT !.kind = "unlink"]
  <2>1. /\ IsCall(call')
        /\ call'.kind = "unlink" /\ call'.at = call.at /\ call'.left = call.left /\ call'.written = call.written
    BY <1>6, CallIs DEF IsCall
  <2>2. MemoryExact' /\ CallSound'
    BY <1>1, <1>2, <2>1 DEF AInv, MemoryExact, Believed, CallSound
  <2> QED BY <1>1, <1>2, <1>4, <2>1, <2>2, GoesOn
<1> QED BY <1>3, <1>5, <1>6

LEMMA UnlinkKeeps ==
    ASSUME AccountingAssumption, AInv, Unlink
    PROVE  AInv'
<1>1. call.kind = "unlink" /\ UNCHANGED <<tree, counter, marker, deaths>>
  BY DEF Unlink
<1>2. /\ tx.pc = "open" /\ tx.dirty /\ ~ tx.failed /\ marker = "dirty"
      /\ DiskTyped /\ Bounds /\ Tx(tx)
  BY <1>1, Calling
<1>3. call.at \in tree /\ call.at \in Dirs /\ call.written \in 0..bytes[call.at] /\ bytes[call.at] \in 0..MaxBytes
  BY <1>1, <1>2 DEF AInv, CallSound, DiskTyped, Data
<1>4. /\ bytes' \in {bytes, [bytes EXCEPT ![call.at] = @ - call.written]}
      /\ mishaps' = mishaps \/ Mishap
      /\ Failed(tx) \/ Failed(Adjusted(Above[call.at], - call.reserved))
  BY DEF Unlink
<1>5. bytes' \in Data /\ \A d \in Dirs \ tree : bytes'[d] = bytes[d]
  <2>1. bytes[call.at] - call.written \in 0..MaxBytes
    BY <1>3 DEF AccountingAssumption
  <2> QED BY <1>2, <1>3, <1>4, <2>1 DEF DiskTyped, Data
<1>6. DiskTyped' /\ CleanMeansExact' /\ Bounds'
  <2>1. Bounds'
    BY <1>1, <1>2, <1>4, Bounded
  <2> QED BY <1>1, <1>2, <1>5, <2>1 DEF DiskTyped, CleanMeansExact
<1>7. CASE Failed(tx)
  BY <1>1, <1>2, <1>6, <1>7, FailedKeeps
<1>8. CASE Failed(Adjusted(Above[call.at], - call.reserved))
  <2> DEFINE n == - call.reserved
  <2> DEFINE t == Adjusted(Above[call.at], n)
  <2> HIDE DEF n
  <2>1. Tx(t) /\ t.pc = tx.pc
    BY AdjustedIs
  <2> HIDE DEF t
  <2>2. Failed(t)
    BY <1>8 DEF t, n
  <2> QED BY <1>1, <1>2, <1>6, <2>1, <2>2, FailedKeeps
<1> QED BY <1>4, <1>7, <1>8

\* A directory is charged for, and made.
LEMMA StartMkdirKeeps ==
    ASSUME AccountingAssumption, AInv, NEW d \in Dirs, StartMkdir(d)
    PROVE  AInv'
<1>1. PICK parent \in Proper(d) : Starts("mkdir", parent)
  BY DEF StartMkdir
<1>2. d \notin tree /\ Proper(d) \subseteq tree /\ deaths' = deaths
  BY DEF StartMkdir
<1>3. CASE (Failed(tx) /\ UNCHANGED <<disk, mishaps>>) \/ MarkFails
  BY <1>1, <1>2, <1>3, StartFails
<1>4. CASE /\ ~ Exceeds(Proper(d), 1) /\ Dirtied(Adjusted(Proper(d), 1))
           /\ call' = [NoOp EXCEPT !.kind = "mkdir", !.at = d]
           /\ UNCHANGED <<tree, bytes, counter, mishaps>>
  <2>1. /\ ~ tx.failed /\ tx.pc = "open" /\ Believed /\ DiskTyped /\ Bounds /\ tx.changed \subseteq tree
        /\ \A e \in tree : Total(e) = Bytes(e)
    <3>1. ~ tx.failed
      BY <1>1, Starting
    <3> QED BY ONLY AccountingAssumption, AInv, <1>1, <3>1, Starting
  <2>2. PICK n \in Int : n = 1
    OBVIOUS
  <2>3. Tx(Adjusted(Proper(d), n)) /\ Adjusted(Proper(d), n).pc = tx.pc /\ Adjusted(Proper(d), n).failed = tx.failed
    BY ONLY AInv, AdjustedIs
  <2> DEFINE t == Adjusted(Proper(d), n)
  <2>4. Tx(t) /\ t.pc = "open" /\ ~ t.failed /\ Dirtied(t)
    BY <1>4, <2>1, <2>2, <2>3
  <2>5. /\ marker' = "dirty" /\ Tx(tx') /\ tx'.pc = "open" /\ tx'.dirty /\ ~ tx'.failed
        /\ tx'.changed = t.changed /\ tx'.totals = t.totals
    <3> HIDE DEF t
    <3> QED BY <2>4, DirtiedIs
  <2>6. IsCall(call') /\ call'.kind = "mkdir" /\ call'.at = d
    BY <1>4 DEF NoOp, IsCall
  <2>7. DiskTyped' /\ Bounds'
    BY <1>2, <1>4, <2>1, <2>5 DEF DiskTyped, Bounds
  <2>8. /\ DOMAIN tx'.totals \subseteq tree /\ tx'.changed \subseteq DOMAIN tx'.totals
        /\ \A e \in tree : Loadable({e})'
        /\ \A e \in Proper(d) : Total(e)' = Total(e) + n
        /\ \A e \in tree \ Proper(d) : Total(e)' = Total(e)
        /\ \A e \in DOMAIN tx'.totals \ tx'.changed : tx'.totals[e] = counter'[e]
    <3>1. counter' = counter /\ Proper(d) \in SUBSET tree /\ Believed
      BY <1>2, <1>4, <2>1
    <3>2. tx'.totals = Adjusted(Proper(d), n).totals /\ tx'.changed = Adjusted(Proper(d), n).changed
      BY <2>5
    <3> HIDE DEF t
    <3> QED BY ONLY AccountingAssumption, AInv, <3>1, <3>2, AdjustedCharges
  <2>9. \A e \in tree : Bytes(e)' = Bytes(e) /\ Bytes(e) \in Nat
    BY <1>4, <2>1, Still, Trees
  <2>10. \A e : /\ e \in Proper(d) => Owing(e)' = 1
                /\ e \notin Proper(d) => Owing(e)' = 0
    BY <2>6 DEF Owing
  <2>11. MemoryExact'
    BY <1>2, <1>4, <2>1, <2>2, <2>8, <2>9, <2>10 DEF MemoryExact
  <2>12. CallSound'
    <3>1. \A e \in Proper(d) : Bytes(e) + 1 <= Limit[e]
      <4>1. \A e \in Proper(d) : ~ (Total(e) + 1 > Limit[e])
        BY <1>4 DEF Exceeds
      <4>2. \A e \in Proper(d) : Limit[e] \in Nat
        BY DEF AccountingAssumption, Proper
      <4> QED BY <1>2, <2>1, <2>9, <4>1, <4>2
    <3> QED BY <1>2, <1>4, <2>5, <2>6, <2>9, <3>1 DEF CallSound
  <2>13. tx'.changed \subseteq tree'
    BY <1>4, <2>8
  <2> QED BY <2>5, <2>6, <2>7, <2>11, <2>12, <2>13, GoesOn
<1> QED BY <1>3, <1>4 DEF StartMkdir

\* What a directory that is made adds.
LEMMA Made ==
    ASSUME AccountingAssumption, DiskTyped, NEW e \in Dirs \ tree, tree' = tree \union {e}, bytes' = bytes, NEW d
    PROVE  /\ Bytes(d) \in Nat
           /\ d \in Above[e] => Bytes(d)' = Bytes(d) + 1
           /\ d \notin Above[e] => Bytes(d)' = Bytes(d)
<1>1. tree \in SUBSET Dirs /\ bytes \in Data /\ bytes[e] = 0
  BY DEF DiskTyped
<1>2. Count(tree \union {e}, bytes, d) = Count(tree, bytes, d) + Own(e, bytes, d)
  BY ONLY AccountingAssumption, <1>1, e \in Dirs \ tree, CountAdds
<1>3. Count(tree, bytes, d) \in Nat
  BY <1>1, CountFinite
<1>4. Bytes(d) = Count(tree, bytes, d) /\ Bytes(d)' = Count(tree', bytes', d)
  BY BytesCounted
<1> QED BY <1>1, <1>2, <1>3, <1>4 DEF Own

LEMMA MkdirKeeps ==
    ASSUME AccountingAssumption, AInv, Mkdir
    PROVE  AInv'
<1>0. PICK e : e = call.at
  OBVIOUS
<1>1. call.kind = "mkdir" /\ UNCHANGED <<bytes, counter, marker, deaths>>
  BY DEF Mkdir
<1>2. /\ tx.pc = "open" /\ tx.dirty /\ ~ tx.failed /\ marker = "dirty" /\ tx.changed \subseteq tree
      /\ DiskTyped /\ Bounds /\ Tx(tx) /\ Believed
  BY <1>1, Calling
<1>3. e \in Dirs \ tree /\ Proper(e) \subseteq tree
  BY <1>0, <1>1 DEF AInv, CallSound
<1>4. /\ tree' \in {tree, tree \union {e}} /\ (UNCHANGED mishaps \/ Mishap)
  BY <1>0 DEF Mkdir
<1>5. DiskTyped' /\ Bounds' /\ CleanMeansExact'
  <2>1. Bounds'
    BY <1>1, <1>2, <1>4, Bounded
  <2> QED BY <1>1, <1>2, <1>3, <1>4, <2>1 DEF DiskTyped, CleanMeansExact, Proper
<1>6. CASE Failed(tx)
  BY <1>1, <1>2, <1>5, <1>6, FailedKeeps
<1>7. CASE /\ tree' = tree \union {e} /\ call' = NoOp
           /\ tx' = [tx EXCEPT !.totals = [d \in DOMAIN @ \union {e} |-> IF d = e THEN 1 ELSE @[d]],
                               !.changed = @ \union {e}]
  <2> DEFINE f == [d \in DOMAIN tx.totals \union {e} |-> IF d = e THEN 1 ELSE tx.totals[d]]
  <2>1. f = [d \in DOMAIN f |-> f[d]] /\ DOMAIN f = DOMAIN tx.totals \union {e}
    OBVIOUS
  <2>2. f[e] = 1 /\ \A d \in DOMAIN tx.totals \ {e} : f[d] = tx.totals[d]
    OBVIOUS
  <2>3. tx' = [tx EXCEPT !.totals = f, !.changed = @ \union {e}]
    BY <1>7
  <2> HIDE DEF f
  <2>4. /\ Tx(tx') /\ tx'.pc = "open" /\ tx'.dirty /\ ~ tx'.failed /\ tx'.totals = f
        /\ tx'.changed = tx.changed \union {e}
    <3>1. tx' = [pc |-> tx.pc, totals |-> f, changed |-> tx.changed \union {e}, dirty |-> tx.dirty, failed |-> tx.failed]
      BY <1>2, <2>3 DEF Tx
    <3> QED BY <1>2, <2>1, <3>1 DEF Tx
  <2>5. call'.kind = "none" /\ IsCall(call') /\ \A d : Owing(d)' = 0
    BY <1>7, NoOpTyped DEF Owing
  <2>6. /\ DOMAIN tx.totals \subseteq tree /\ tx.changed \subseteq DOMAIN tx.totals
        /\ \A d \in tree : Loadable({d}) /\ Total(d) = Bytes(d) + Owing(d)
        /\ \A d \in DOMAIN tx.totals \ tx.changed : tx.totals[d] = counter[d]
    BY <1>2 DEF AInv, MemoryExact
  <2>7. \A d : /\ Bytes(d) \in Nat
               /\ d \in Above[e] => Bytes(d)' = Bytes(d) + 1
               /\ d \notin Above[e] => Bytes(d)' = Bytes(d)
    BY <1>1, <1>2, <1>3, <1>7, Made
  <2>8. \A d \in tree' : Loadable({d})' /\ Total(d)' = Bytes(d)'
    <3>1. ASSUME NEW d \in tree PROVE Loadable({d})' /\ Total(d)' = Bytes(d)'
      <4>1. d # e /\ (d \in DOMAIN f <=> d \in DOMAIN tx.totals)
        BY <1>3, <2>1
      <4>2. Loadable({d})' /\ Total(d)' = Total(d)
        BY <1>1, <2>2, <2>4, <2>6, <4>1 DEF Loadable, Total
      <4>3. /\ d \in Above[e] => Owing(d) = 1
            /\ d \notin Above[e] => Owing(d) = 0
        BY <1>0, <1>1, <4>1 DEF Owing, Proper
      <4>4. Total(d) = Bytes(d) + Owing(d) /\ Bytes(d) \in Nat
        BY <2>6, <2>7
      <4>5. Total(d) = Bytes(d)'
        BY <2>7, <4>3, <4>4
      <4> QED BY <4>2, <4>5
    <3>2. Loadable({e})' /\ Total(e)' = 1
      BY <2>1, <2>2, <2>4 DEF Loadable, Total
    <3>3. Bytes(e)' = 1
      <4>1. Bytes(e) = 0 /\ e \in Above[e]
        BY <1>2, <1>3, NotThere DEF AccountingAssumption
      <4> QED BY <2>7, <4>1
    <3> QED BY <1>7, <3>1, <3>2, <3>3
  <2>9. MemoryExact'
    <3>1. tx'.changed \subseteq DOMAIN tx'.totals /\ DOMAIN tx'.totals \subseteq tree'
      BY <1>7, <2>1, <2>4, <2>6
    <3>2. \A d \in DOMAIN tx'.totals \ tx'.changed : tx'.totals[d] = counter'[d]
      BY <1>1, <2>1, <2>2, <2>4, <2>6
    <3>3. \A d \in tree' : Bytes(d)' = Bytes(d)' + Owing(d)'
      BY <2>5, <2>7
    <3> QED BY <2>8, <3>1, <3>2, <3>3 DEF MemoryExact
  <2>10. CallSound'
    BY <2>5 DEF CallSound
  <2>11. tx'.changed \subseteq tree'
    BY <1>2, <1>7, <2>4
  <2> QED BY <1>1, <1>2, <1>5, <2>4, <2>5, <2>9, <2>10, <2>11, GoesOn
<1> QED BY <1>0, <1>6, <1>7 DEF Mkdir

\* A subtree is removed, and given back.
LEMMA StartRemoveKeeps ==
    ASSUME AccountingAssumption, AInv, NEW d \in Dirs, StartRemove(d)
    PROVE  AInv'
<1>1. Starts("remove", d) /\ d # Root /\ deaths' = deaths
  BY DEF StartRemove
<1>2. CASE (Failed(tx) /\ UNCHANGED <<disk, mishaps>>) \/ MarkFails
  BY <1>1, <1>2, StartFails
<1>3. CASE /\ Dirtied(tx) /\ call' = [NoOp EXCEPT !.kind = "remove", !.at = d, !.reserved = Total(d)]
           /\ UNCHANGED <<tree, bytes, counter, mishaps>>
  <2>1. tx.pc = "open" /\ DiskTyped /\ Bounds /\ d \in tree
    BY <1>1, Starting
  <2>2. ASSUME ~ tx.failed
        PROVE  Believed /\ (\A e \in tree : Total(e) = Bytes(e)) /\ tx.changed \subseteq tree
    BY ONLY AccountingAssumption, AInv, <1>1, <2>2, Starting
  <2>3. /\ marker' = "dirty" /\ Tx(tx') /\ tx'.pc = "open" /\ tx'.dirty /\ tx'.failed = tx.failed
        /\ tx'.changed = tx.changed /\ tx'.totals = tx.totals
    BY <1>3, <2>1, TxIs, DirtiedIs
  <2>4. IsCall(call') /\ call'.kind = "remove" /\ call'.at = d /\ call'.reserved = Total(d)
    BY <1>3 DEF NoOp, IsCall
  <2>5. DiskTyped' /\ Bounds'
    BY <1>1, <1>3, <2>1, <2>3 DEF DiskTyped, Bounds
  <2>6. MemoryExact'
    <3> SUFFICES ASSUME ~ tx.failed PROVE MemoryExact'
      BY <2>3 DEF MemoryExact, Believed
    <3>1. \A e \in tree : Total(e)' = Total(e) /\ Bytes(e)' = Bytes(e) /\ (Loadable({e}) => Loadable({e})')
      BY <1>3, <2>3, Still DEF Total, Loadable
    <3>2. \A e : Owing(e)' = 0
      BY <2>4 DEF Owing
    <3>3. \A e \in tree : Total(e) = Bytes(e) /\ Bytes(e) \in Nat
      BY <2>1, <2>2, Trees
    <3>4. /\ DOMAIN tx.totals \subseteq tree /\ tx.changed \subseteq DOMAIN tx.totals
          /\ \A e \in tree : Loadable({e})
          /\ \A e \in DOMAIN tx.totals \ tx.changed : tx.totals[e] = counter[e]
      BY <2>2 DEF AInv, MemoryExact
    <3>5. ASSUME NEW e \in tree PROVE Loadable({e})' /\ Total(e)' = Bytes(e)' + Owing(e)'
      <4>1. Total(e)' = Bytes(e)' /\ Bytes(e)' \in Nat
        BY ONLY <3>1, <3>3, e \in tree
      <4>2. Owing(e)' = 0
        BY ONLY <3>2
      <4> QED BY <3>1, <3>4, <4>1, <4>2
    <3> QED BY <1>3, <2>3, <3>4, <3>5 DEF MemoryExact
  <2>7. CallSound'
    <3>1. Bytes(d)' = Bytes(d)
      BY <1>3, Still
    <3> QED BY <1>1, <1>3, <2>1, <2>2, <2>3, <2>4, <3>1 DEF CallSound
  <2>8. ~ tx'.failed => tx'.changed \subseteq tree'
    BY <1>3, <2>2, <2>3
  <2> QED BY <2>3, <2>4, <2>5, <2>6, <2>7, <2>8, GoesOn
<1> QED BY <1>2, <1>3 DEF StartRemove

\* What is deleted is gone with all that is in it.
LEMMA Deleted ==
    ASSUME AccountingAssumption, DiskTyped, NEW gone \in SUBSET (tree \ {Root}),
           \A d \in gone : Below(d) \subseteq gone, Delete(gone), marker' = marker
    PROVE  /\ DiskTyped' /\ tree' = tree \ gone /\ bytes' \in Data
           /\ \A d \in tree' : bytes'[d] = bytes[d] /\ counter'[d] = counter[d]
<1>1. tree' = tree \ gone
  BY DEF Delete
<1>2. \A d \in tree' : Above[d] \subseteq tree'
  <2> SUFFICES ASSUME NEW d \in tree', NEW e \in Above[d], e \in gone PROVE FALSE
    BY <1>1 DEF DiskTyped
  <2>1. d \in Below(e)
    BY <1>1 DEF Below
  <2> QED BY <1>1, <2>1
<1>3. 0 \in 0..MaxBytes
  BY DEF AccountingAssumption
<1>4. bytes' \in Data /\ counter' \in [Dirs -> Nat \union {NoCounter}]
  BY <1>3 DEF Delete, DiskTyped, Data
<1>5. \A d \in Dirs : /\ d \in gone => bytes'[d] = 0 /\ counter'[d] = NoCounter
                      /\ d \notin gone => bytes'[d] = bytes[d] /\ counter'[d] = counter[d]
  BY DEF Delete
<1> QED BY <1>1, <1>2, <1>4, <1>5 DEF DiskTyped

\* The subtree below a directory is one that can be deleted.
LEMMA Subtree ==
    ASSUME AccountingAssumption, DiskTyped, NEW e \in tree \ {Root}
    PROVE  /\ Below(e) \in SUBSET (tree \ {Root}) /\ e \in Below(e)
           /\ \A d \in Below(e) : Below(d) \subseteq Below(e)
<1>1. e \in Dirs /\ e \in Above[e] /\ e \notin Above[Root] /\ tree \subseteq Dirs
  BY DEF DiskTyped, AccountingAssumption
<1>2. \A d \in Below(e) : Below(d) \subseteq Below(e)
  <2> SUFFICES ASSUME NEW d \in Below(e), NEW x \in Below(d) PROVE x \in Below(e)
    OBVIOUS
  <2>1. x \in tree /\ x \in Dirs /\ d \in Above[x] /\ e \in Above[d]
    BY <1>1 DEF Below
  <2> QED BY <2>1 DEF Below, AccountingAssumption
<1> QED BY <1>1, <1>2 DEF Below

LEMMA RemoveKeeps ==
    ASSUME AccountingAssumption, AInv, Remove
    PROVE  AInv'
<1>0. PICK e, n : e = call.at /\ n = - call.reserved
  OBVIOUS
<1>1. call.kind = "remove" /\ UNCHANGED <<marker, deaths>>
  BY DEF Remove
<1>2. /\ tx.pc = "open" /\ tx.dirty /\ marker = "dirty" /\ DiskTyped /\ Bounds /\ Tx(tx)
      /\ ~ tx.failed => tx.changed \subseteq tree
      /\ e \in tree \ {Root} /\ tree \in SUBSET Dirs /\ bytes \in Data
  BY <1>0, <1>1, AccountsTyped, TxIs DEF AInv, MarkedFirst, CallSound, TxTyped, DiskTyped
<1>3. PICK part \in SUBSET Below(e) :
        (\A d \in part : Below(d) \subseteq part) /\ Delete(part)
  BY <1>0, <1>2, Subtree DEF Remove
<1>4. UNCHANGED mishaps \/ Mishap
  BY DEF Remove
<1>5. DiskTyped' /\ Bounds' /\ CleanMeansExact'
  <2>1. Bounds'
    BY <1>1, <1>2, <1>4, Bounded
  <2>2. part \in SUBSET (tree \ {Root})
    BY <1>2, Subtree
  <2>3. DiskTyped'
    BY <1>1, <1>2, <1>3, <2>2, Deleted
  <2> QED BY <1>1, <1>2, <2>1, <2>3 DEF CleanMeansExact
<1>6. CASE Failed(tx)
  BY <1>1, <1>2, <1>5, <1>6, FailedKeeps
<1> DEFINE gone == Below(e)
           settled == Adjusted(Proper(e), n)
<1>7. CASE Delete(gone) /\ tx' = Without(settled, gone) /\ call' = NoOp
  <2>1. /\ Tx(settled) /\ settled.pc = tx.pc /\ settled.dirty = tx.dirty /\ settled.failed = tx.failed
        /\ settled.changed = tx.changed \union Proper(e)
        /\ DOMAIN settled.totals = DOMAIN tx.totals \union Proper(e)
        /\ \A d \in Proper(e) : settled.totals[d] = Total(d) + n
        /\ \A d \in DOMAIN tx.totals \ Proper(e) : settled.totals[d] = tx.totals[d]
    BY ONLY AInv, AdjustedIs
  <2> DEFINE f == [d \in DOMAIN settled.totals \ gone |-> settled.totals[d]]
  <2>2. f = [d \in DOMAIN f |-> f[d]] /\ DOMAIN f = DOMAIN settled.totals \ gone
        /\ \A d \in DOMAIN settled.totals \ gone : f[d] = settled.totals[d]
    OBVIOUS
  <2>3. tx' = [settled EXCEPT !.totals = f, !.changed = settled.changed \ gone]
    BY <1>7 DEF Without
  <2> HIDE DEF f, settled, gone
  <2>4. /\ Tx(tx') /\ tx'.pc = "open" /\ tx'.dirty /\ tx'.failed = tx.failed /\ tx'.totals = f
        /\ tx'.changed = settled.changed \ gone
    <3>1. tx' = [pc |-> settled.pc, totals |-> f, changed |-> settled.changed \ gone,
                 dirty |-> settled.dirty, failed |-> settled.failed]
      BY <2>1, <2>3 DEF Tx
    <3> QED BY <1>2, <2>1, <2>2, <3>1 DEF Tx
  <2>5. call'.kind = "none" /\ IsCall(call') /\ \A d : Owing(d)' = 0
    BY <1>7, NoOpTyped DEF Owing
  <2>6. gone \in SUBSET (tree \ {Root}) /\ e \in gone /\ (\A d \in gone : Below(d) \subseteq gone)
        /\ gone = {d \in tree : e \in Above[d]}
    BY <1>2, Subtree DEF gone, Below
  <2>7. /\ tree' = tree \ gone /\ bytes' \in Data
        /\ \A d \in tree' : bytes'[d] = bytes[d] /\ counter'[d] = counter[d]
    BY <1>1, <1>2, <1>7, <2>6, Deleted
  <2>8. CASE tx.failed
    <3>1. MemoryExact'
      BY <2>4, <2>8 DEF MemoryExact, Believed
    <3>2. CallSound'
      BY <2>5 DEF CallSound
    <3> QED BY <1>1, <1>2, <1>5, <2>4, <2>5, <2>8, <3>1, <3>2, GoesOn
  <2>9. CASE ~ tx.failed
    <3>1. /\ DOMAIN tx.totals \subseteq tree /\ tx.changed \subseteq DOMAIN tx.totals
          /\ \A d \in tree : Loadable({d}) /\ Total(d) = Bytes(d) + Owing(d)
          /\ \A d \in DOMAIN tx.totals \ tx.changed : tx.totals[d] = counter[d]
      BY <1>1, <1>2, <2>9 DEF AInv, MemoryExact, Believed
    <3>2. \A d \in tree : Owing(d) = 0 /\ Bytes(d) \in Nat
      BY <1>1, <1>2, Trees DEF Owing
    <3>3. call.reserved = Bytes(e) /\ Bytes(e) \in Nat
      BY <1>0, <1>1, <1>2, <2>9, <3>2 DEF AInv, CallSound
    <3>4. \A d \in tree' : /\ d \in Proper(e) => Bytes(d)' = Bytes(d) - Bytes(e)
                           /\ d \notin Proper(e) => Bytes(d)' = Bytes(d)
      <4> SUFFICES ASSUME NEW d \in tree'
                   PROVE  /\ d \in Proper(e) => Bytes(d)' = Bytes(d) - Bytes(e)
                          /\ d \notin Proper(e) => Bytes(d)' = Bytes(d)
        OBVIOUS
      <4>1. d \in Dirs /\ e \notin Above[d] /\ d # e
        BY <1>2, <2>6, <2>7
      <4>2. /\ e \in tree /\ tree' \subseteq tree /\ \A x \in tree : x \in tree' <=> e \notin Above[x]
            /\ bytes' \in Data /\ \A x \in tree' : bytes'[x] = bytes[x]
        BY <1>2, <2>6, <2>7
      <4>3. /\ d \in Above[e] => Count(tree', bytes', d) = Count(tree, bytes, d) - Count(tree, bytes, e)
            /\ d \notin Above[e] => Count(tree', bytes', d) = Count(tree, bytes, d)
        <5>1. tree \in SUBSET Dirs /\ bytes \in Data
          BY <1>2
        <5>2. CASE d \in Above[e]
          BY ONLY AccountingAssumption, <4>1, <4>2, <5>1, <5>2, CountWithout
        <5>3. CASE d \notin Above[e]
          BY ONLY AccountingAssumption, <4>1, <4>2, <5>1, <5>3, CountBeside
        <5> QED BY <5>2, <5>3
      <4> QED BY <4>1, <4>3, BytesCounted DEF Proper
    <3>5. ASSUME NEW d \in tree' PROVE Loadable({d})' /\ Total(d)' = Bytes(d)'
      <4>1. d \in tree /\ d \notin gone /\ counter'[d] = counter[d]
        BY <2>7
      <4>2. CASE d \in Proper(e)
        <5>1. d \in DOMAIN f /\ f[d] = Total(d) + n
          BY <2>1, <2>2, <4>1, <4>2
        <5>2. Total(d)' = Total(d) + n /\ Loadable({d})'
          BY <2>4, <5>1 DEF Total, Loadable
        <5>3. Total(d) = Bytes(d) + Owing(d) /\ Owing(d) = 0 /\ Bytes(d) \in Nat
          BY <3>1, <3>2, <4>1
        <5>4. Total(d)' = Bytes(d) - Bytes(e)
          BY <1>0, <3>3, <5>2, <5>3
        <5> QED BY <3>4, <4>2, <5>2, <5>4
      <4>3. CASE d \notin Proper(e)
        <5>1. (d \in DOMAIN f <=> d \in DOMAIN tx.totals) /\ (d \in DOMAIN tx.totals => f[d] = tx.totals[d])
          BY <2>1, <2>2, <4>1, <4>3
        <5>2. Total(d)' = Total(d) /\ Loadable({d})'
          BY <2>4, <3>1, <4>1, <5>1 DEF Total, Loadable
        <5>3. Total(d) = Bytes(d) + Owing(d) /\ Owing(d) = 0 /\ Bytes(d) \in Nat
          BY <3>1, <3>2, <4>1
        <5> QED BY <3>4, <4>3, <5>2, <5>3
      <4> QED BY <4>2, <4>3
    <3>6. tx'.changed \subseteq DOMAIN tx'.totals /\ DOMAIN tx'.totals \subseteq tree'
      BY <1>2, <2>1, <2>2, <2>4, <2>6, <2>7, <3>1 DEF Proper, DiskTyped
    <3>7. \A d \in DOMAIN tx'.totals \ tx'.changed : tx'.totals[d] = counter'[d]
      BY <2>1, <2>2, <2>4, <2>7, <3>1, <3>6
    <3>8. \A d \in tree' : Bytes(d)' \in Nat
      <4>1. tree' \in SUBSET Dirs
        BY <1>2, <2>7
      <4> QED BY <2>7, <4>1, CountFinite, BytesCounted
    <3>9. MemoryExact'
      <4>1. \A d \in tree' : Bytes(d)' = Bytes(d)' + Owing(d)'
        BY <2>5, <3>8
      <4> QED BY <3>5, <3>6, <3>7, <4>1 DEF MemoryExact
    <3>10. CallSound' /\ tx'.changed \subseteq tree'
      BY <2>5, <3>6 DEF CallSound
    <3> QED BY <1>1, <1>2, <1>5, <2>4, <2>5, <3>9, <3>10, GoesOn
  <2> QED BY <2>8, <2>9
<1> QED BY <1>0, <1>6, <1>7 DEF Remove

\* A directory is moved, and its charge with it.
LEMMA StartMoveKeeps ==
    ASSUME AccountingAssumption, AInv, NEW d \in Dirs, NEW e \in Dirs, StartMove(d, e)
    PROVE  AInv'
<1> DEFINE n == Total(d)
           into == Proper(e) \ Proper(d)
           out == Proper(d) \ Proper(e)
           S == DOMAIN tx.totals \union into \union out
           f == [x \in S |-> IF x \in into THEN Total(x) + n
                             ELSE IF x \in out THEN Total(x) - n ELSE tx.totals[x]]
           moved == [tx EXCEPT !.totals = f, !.changed = tx.changed \union into \union out]
<1>1. Starts("move", d) /\ Below(d) = {d} /\ e \notin tree /\ Proper(e) \subseteq tree \ {d} /\ deaths' = deaths
  BY DEF StartMove
<1>2. CASE (Failed(tx) /\ UNCHANGED <<disk, mishaps>>) \/ MarkFails
  BY <1>1, <1>2, StartFails
<1>3. CASE /\ ~ Exceeds(into, n) /\ Dirtied(moved)
           /\ call' = [NoOp EXCEPT !.kind = "move", !.at = d, !.to = e]
           /\ UNCHANGED <<tree, bytes, counter, mishaps>>
  <2>0. ~ tx.failed
    BY <1>1, Starting
  <2>1. /\ tx.pc = "open" /\ Believed /\ DiskTyped /\ Bounds /\ tx.changed \subseteq tree /\ d \in tree
        /\ \A x \in tree : Total(x) = Bytes(x)
    BY ONLY AccountingAssumption, AInv, <1>1, <2>0, Starting
  <2>2. /\ \A x \in tree : Bytes(x) \in Nat /\ Bytes(x)' = Bytes(x)
        /\ n = Bytes(d)
    BY <1>3, <2>1, Still, Trees
  <2>3. into \subseteq tree /\ out \subseteq tree /\ into \intersect out = {}
    BY <1>1, <2>1 DEF DiskTyped, Proper
  <2>4. /\ f = [x \in DOMAIN f |-> f[x]] /\ DOMAIN f = S
        /\ \A x \in into : f[x] = Total(x) + n
        /\ \A x \in out : f[x] = Total(x) - n
        /\ \A x \in DOMAIN tx.totals \ (into \union out) : f[x] = tx.totals[x]
    BY <2>3
  <2> DEFINE t == moved
  <2>5. Dirtied(t)
    BY <1>3
  <2> HIDE DEF f
  <2>6. Tx(t) /\ t.pc = "open" /\ ~ t.failed /\ t.totals = f /\ t.changed = tx.changed \union into \union out
    <3>1. Tx(tx)
      BY TxIs
    <3> DEFINE c == tx.changed \union into \union out
    <3> HIDE DEF c
    <3>2. t = [tx EXCEPT !.totals = f, !.changed = c]
      BY DEF c
    <3> HIDE DEF t, moved
    <3>3. t = [pc |-> tx.pc, totals |-> f, changed |-> c, dirty |-> tx.dirty, failed |-> tx.failed]
      BY <3>1, <3>2 DEF Tx
    <3>4. t.pc = tx.pc /\ t.totals = f /\ t.changed = c /\ t.dirty = tx.dirty /\ t.failed = tx.failed
      BY <3>3
    <3>5. f = [x \in DOMAIN f |-> f[x]]
      BY <2>4
    <3>6. Tx(t)
      BY <3>1, <3>3, <3>4, <3>5 DEF Tx
    <3> QED BY <2>0, <2>1, <3>4, <3>6 DEF c
  <2> HIDE DEF n, t, moved
  <2>7. /\ marker' = "dirty" /\ Tx(tx') /\ tx'.pc = "open" /\ tx'.dirty /\ ~ tx'.failed
        /\ tx'.changed = tx.changed \union into \union out /\ tx'.totals = f
    BY <2>5, <2>6, DirtiedIs
  <2>8. IsCall(call') /\ call'.kind = "move" /\ call'.at = d /\ call'.to = e
    BY <1>3 DEF NoOp, IsCall
  <2>9. DiskTyped' /\ Bounds'
    BY <1>1, <1>3, <2>1, <2>7 DEF DiskTyped, Bounds
  <2>10. /\ DOMAIN tx.totals \subseteq tree /\ tx.changed \subseteq DOMAIN tx.totals
         /\ \A x \in tree : Loadable({x})
         /\ \A x \in DOMAIN tx.totals \ tx.changed : tx.totals[x] = counter[x]
    BY <2>1 DEF AInv, MemoryExact
  <2>11. \A x : /\ x \in into => Owing(x)' = n
                /\ x \in out => Owing(x)' = - n
                /\ x \notin into \union out => Owing(x)' = 0
    <3>1. Bytes(d)' = n
      BY <2>1, <2>2
    <3>2. Bytes(call.at)' = n
      BY <2>8, <3>1 DEF Bytes, Units, Below
    <3> QED BY <2>8, <3>2 DEF Owing
  <2>12. ASSUME NEW x \in tree PROVE Loadable({x})' /\ Total(x)' = Bytes(x)' + Owing(x)'
    <3>0. Total(x) = Bytes(x) /\ Bytes(x) \in Nat /\ Bytes(x)' = Bytes(x) /\ n \in Nat
      BY <2>1, <2>2
    <3>1. CASE x \in into
      <4>1. Total(x)' = Total(x) + n /\ Loadable({x})'
        BY <2>4, <2>7, <3>1 DEF Total, Loadable
      <4>2. Owing(x)' = n
        BY ONLY <2>11, <3>1
      <4> QED BY <3>0, <4>1, <4>2
    <3>2. CASE x \in out
      <4>1. Total(x)' = Total(x) - n /\ Loadable({x})'
        BY <2>4, <2>7, <3>2 DEF Total, Loadable
      <4>2. Owing(x)' = - n
        BY ONLY <2>11, <3>2
      <4> QED BY <3>0, <4>1, <4>2
    <3>3. CASE x \notin into \union out
      <4>1. Total(x)' = Total(x) /\ Loadable({x})'
        <5>1. (x \in DOMAIN f <=> x \in DOMAIN tx.totals) /\ (x \in DOMAIN tx.totals => f[x] = tx.totals[x])
          BY <2>4, <3>3
        <5> QED BY <1>3, <2>7, <2>10, <5>1 DEF Total, Loadable
      <4>2. Owing(x)' = 0
        BY ONLY <2>11, <3>3
      <4> QED BY <3>0, <4>1, <4>2
    <3> QED BY <3>1, <3>2, <3>3
  <2>13. /\ DOMAIN tx'.totals \subseteq tree /\ tx'.changed \subseteq DOMAIN tx'.totals
         /\ \A x \in DOMAIN tx'.totals \ tx'.changed : tx'.totals[x] = counter'[x]
    BY <1>3, <2>3, <2>4, <2>7, <2>10
  <2>14. MemoryExact'
    BY <1>3, <2>12, <2>13 DEF MemoryExact
  <2>15. CallSound'
    <3>1. ASSUME NEW x \in into PROVE Bytes(x) + Bytes(d) <= Limit[x]
      <4>1. ~ (Total(x) + n > Limit[x])
        BY <1>3 DEF Exceeds
      <4>2. Limit[x] \in Nat
        BY DEF AccountingAssumption, Proper
      <4>3. Total(x) = Bytes(x) /\ Bytes(x) \in Nat /\ n = Bytes(d) /\ n \in Nat
        BY <2>1, <2>2, <2>3
      <4> QED BY <4>1, <4>2, <4>3
    <3>2. Below(d)' = {d} /\ Bytes(d)' = Bytes(d) /\ \A x \in into : Bytes(x)' = Bytes(x)
      BY <1>1, <1>3, <2>1, <2>2, <2>3, Still
    <3>3. Below(call.at)' = {d} /\ Bytes(call.at)' = Bytes(d)
      BY <2>8, <3>2 DEF Bytes, Units, Below
    <3> QED BY <1>1, <1>3, <2>1, <2>7, <2>8, <3>1, <3>2, <3>3 DEF CallSound
  <2>16. tx'.changed \subseteq tree'
    BY <1>3, <2>13
  <2> QED BY <2>7, <2>8, <2>9, <2>14, <2>15, <2>16, GoesOn
<1> QED BY <1>2, <1>3 DEF StartMove

\* What the move of a directory changes.
LEMMA Renamed ==
    ASSUME AccountingAssumption, DiskTyped, NEW d \in tree, Below(d) = {d}, NEW e \in Dirs \ tree,
           Proper(e) \subseteq tree \ {d}, tree' = (tree \ {d}) \union {e}, marker' = marker,
           bytes' = Moved(bytes, d, e, 0), counter' = Moved(counter, d, e, NoCounter)
    PROVE  /\ DiskTyped' /\ bytes' \in Data
           /\ counter'[e] = counter[d] /\ \A x \in tree \ {d} : counter'[x] = counter[x]
           /\ \A x \in tree : /\ x \in Proper(d) \ Proper(e) => Bytes(x)' = Bytes(x) - Bytes(d)
                              /\ x \in Proper(e) \ Proper(d) => Bytes(x)' = Bytes(x) + Bytes(d)
                              /\ x \notin Proper(d) /\ x \notin Proper(e) /\ x # d => Bytes(x)' = Bytes(x)
                              /\ x \in Proper(d) /\ x \in Proper(e) => Bytes(x)' = Bytes(x)
           /\ Bytes(e)' = Bytes(d) /\ Bytes(d)' = 0 /\ Bytes(d) \in Nat
<1>1. /\ tree \in SUBSET Dirs /\ bytes \in Data /\ d \in Dirs /\ d # e /\ 0 \in 0..MaxBytes
      /\ d \in Above[d] /\ e \in Above[e] /\ Above[d] \subseteq tree /\ Root \in Above[e]
  BY DEF DiskTyped, AccountingAssumption
<1>2. /\ bytes' \in Data /\ bytes'[e] = bytes[d] /\ bytes'[d] = 0
      /\ \A x \in Dirs \ {d, e} : bytes'[x] = bytes[x]
  BY <1>1 DEF Moved, Data
<1>3. /\ counter' \in [Dirs -> Nat \union {NoCounter}] /\ counter'[e] = counter[d] /\ counter'[d] = NoCounter
      /\ \A x \in Dirs \ {d, e} : counter'[x] = counter[x]
  BY <1>1 DEF Moved, DiskTyped
<1>4. DiskTyped'
  <2>1. \A x \in tree \ {d} : d \notin Above[x]
    BY DEF Below
  <2>2. \A x \in tree' : Above[x] \subseteq tree'
    BY <1>1, <2>1 DEF DiskTyped, Proper
  <2>3. Root \in tree' /\ tree' \subseteq Dirs
    BY <1>1, <2>2 DEF DiskTyped
  <2>4. \A x \in Dirs \ tree' : bytes'[x] = 0 /\ counter'[x] = NoCounter
    BY <1>2, <1>3 DEF DiskTyped
  <2> QED BY <1>2, <1>3, <2>2, <2>3, <2>4 DEF DiskTyped
<1>5. ASSUME NEW x
      PROVE  /\ x \in Above[d] /\ x \notin Above[e] => Bytes(x)' = Bytes(x) - Bytes(d)
             /\ x \notin Above[d] /\ x \in Above[e] => Bytes(x)' = Bytes(x) + Bytes(d)
             /\ (x \in Above[d] <=> x \in Above[e]) => Bytes(x)' = Bytes(x)
             /\ Bytes(x) \in Nat /\ Bytes(d) \in Nat
  <2>1. {y \in tree : d \in Above[y]} = {d}
    BY DEF Below
  <2>2. \A y \in tree \ {d} : bytes'[y] = bytes[y]
    BY <1>1, <1>2
  <2>3. Count((tree \ {d}) \union {e}, bytes', x) = Count(tree, bytes, x) - Own(d, bytes, x) + Own(e, bytes', x)
    <3>1. /\ tree \in SUBSET Dirs /\ bytes \in Data /\ bytes' \in Data
          /\ d \in tree /\ e \in Dirs \ tree
      BY <1>1, <1>2
    <3> QED BY ONLY AccountingAssumption, <2>2, <3>1, CountMoves
  <2>4. Count(tree, bytes, x) \in Nat /\ Count(tree, bytes, d) \in Nat
    BY <1>1, CountFinite
  <2>5. /\ Bytes(x) = Count(tree, bytes, x) /\ Bytes(x)' = Count(tree', bytes', x)
        /\ Bytes(d) = Count(tree, bytes, d)
    BY BytesCounted
  <2>6. Count(tree, bytes, d) = bytes[d] + 1 /\ bytes[d] \in Nat
    BY <1>1, <2>1, CountLeaf DEF Data, AccountingAssumption
  <2>7. tree' = (tree \ {d}) \union {e} /\ bytes'[e] = bytes[d]
    BY <1>2
  <2> QED BY ONLY <2>3, <2>4, <2>5, <2>6, <2>7 DEF Own
<1>6. \A x \in tree : /\ x \in Proper(d) \ Proper(e) => Bytes(x)' = Bytes(x) - Bytes(d)
                      /\ x \in Proper(e) \ Proper(d) => Bytes(x)' = Bytes(x) + Bytes(d)
                      /\ x \notin Proper(d) /\ x \notin Proper(e) /\ x # d => Bytes(x)' = Bytes(x)
                      /\ x \in Proper(d) /\ x \in Proper(e) => Bytes(x)' = Bytes(x)
  <2> SUFFICES ASSUME NEW x \in tree
               PROVE  /\ x \in Proper(d) \ Proper(e) => Bytes(x)' = Bytes(x) - Bytes(d)
                      /\ x \in Proper(e) \ Proper(d) => Bytes(x)' = Bytes(x) + Bytes(d)
                      /\ x \notin Proper(d) /\ x \notin Proper(e) /\ x # d => Bytes(x)' = Bytes(x)
                      /\ x \in Proper(d) /\ x \in Proper(e) => Bytes(x)' = Bytes(x)
    OBVIOUS
  <2>1. /\ x # e /\ (x \in Proper(d) <=> x \in Above[d] /\ x # d)
        /\ (x \in Proper(e) <=> x \in Above[e]) /\ d \notin Above[e]
    BY <1>1 DEF Proper
  <2> QED BY <1>5, <2>1
<1>7. Bytes(e)' = Bytes(d) /\ Bytes(d)' = 0 /\ Bytes(d) \in Nat
  <2>1. e \notin Above[d] /\ d \notin Above[e]
    BY <1>1 DEF Proper
  <2>2. Bytes(e) = 0
    BY NotThere
  <2>3. Bytes(e)' = Bytes(e) + Bytes(d)
    BY ONLY <1>1, <1>5, <2>1
  <2>4. Bytes(d)' = Bytes(d) - Bytes(d) /\ Bytes(d) \in Nat
    BY ONLY <1>1, <1>5, <2>1
  <2> QED BY <2>2, <2>3, <2>4
<1> QED BY <1>1, <1>2, <1>3, <1>4, <1>6, <1>7

LEMMA MoveKeeps ==
    ASSUME AccountingAssumption, AInv, Move
    PROVE  AInv'
<1>0. PICK d, e : d = call.at /\ e = call.to
  OBVIOUS
<1> DEFINE Rename == /\ tree' = (tree \ {d}) \union {e}
                     /\ bytes' = Moved(bytes, d, e, 0) /\ counter' = Moved(counter, d, e, NoCounter)
<1>1. call.kind = "move" /\ UNCHANGED <<marker, deaths>>
  BY DEF Move
<1>2. /\ tx.pc = "open" /\ tx.dirty /\ ~ tx.failed /\ marker = "dirty" /\ tx.changed \subseteq tree
      /\ DiskTyped /\ Bounds /\ Tx(tx) /\ Believed
  BY <1>1, Calling
<1>3. d \in tree /\ Below(d) = {d} /\ e \in Dirs \ tree /\ Proper(e) \subseteq tree \ {d}
  BY <1>0, <1>1 DEF AInv, CallSound
<1>4. (Rename \/ UNCHANGED <<tree, bytes, counter>>) /\ (UNCHANGED mishaps \/ Mishap)
  BY <1>0 DEF Move
<1>5. DiskTyped' /\ Bounds' /\ CleanMeansExact'
  <2>1. Bounds'
    BY <1>1, <1>2, <1>4, Bounded
  <2>2. CASE Rename
    BY <1>1, <1>2, <1>3, <2>1, <2>2, Renamed DEF CleanMeansExact
  <2>3. CASE UNCHANGED <<tree, bytes, counter>>
    BY <1>1, <1>2, <2>1, <2>3 DEF DiskTyped, CleanMeansExact
  <2> QED BY <1>4, <2>2, <2>3
<1>6. CASE Failed(tx)
  BY <1>1, <1>2, <1>5, <1>6, FailedKeeps
<1> DEFINE S == (DOMAIN tx.totals \ {d}) \union (IF d \in DOMAIN tx.totals THEN {e} ELSE {})
           f == [x \in S |-> IF x = e THEN tx.totals[d] ELSE tx.totals[x]]
           c == (tx.changed \ {d}) \union (IF d \in tx.changed THEN {e} ELSE {})
<1>7. CASE Rename /\ call' = NoOp /\ tx' = [tx EXCEPT !.totals = f, !.changed = c]
  <2>1. /\ DOMAIN tx.totals \subseteq tree /\ tx.changed \subseteq DOMAIN tx.totals
        /\ \A x \in tree : Loadable({x}) /\ Total(x) = Bytes(x) + Owing(x)
        /\ \A x \in DOMAIN tx.totals \ tx.changed : tx.totals[x] = counter[x]
    BY <1>2 DEF AInv, MemoryExact
  <2>2. /\ f = [x \in DOMAIN f |-> f[x]] /\ DOMAIN f = S
        /\ \A x \in DOMAIN tx.totals \ {d} : f[x] = tx.totals[x]
        /\ d \in DOMAIN tx.totals => f[e] = tx.totals[d]
    BY <1>3, <2>1
  <2>3. /\ \A x \in tree \ {d} : (x \in S <=> x \in DOMAIN tx.totals) /\ (x \in c <=> x \in tx.changed)
        /\ (e \in S <=> d \in DOMAIN tx.totals) /\ (e \in c <=> d \in tx.changed)
        /\ S \subseteq (tree \ {d}) \union {e} /\ c \subseteq S
    BY <1>3, <2>1
  <2> HIDE DEF f, S, c
  <2>4. /\ Tx(tx') /\ tx'.pc = "open" /\ tx'.dirty /\ ~ tx'.failed /\ tx'.totals = f /\ tx'.changed = c
    <3>1. tx' = [pc |-> tx.pc, totals |-> f, changed |-> c, dirty |-> tx.dirty, failed |-> tx.failed]
      BY <1>2, <1>7 DEF Tx
    <3> QED BY <1>2, <2>2, <3>1 DEF Tx
  <2>5. call'.kind = "none" /\ IsCall(call') /\ \A x : Owing(x)' = 0
    BY <1>7, NoOpTyped DEF Owing
  <2>6. /\ counter'[e] = counter[d] /\ \A x \in tree \ {d} : counter'[x] = counter[x]
        /\ \A x \in tree : /\ x \in Proper(d) \ Proper(e) => Bytes(x)' = Bytes(x) - Bytes(d)
                           /\ x \in Proper(e) \ Proper(d) => Bytes(x)' = Bytes(x) + Bytes(d)
                           /\ x \notin Proper(d) /\ x \notin Proper(e) /\ x # d => Bytes(x)' = Bytes(x)
                           /\ x \in Proper(d) /\ x \in Proper(e) => Bytes(x)' = Bytes(x)
        /\ Bytes(e)' = Bytes(d) /\ Bytes(d) \in Nat
    BY <1>1, <1>2, <1>3, <1>7, Renamed
  <2>7. \A x : /\ x \in Proper(e) \ Proper(d) => Owing(x) = Bytes(d)
               /\ x \in Proper(d) \ Proper(e) => Owing(x) = - Bytes(d)
               /\ x \notin Proper(d) /\ x \notin Proper(e) => Owing(x) = 0
               /\ x \in Proper(d) /\ x \in Proper(e) => Owing(x) = 0
    BY <1>0, <1>1 DEF Owing
  <2>8. ASSUME NEW x \in tree \ {d} PROVE Loadable({x})' /\ Total(x)' = Bytes(x)' /\ Bytes(x)' \in Nat
    <3>1. Total(x)' = Total(x) /\ Loadable({x})'
      BY <2>1, <2>2, <2>3, <2>4, <2>6 DEF Total, Loadable
    <3>2. Total(x) = Bytes(x) + Owing(x)
      BY <2>1
    <3>3. Bytes(x) \in Nat /\ Bytes(d) \in Nat
      BY <1>2, <2>6, Trees
    <3>4. CASE x \in Proper(e) \ Proper(d)
      <4>1. Bytes(x)' = Bytes(x) + Bytes(d) /\ Owing(x) = Bytes(d)
        BY <2>6, <2>7, <3>4
      <4> QED BY <3>1, <3>2, <3>3, <4>1
    <3>5. CASE x \in Proper(d) \ Proper(e)
      <4>1. Bytes(x)' = Bytes(x) - Bytes(d) /\ Owing(x) = - Bytes(d)
        BY <2>6, <2>7, <3>5
      <4>2. Bytes(x)' \in Nat
        BY <1>2, <1>3, <1>5, <1>7, CountFinite, BytesCounted DEF DiskTyped
      <4> QED BY <3>1, <3>2, <3>3, <4>1, <4>2
    <3>6. CASE (x \in Proper(d) /\ x \in Proper(e)) \/ (x \notin Proper(d) /\ x \notin Proper(e))
      <4>1. Bytes(x)' = Bytes(x) /\ Owing(x) = 0
        BY <2>6, <2>7, <3>6
      <4> QED BY <3>1, <3>2, <3>3, <4>1
    <3> QED BY <3>4, <3>5, <3>6
  <2>9. Loadable({e})' /\ Total(e)' = Bytes(e)' /\ Bytes(e)' \in Nat
    <3>1. Owing(d) = 0
      BY <1>3, <2>7 DEF Proper
    <3>2. Total(d) = Bytes(d) /\ Loadable({d})
      <4>1. Total(d) = Bytes(d) + Owing(d) /\ Loadable({d}) /\ Bytes(d) \in Nat
        BY <1>3, <2>1, <2>6
      <4> QED BY <3>1, <4>1
    <3>3. Total(e)' = Total(d) /\ Loadable({e})'
      BY <2>2, <2>3, <2>4, <2>6, <3>2 DEF Total, Loadable
    <3> QED BY <2>6, <3>2, <3>3
  <2>10. /\ DOMAIN tx'.totals \subseteq tree' /\ tx'.changed \subseteq DOMAIN tx'.totals
    BY <1>7, <2>2, <2>3, <2>4
  <2>11. \A x \in DOMAIN tx'.totals \ tx'.changed : tx'.totals[x] = counter'[x]
    BY <1>7, <2>1, <2>2, <2>3, <2>4, <2>6
  <2>12. MemoryExact'
    <3>1. ASSUME NEW x \in tree' PROVE Loadable({x})' /\ Total(x)' = Bytes(x)' + Owing(x)'
      <4>1. Loadable({x})' /\ Total(x)' = Bytes(x)' /\ Bytes(x)' \in Nat
        BY <1>7, <2>8, <2>9
      <4>2. Owing(x)' = 0
        BY ONLY <2>5
      <4> QED BY <4>1, <4>2
    <3> QED BY <2>10, <2>11, <3>1 DEF MemoryExact
  <2>13. CallSound' /\ tx'.changed \subseteq tree'
    BY <2>5, <2>10 DEF CallSound
  <2> QED BY <1>1, <1>2, <1>5, <2>4, <2>5, <2>12, <2>13, GoesOn
<1> QED BY <1>0, <1>6, <1>7 DEF Move

----------------------------------------------------------------------------
(* The transaction around them.                                              *)

\* Between calls nothing is owed.
LEMMA NothingOwed ==
    ASSUME AccountingAssumption, AInv, call.kind = "none", tx.pc = "open", ~ tx.failed
    PROVE  /\ DOMAIN tx.totals \subseteq tree /\ tx.changed \subseteq DOMAIN tx.totals
           /\ \A d \in tree : Loadable({d}) /\ Total(d) = Bytes(d) /\ Bytes(d) \in Nat
           /\ \A d \in DOMAIN tx.totals \ tx.changed : tx.totals[d] = counter[d]
<1>1. Believed /\ DiskTyped
  BY AccountsTyped DEF Believed, AInv
<1>2. /\ DOMAIN tx.totals \subseteq tree /\ tx.changed \subseteq DOMAIN tx.totals
      /\ \A d \in tree : Loadable({d}) /\ Total(d) = Bytes(d) + Owing(d)
      /\ \A d \in DOMAIN tx.totals \ tx.changed : tx.totals[d] = counter[d]
  BY <1>1 DEF AInv, MemoryExact
<1>3. \A d \in tree : Owing(d) = 0 /\ Bytes(d) \in Nat
  BY <1>1, Trees DEF Owing
<1> QED BY <1>2, <1>3

\* A transaction that has just been opened believes what is on disk.
LEMMA Opened ==
    ASSUME AccountingAssumption, DiskTyped', Bounds', CleanMeansExact', marker' = "clean" ,
           call'.kind = "none", IsCall(call'),
           tx' = [NoTx EXCEPT !.pc = "open", !.totals = [d \in {Root} |-> counter'[d]]]
    PROVE  AInv'
<1> DEFINE f == [d \in {Root} |-> counter'[d]]
<1>1. f = [d \in DOMAIN f |-> f[d]] /\ DOMAIN f = {Root} /\ f[Root] = counter'[Root]
  OBVIOUS
<1> HIDE DEF f
<1>2. tx' = [pc |-> "open", totals |-> f, changed |-> {}, dirty |-> FALSE, failed |-> FALSE]
  BY DEF NoTx, f
<1>3. /\ Tx(tx') /\ tx'.pc = "open" /\ ~ tx'.dirty /\ ~ tx'.failed /\ tx'.changed = {} /\ tx'.totals = f
  <2>1. PICK z : z = {}
    OBVIOUS
  <2>2. tx' = [pc |-> "open", totals |-> f, changed |-> z, dirty |-> FALSE, failed |-> FALSE]
    BY <1>2, <2>1
  <2>3. tx'.pc = "open" /\ tx'.totals = f /\ tx'.changed = z /\ tx'.dirty = FALSE /\ tx'.failed = FALSE
    BY ONLY <2>2
  <2>4. tx' = [pc |-> tx'.pc, totals |-> tx'.totals, changed |-> tx'.changed, dirty |-> tx'.dirty, failed |-> tx'.failed]
    BY ONLY <2>2, <2>3
  <2>5. Tx(tx')
    BY ONLY <1>1, <2>3, <2>4 DEF Tx
  <2> QED BY <2>1, <2>3, <2>5
<1>4. \A d \in tree' : counter'[d] = Bytes(d)' /\ Bytes(d)' \in Nat
  <2>1. tree' \in SUBSET Dirs /\ bytes' \in Data
    BY DEF DiskTyped
  <2> QED BY <2>1, CountFinite, BytesCounted DEF CleanMeansExact
<1>5. \A d : Owing(d)' = 0
  BY DEF Owing
<1>6. ASSUME NEW d \in tree' PROVE Loadable({d})' /\ Total(d)' = Bytes(d)' + Owing(d)'
  <2>1. Total(d)' = counter'[d] /\ Loadable({d})'
    BY <1>1, <1>3, <1>4 DEF Total, Loadable, AccountingAssumption
  <2>2. Owing(d)' = 0
    BY ONLY <1>5
  <2> QED BY <1>4, <2>1, <2>2
<1>7. MemoryExact'
  BY <1>1, <1>3, <1>6 DEF MemoryExact, DiskTyped
<1>8. AccountsTypeOK'
  BY <1>3 DEF AccountsTypeOK, DiskTyped, Bounds, Data
<1>9. WorkLeft' /\ MarkedFirst' /\ CallSound' /\ Shapes'
  BY <1>3 DEF WorkLeft, MarkedFirst, CallSound, Shapes, Tx
<1> QED BY <1>7, <1>8, <1>9 DEF AInv

\* One that counts, or saves.
LEMMA Works ==
    ASSUME DiskTyped', Bounds', marker' = "dirty", call'.kind = "none", IsCall(call'),
           Tx(tx'), tx'.pc \in {"recount", "saving"}, ~ tx'.failed, tx'.changed \subseteq tree', WorkLeft'
    PROVE  AInv'
<1>1. AccountsTypeOK'
  BY DEF AccountsTypeOK, DiskTyped, Bounds, Data
<1>2. CleanMeansExact' /\ MemoryExact' /\ MarkedFirst' /\ CallSound' /\ Shapes'
  BY DEF CleanMeansExact, MemoryExact, Believed, MarkedFirst, CallSound, Shapes, Tx
<1> QED BY <1>1, <1>2 DEF AInv

LEMMA BetweenCalls ==
    ASSUME AInv, tx.pc # "open" \/ call.kind = "none"
    PROVE  /\ call.kind = "none" /\ IsCall(call) /\ DiskTyped /\ Bounds /\ CleanMeansExact /\ Tx(tx)
           /\ ~ tx.failed => tx.changed \subseteq tree
<1>1. call.kind = "none" /\ IsCall(call)
  BY DEF AInv, MarkedFirst, Shapes
<1> QED BY <1>1, AccountsTyped, TxIs DEF AInv, TxTyped

LEMMA OpenKeeps ==
    ASSUME AccountingAssumption, AInv, Open
    PROVE  AInv'
<1>1. tx.pc = "none" /\ UNCHANGED <<tree, bytes, counter, call, mishaps, deaths>>
  BY DEF Open
<1>2. call.kind = "none" /\ IsCall(call) /\ DiskTyped /\ Bounds /\ CleanMeansExact
  BY <1>1, BetweenCalls
<1>3. marker' = IF tx'.dirty THEN "dirty" ELSE marker
  BY DEF Open
<1>4. CASE /\ marker = "clean"
           /\ tx' = [NoTx EXCEPT !.pc = "open", !.totals = [d \in {Root} |-> counter[d]]]
  <2>1. marker' = "clean"
    BY <1>3, <1>4 DEF NoTx
  <2>2. DiskTyped' /\ Bounds' /\ CleanMeansExact'
    BY <1>1, <1>2, <1>4, <2>1, DiskStays DEF Bounds
  <2>3. tx' = [NoTx EXCEPT !.pc = "open", !.totals = [d \in {Root} |-> counter'[d]]]
    BY <1>1, <1>4
  <2>4. call'.kind = "none" /\ IsCall(call')
    BY <1>1, <1>2
  <2> QED BY ONLY AccountingAssumption, <2>1, <2>2, <2>3, <2>4, Opened
<1>5. CASE tx' = [NoTx EXCEPT !.pc = "recount", !.changed = tree, !.dirty = TRUE]
  <2>1. /\ Tx(tx') /\ tx'.pc = "recount" /\ tx'.dirty /\ ~ tx'.failed /\ tx'.changed = tree
    <3>1. tx' = [pc |-> "recount", totals |-> << >>, changed |-> tree, dirty |-> TRUE, failed |-> FALSE]
      BY <1>5 DEF NoTx
    <3>2. NoTx.totals = << >> /\ NoTx.totals = [d \in DOMAIN NoTx.totals |-> NoTx.totals[d]]
      BY NoTxIs DEF NoTx, Tx
    <3>3. /\ tx'.pc = "recount" /\ tx'.totals = NoTx.totals /\ tx'.changed = tree
          /\ tx'.dirty = TRUE /\ tx'.failed = FALSE
      BY <3>1, <3>2
    <3>4. tx' = [pc |-> tx'.pc, totals |-> tx'.totals, changed |-> tx'.changed, dirty |-> tx'.dirty, failed |-> tx'.failed]
      BY <3>1, <3>3
    <3> QED BY ONLY <3>2, <3>3, <3>4 DEF Tx
  <2>2. marker' = "dirty"
    BY <1>3, <2>1
  <2>3. DiskTyped' /\ Bounds'
    BY <1>1, <1>2, <2>2, DiskStays DEF Bounds
  <2>4. WorkLeft'
    BY <1>1, <1>2, <2>1 DEF WorkLeft
  <2> QED BY <1>1, <1>2, <2>1, <2>2, <2>3, <2>4, Works
<1> QED BY <1>4, <1>5 DEF Open

\* A subtotal is saved, or fails to be.
LEMMA SaveTotalKeeps ==
    ASSUME AccountingAssumption, AInv, tx.pc \in {"recount", "saving"}, UNCHANGED <<tree, bytes, marker, deaths>>,
           NEW d \in tx.changed, SaveTotal(d, Bytes(d))
    PROVE  AInv'
<1>1. /\ call.kind = "none" /\ IsCall(call) /\ DiskTyped /\ Bounds /\ Tx(tx)
      /\ ~ tx.failed /\ marker = "dirty" /\ tx.changed \subseteq tree
  BY BetweenCalls DEF AInv, WorkLeft, MarkedFirst
<1>2. Bytes(d) \in Nat /\ d \in tree
  BY <1>1, Trees
<1> DEFINE saved == [counter EXCEPT ![d] = Bytes(d)]
<1>3. /\ saved \in [Dirs -> Nat \union {NoCounter}] /\ saved[d] = Bytes(d)
      /\ \A e \in Dirs \ {d} : saved[e] = counter[e]
  BY <1>1, <1>2 DEF DiskTyped
<1> HIDE DEF saved
<1>4. counter' \in {counter, saved}
  BY DEF SaveTotal, saved
<1>5. DiskTyped'
  <2>1. \A e \in Dirs \ tree : counter'[e] = counter[e]
    BY <1>2, <1>3, <1>4
  <2> QED BY <1>1, <1>3, <1>4, <2>1 DEF DiskTyped
<1>6. Bounds'
  BY <1>1, Bounded DEF SaveTotal
<1>7. CASE Abort
  BY <1>1, <1>5, <1>6, <1>7, NoOpTyped, EndedKeeps DEF Abort, CleanMeansExact
<1>8. CASE counter' = saved /\ tx' = [tx EXCEPT !.changed = @ \ {d}] /\ UNCHANGED call
  <2>1. /\ Tx(tx') /\ tx'.pc = tx.pc /\ ~ tx'.failed /\ tx'.changed = tx.changed \ {d}
        /\ tx'.totals = tx.totals
    <3> DEFINE left == tx.changed \ {d}
    <3> HIDE DEF left
    <3>1. tx' = [pc |-> tx.pc, totals |-> tx.totals, changed |-> left, dirty |-> tx.dirty, failed |-> tx.failed]
      BY <1>1, <1>8 DEF Tx, left
    <3>2. /\ tx'.pc = tx.pc /\ tx'.totals = tx.totals /\ tx'.changed = left
          /\ tx'.dirty = tx.dirty /\ tx'.failed = tx.failed
      BY <3>1
    <3>3. Tx(tx')
      BY ONLY <1>1, <3>1, <3>2 DEF Tx
    <3> QED BY <1>1, <3>2, <3>3 DEF left
  <2>2. /\ \A e \in tree \ tx.changed : counter[e] = Bytes(e)
        /\ tx.pc = "saving" => /\ tx.changed \subseteq DOMAIN tx.totals
                               /\ \A e \in tx.changed : tx.totals[e] = Bytes(e)
    BY DEF AInv, WorkLeft
  <2>3. \A e : Bytes(e)' = Bytes(e)
    BY Still
  <2>4. \A e \in tree : e # d => counter'[e] = counter[e]
    BY <1>1, <1>3, <1>8 DEF DiskTyped
  <2>5. \A e \in tree \ tx'.changed : counter'[e] = Bytes(e)
    BY <1>3, <1>8, <2>1, <2>2, <2>4
  <2>6. WorkLeft'
    BY <1>1, <1>8, <2>1, <2>2, <2>3, <2>5 DEF WorkLeft
  <2> QED BY <1>1, <1>5, <1>6, <1>8, <2>1, <2>6, Works
<1> QED BY <1>7, <1>8 DEF SaveTotal, saved

\* All is saved.
LEMMA AllSaved ==
    ASSUME AccountingAssumption, AInv, tx.pc \in {"recount", "saving"}, tx.changed = {},
           UNCHANGED <<tree, bytes, counter, deaths>>, UNCHANGED mishaps \/ Mishap
    PROVE  /\ call.kind = "none" /\ IsCall(call) /\ Bounds'
           /\ marker' \in {"clean", "dirty"} => DiskTyped' /\ CleanMeansExact'
<1>1. call.kind = "none" /\ IsCall(call) /\ DiskTyped /\ Bounds
  BY BetweenCalls
<1>2. \A e \in tree : counter[e] = Bytes(e) /\ Bytes(e)' = Bytes(e)
  BY Still DEF AInv, WorkLeft
<1>3. Bounds'
  BY <1>1, Bounded
<1> QED BY <1>1, <1>2, <1>3 DEF DiskTyped, CleanMeansExact

LEMMA RecountedKeeps ==
    ASSUME AccountingAssumption, AInv, Recounted
    PROVE  AInv'
<1>1. tx.pc = "recount" /\ tx.changed = {} /\ UNCHANGED <<tree, bytes, counter, deaths>>
  BY DEF Recounted
<1>2. marker \in {"clean", "dirty"} /\ marker' \in {marker, "clean"} /\ (UNCHANGED mishaps \/ Mishap)
  BY DEF Recounted, Clean, AInv, AccountsTypeOK
<1>3. call.kind = "none" /\ IsCall(call) /\ Bounds' /\ DiskTyped' /\ CleanMeansExact'
  BY <1>1, <1>2, AllSaved
<1>4. CASE /\ marker' = "clean" /\ UNCHANGED call
           /\ tx' = [NoTx EXCEPT !.pc = "open", !.totals = [d \in {Root} |-> counter[d]]]
  <2>1. tx' = [NoTx EXCEPT !.pc = "open", !.totals = [d \in {Root} |-> counter'[d]]]
    BY <1>1, <1>4
  <2>2. call'.kind = "none" /\ IsCall(call') /\ marker' = "clean"
    BY <1>3, <1>4
  <2> QED BY ONLY AccountingAssumption, <1>3, <2>1, <2>2, Opened
<1>5. CASE Abort
  BY <1>3, <1>5, NoOpTyped, EndedKeeps DEF Abort
<1> QED BY <1>4, <1>5 DEF Recounted, Clean

LEMMA SavedKeeps ==
    ASSUME AccountingAssumption, AInv, Saved
    PROVE  AInv'
<1>1. tx.pc = "saving" /\ tx.changed = {} /\ UNCHANGED <<tree, bytes, counter, deaths>>
  BY DEF Saved
<1>2. marker \in {"clean", "dirty"} /\ marker' \in {marker, "clean"} /\ (UNCHANGED mishaps \/ Mishap)
  BY DEF Saved, Clean, AInv, AccountsTypeOK
<1>3. call.kind = "none" /\ IsCall(call) /\ Bounds' /\ DiskTyped' /\ CleanMeansExact'
  BY <1>1, <1>2, AllSaved
<1>4. tx' = NoTx /\ (call' = call \/ call' = NoOp)
  BY DEF Saved, Clean, Abort
<1>5. call'.kind = "none" /\ IsCall(call')
  BY <1>3, <1>4, NoOpTyped
<1> QED BY <1>3, <1>4, <1>5, EndedKeeps

LEMMA CloseKeeps ==
    ASSUME AccountingAssumption, AInv, Close
    PROVE  AInv'
<1>1. tx.pc = "open" /\ call.kind = "none" /\ UNCHANGED <<tree, bytes, counter, marker, call, mishaps, deaths>>
  BY DEF Close, disk
<1>2. call.kind = "none" /\ IsCall(call) /\ DiskTyped /\ Bounds /\ CleanMeansExact /\ Tx(tx)
  BY <1>1, BetweenCalls
<1>3. DiskTyped' /\ Bounds' /\ CleanMeansExact'
  BY <1>1, <1>2, DiskStays DEF Bounds
<1>4. CASE tx' = NoTx
  BY <1>1, <1>2, <1>3, <1>4, EndedKeeps
<1>5. CASE tx.dirty /\ ~ tx.failed /\ tx' = [tx EXCEPT !.pc = "saving"]
  <2>1. /\ DOMAIN tx.totals \subseteq tree /\ tx.changed \subseteq DOMAIN tx.totals
        /\ \A d \in tree : Loadable({d}) /\ Total(d) = Bytes(d) /\ Bytes(d) \in Nat
        /\ \A d \in DOMAIN tx.totals \ tx.changed : tx.totals[d] = counter[d]
    BY <1>1, <1>5, NothingOwed
  <2>2. /\ Tx(tx') /\ tx'.pc = "saving" /\ ~ tx'.failed /\ tx'.changed = tx.changed /\ tx'.totals = tx.totals
    <3>1. tx' = [pc |-> "saving", totals |-> tx.totals, changed |-> tx.changed, dirty |-> tx.dirty, failed |-> tx.failed]
      BY <1>2, <1>5 DEF Tx
    <3>2. /\ tx'.pc = "saving" /\ tx'.totals = tx.totals /\ tx'.changed = tx.changed
          /\ tx'.dirty = tx.dirty /\ tx'.failed = tx.failed
      BY <3>1
    <3>3. Tx(tx')
      BY ONLY <1>2, <3>1, <3>2 DEF Tx
    <3> QED BY <1>5, <3>2, <3>3
  <2>3. \A d : Bytes(d)' = Bytes(d)
    BY <1>1, Still
  <2>4. \A d \in tree \ tx.changed : counter[d] = Bytes(d)
    BY <2>1 DEF Total
  <2>5. \A d \in tx.changed : tx.totals[d] = Bytes(d)
    BY <2>1 DEF Total
  <2>6. WorkLeft'
    BY <1>1, <2>1, <2>2, <2>3, <2>4, <2>5 DEF WorkLeft
  <2>7. marker' = "dirty" /\ tx'.changed \subseteq tree'
    BY <1>1, <1>5, <2>1, <2>2 DEF AInv, MarkedFirst
  <2> QED BY <1>1, <1>2, <1>3, <2>2, <2>6, <2>7, Works
<1> QED BY <1>4, <1>5 DEF Close

\* The process leaves the transaction, by an exception or by dying.
LEMMA LeavesKeeps ==
    ASSUME AccountingAssumption, AInv, Raise \/ ProcessDies
    PROVE  AInv'
<1>1. /\ UNCHANGED <<tree, bytes, counter, marker, mishaps>> /\ Abort
      /\ deaths' = deaths \/ (deaths < MaxDeaths /\ deaths' = deaths + 1)
  BY DEF Raise, ProcessDies, disk
<1>2. DiskTyped /\ Bounds /\ CleanMeansExact
  BY AccountsTyped DEF AInv
<1>3. DiskTyped' /\ CleanMeansExact'
  BY <1>1, <1>2, DiskStays
<1>4. Bounds'
  BY <1>1, <1>2, Bounded
<1> QED BY <1>1, <1>3, <1>4, NoOpTyped, EndedKeeps DEF Abort

\* Somebody else changes what is stored.
LEMMA AdministerKeeps ==
    ASSUME AccountingAssumption, AInv, Administer
    PROVE  AInv'
<1>1. /\ tx.pc = "none" /\ marker' = "dirty" /\ UNCHANGED <<tree, counter, tx, call, mishaps, deaths>>
  BY DEF Administer
<1>2. PICK d \in tree, n \in 0..MaxBytes : bytes' = [bytes EXCEPT ![d] = n]
  BY DEF Administer
<1>3. DiskTyped /\ Bounds /\ TxTyped
  BY AccountsTyped DEF AInv
<1>4. DiskTyped' /\ Bounds' /\ TxTyped'
  BY <1>1, <1>2, <1>3 DEF DiskTyped, Data, Bounds, TxTyped
<1>5. AccountsTypeOK'
  BY <1>4, AccountsTyped DEF AccountsTypeOK, DiskTyped, Bounds, TxTyped, Data
<1>6. call.kind = "none"
  BY <1>1, BetweenCalls
<1>7. CleanMeansExact' /\ MemoryExact' /\ WorkLeft' /\ MarkedFirst' /\ CallSound' /\ Shapes'
  BY <1>1, <1>6 DEF AInv, CleanMeansExact, MemoryExact, Believed, WorkLeft, MarkedFirst, CallSound, Shapes
<1> QED BY <1>5, <1>7 DEF AInv

LEMMA AInit == ASSUME AccountingAssumption, AccountsInit PROVE AInv
<1>1. DiskTyped /\ Bounds
  <2>1. \A d \in {Root} : Above[d] \subseteq {Root}
    BY DEF AccountingAssumption
  <2> QED BY <2>1 DEF AccountsInit, DiskTyped, Bounds, Data, AccountingAssumption
<1>2. Tx(tx) /\ tx.pc = "none" /\ ~ tx.dirty /\ ~ tx.failed /\ tx.changed = {}
  BY NoTxIs DEF AccountsInit
<1>3. call.kind = "none" /\ IsCall(call) /\ marker = "dirty"
  BY DEF AccountsInit, NoOp, IsCall
<1>4. AccountsTypeOK
  BY <1>1, <1>2, <1>3 DEF AccountsTypeOK, DiskTyped, Bounds, Data
<1> QED BY <1>2, <1>3, <1>4 DEF AInv, CleanMeansExact, MemoryExact, Believed, WorkLeft, MarkedFirst, CallSound, Shapes, Tx

LEMMA ANext == ASSUME AccountingAssumption, AInv, [AccountsNext]_accountVars PROVE AInv'
<1>1. CASE \E d \in Dirs : StartMkdir(d) \/ StartRemove(d)
  BY <1>1, StartMkdirKeeps, StartRemoveKeeps
<1>2. CASE \E d \in Dirs, n \in 1..MaxBytes, enforce \in BOOLEAN : StartWrite(d, n, enforce)
  BY <1>2, StartWriteKeeps
<1>3. CASE \E d, e \in Dirs : StartMove(d, e)
  BY <1>3, StartMoveKeeps
<1>4. CASE Flush \/ EndWrite \/ Unlink \/ Mkdir \/ Remove \/ Move
  BY <1>4, FlushKeeps, EndWriteKeeps, UnlinkKeeps, MkdirKeeps, RemoveKeeps, MoveKeeps
<1>5. CASE Recount \/ Saving
  <2>1. PICK d \in tx.changed : /\ tx.pc \in {"recount", "saving"} /\ UNCHANGED <<tree, bytes, marker, deaths>>
                                /\ SaveTotal(d, Bytes(d))
    BY <1>5 DEF Recount, Saving, Deepest, AInv, WorkLeft
  <2> QED BY <2>1, SaveTotalKeeps
<1>6. CASE Open \/ Recounted \/ Close \/ Raise \/ Saved \/ ProcessDies \/ Administer
  BY <1>6, OpenKeeps, RecountedKeeps, CloseKeeps, SavedKeeps, LeavesKeeps, AdministerKeeps
<1>7. CASE UNCHANGED accountVars
  <2>1. \A d : Bytes(d)' = Bytes(d) /\ Below(d)' = Below(d)
    BY <1>7, Still DEF accountVars
  <2> QED
    BY <1>7, <2>1 DEF accountVars, AInv, AccountsTypeOK, CleanMeansExact, MemoryExact, Believed, Owing, Loadable,
      Total, WorkLeft, MarkedFirst, CallSound, Shapes, IsCall
<1> QED BY <1>1, <1>2, <1>3, <1>4, <1>5, <1>6, <1>7 DEF AccountsNext, StoreOperation, Transaction

\* The inductive invariant.
THEOREM AccountsHold == ASSUME AccountingAssumption PROVE AccountsSpec => []AInv
<1>1. AccountsInit => AInv
  BY AInit
<1>2. AInv /\ [AccountsNext]_accountVars => AInv'
  BY ANext
<1> QED BY <1>1, <1>2, PTL DEF AccountsSpec

\* When the marker says that the subtotals can be believed, each is what its
\* directory holds, whatever failed or died before; and what a transaction in
\* which nothing failed would charge for a directory is what it holds
\* (result_accounting.py:247).
THEOREM AccountsAreExact == ASSUME AccountingAssumption PROVE AccountsSpec => []AccountsExact
<1>1. ASSUME AInv PROVE AccountsExact
  <2>1. ChargesExact
    BY <1>1, NothingOwed DEF ChargesExact
  <2> QED BY <1>1, <2>1 DEF AInv, AccountsExact
<1> QED BY <1>1, AccountsHold, PTL

\* A step that takes something away, and adds nothing.
LEMMA Lessens ==
    ASSUME AccountingAssumption, DiskTyped, tree' \subseteq tree, bytes' \in Data,
           \A e \in tree' : bytes'[e] <= bytes[e], NEW d
    PROVE  ~ (Bytes(d)' > Bytes(d))
<1>1. tree \in SUBSET Dirs /\ bytes \in Data /\ tree' \in SUBSET tree /\ bytes' \in Data
  BY DEF DiskTyped
<1>2. /\ Count(tree', bytes', d) \in Nat /\ Count(tree, bytes, d) \in Nat
      /\ Count(tree', bytes', d) <= Count(tree, bytes, d)
  BY ONLY AccountingAssumption, <1>1, \A e \in tree' : bytes'[e] <= bytes[e], CountShrinks
<1> QED BY <1>2, BytesCounted

\* The data of one directory becomes less.
LEMMA Shortens ==
    ASSUME AccountingAssumption, DiskTyped, NEW e \in tree, NEW n \in 0..bytes[e], tree' = tree,
           bytes' \in {bytes, [bytes EXCEPT ![e] = @ - n]}, NEW d
    PROVE  ~ (Bytes(d)' > Bytes(d))
<1>1. bytes[e] \in 0..MaxBytes /\ e \in Dirs /\ MaxBytes \in Nat
  BY DEF DiskTyped, Data, AccountingAssumption
<1>2. bytes[e] - n \in 0..MaxBytes /\ bytes[e] - n <= bytes[e]
  BY <1>1
<1>3. bytes' \in Data /\ \A x \in Dirs : bytes'[x] = bytes[x] \/ (x = e /\ bytes'[x] = bytes[e] - n)
  BY <1>1, <1>2 DEF DiskTyped, Data
<1>4. \A x \in tree : bytes'[x] <= bytes[x]
  BY <1>2, <1>3 DEF DiskTyped, Data, AccountingAssumption
<1> QED BY <1>3, <1>4, Lessens

\* What lets something grow has asked for room.
LEMMA GrowsInRoom ==
    ASSUME AccountingAssumption, AInv, AccountsNext, call.enforce, call.kind # "none",
           NEW d \in tree, Bytes(d)' > Bytes(d)
    PROVE  Bytes(d)' <= Limit[d]
<1>1. tx.pc = "open" /\ DiskTyped /\ d \in Dirs /\ Limit[d] \in Nat /\ Bytes(d) \in Nat
  <2>1. DiskTyped
    BY AccountsTyped DEF AInv
  <2> QED BY <2>1, Trees DEF AInv, MarkedFirst, AccountingAssumption
<1>2. ~ UNCHANGED <<tree, bytes>>
  BY <1>1, Still
<1>3. Flush \/ Unlink \/ Mkdir \/ Remove \/ Move
  <2>1. ~ Starts("mkdir", d) /\ \A k, e : ~ Starts(k, e)
    BY DEF Starts
  <2>2. \A e \in Dirs : ~ StartMkdir(e) /\ ~ StartRemove(e)
    BY <2>1 DEF StartMkdir, StartRemove
  <2>3. \A e \in Dirs, n \in 1..MaxBytes, enforce \in BOOLEAN : ~ StartWrite(e, n, enforce)
    BY <2>1 DEF StartWrite
  <2>4. \A e, f \in Dirs : ~ StartMove(e, f)
    BY <2>1 DEF StartMove
  <2>5. ~ Transaction
    BY <1>1 DEF Transaction, Open, Recount, Recounted, Close, Raise, Saving, Saved
  <2>6. ~ EndWrite /\ ~ ProcessDies /\ ~ Administer
    BY <1>1, <1>2 DEF EndWrite, ProcessDies, Administer, disk
  <2> QED BY <2>2, <2>3, <2>4, <2>5, <2>6 DEF AccountsNext, StoreOperation
<1>4. CASE Flush
  <2>0. PICK e : e = call.at
    OBVIOUS
  <2>1. /\ call.kind = "write" /\ UNCHANGED <<tree, counter>>
    BY <1>4 DEF Flush
  <2>2. /\ e \in tree /\ bytes[e] \in 0..MaxBytes /\ bytes[e] + 1 \in 0..MaxBytes
    <3>1. e \in tree /\ call.left \in Nat /\ bytes[e] + call.left <= MaxBytes
      BY <2>0, <2>1 DEF AInv, CallSound
    <3>2. call.left > 0 /\ bytes[e] \in 0..MaxBytes /\ MaxBytes \in Nat
      BY <1>1, <1>4, <3>1 DEF Flush, DiskTyped, Data, AccountingAssumption
    <3> QED BY <3>1, <3>2
  <2>3. ~ Exceeds(Above[e], 1) /\ \E n \in 0..1 : bytes' = [bytes EXCEPT ![e] = @ + n]
    BY <1>2, <1>4, <2>0, <2>1 DEF Flush
  <2>4. PICK n \in 0..1 : bytes' = [bytes EXCEPT ![e] = @ + n]
    BY <2>3
  <2>5. /\ n \in Int /\ bytes[e] + n \in 0..MaxBytes
        /\ bytes' \in Data /\ bytes'[e] = bytes[e] + n /\ \A x \in Dirs \ {e} : bytes'[x] = bytes[x]
    BY <1>1, <2>2, <2>4 DEF DiskTyped, Data
  <2>6. /\ d \in Above[e] => Bytes(d)' = Bytes(d) + n
        /\ d \notin Above[e] => Bytes(d)' = Bytes(d)
    <3>1. DiskTyped /\ e \in tree /\ tree' = tree
      BY <1>1, <2>1, <2>2
    <3> QED BY ONLY AccountingAssumption, <2>5, <3>1, WrittenCounts
  <2>7. d \in Above[e] /\ n = 1 /\ Bytes(d)' = Bytes(d) + 1
    BY <1>1, <2>6
  <2>8. Total(d) = Bytes(d)
    <3>1. Believed
      BY <1>1, <2>1 DEF AInv, CallSound, Believed
    <3>2. Total(d) = Bytes(d) + Owing(d)
      BY <3>1 DEF AInv, MemoryExact
    <3>3. Owing(d) = 0
      BY <2>1 DEF Owing
    <3> QED BY <1>1, <3>2, <3>3
  <2>9. ~ (Total(d) + 1 > Limit[d])
    BY <2>3, <2>7 DEF Exceeds
  <2> QED BY <1>1, <2>7, <2>8, <2>9
<1>5. CASE Unlink
  <2>0. PICK e, n : e = call.at /\ n = call.written
    OBVIOUS
  <2>1. e \in tree /\ n \in 0..bytes[e] /\ tree' = tree /\ bytes' \in {bytes, [bytes EXCEPT ![e] = @ - n]}
    BY <1>5, <2>0 DEF Unlink, AInv, CallSound
  <2> QED BY <1>1, <2>1, Shortens
<1>6. CASE Mkdir
  <2>0. PICK e : e = call.at
    OBVIOUS
  <2>1. /\ call.kind = "mkdir" /\ bytes' = bytes /\ tree' \in {tree, tree \union {e}}
    BY <1>6, <2>0 DEF Mkdir
  <2>2. e \in Dirs \ tree /\ \A x \in Proper(e) : Bytes(x) + 1 <= Limit[x]
    BY <2>0, <2>1 DEF AInv, CallSound
  <2>3. tree' = tree \union {e}
    BY <1>2, <2>1
  <2>4. /\ d \in Above[e] => Bytes(d)' = Bytes(d) + 1
        /\ d \notin Above[e] => Bytes(d)' = Bytes(d)
    BY ONLY AccountingAssumption, <1>1, <2>1, <2>2, <2>3, Made
  <2>5. d \in Proper(e) /\ Bytes(d)' = Bytes(d) + 1
    BY <1>1, <2>2, <2>4 DEF Proper
  <2> QED BY <2>2, <2>5
<1>7. CASE Remove
  <2>0. PICK e : e = call.at
    OBVIOUS
  <2>1. e \in tree \ {Root}
    BY <1>7, <2>0 DEF Remove, AInv, CallSound
  <2>2. PICK part \in SUBSET Below(e) : Delete(part)
    BY <1>7, <2>0 DEF Remove
  <2>3. tree' = tree \ part /\ bytes' \in Data /\ \A x \in tree' : bytes'[x] = bytes[x]
    <3>1. 0 \in 0..MaxBytes
      BY DEF AccountingAssumption
    <3> QED BY <1>1, <2>2, <3>1 DEF Delete, DiskTyped, Data
  <2>4. \A x \in tree' : bytes'[x] <= bytes[x]
    BY <1>1, <2>3 DEF DiskTyped, Data, AccountingAssumption
  <2>5. tree' \subseteq tree
    BY <2>3
  <2> QED BY <1>1, <2>3, <2>4, <2>5, Lessens
<1>8. CASE Move
  <2>0. PICK e, f : e = call.at /\ f = call.to
    OBVIOUS
  <2>1. call.kind = "move" /\ marker' = marker
    BY <1>8 DEF Move
  <2>2. /\ e \in tree /\ Below(e) = {e} /\ f \in Dirs \ tree /\ Proper(f) \subseteq tree \ {e}
        /\ \A x \in Proper(f) \ Proper(e) : Bytes(x) + Bytes(e) <= Limit[x]
    BY <2>0, <2>1 DEF AInv, CallSound
  <2>3. /\ tree' = (tree \ {e}) \union {f} /\ bytes' = Moved(bytes, e, f, 0)
        /\ counter' = Moved(counter, e, f, NoCounter)
    BY <1>2, <1>8, <2>0 DEF Move
  <2>4. /\ \A x \in tree : /\ x \in Proper(e) \ Proper(f) => Bytes(x)' = Bytes(x) - Bytes(e)
                           /\ x \in Proper(f) \ Proper(e) => Bytes(x)' = Bytes(x) + Bytes(e)
                           /\ x \notin Proper(e) /\ x \notin Proper(f) /\ x # e => Bytes(x)' = Bytes(x)
                           /\ x \in Proper(e) /\ x \in Proper(f) => Bytes(x)' = Bytes(x)
        /\ Bytes(e)' = 0 /\ Bytes(e) \in Nat
    BY <1>1, <2>1, <2>2, <2>3, Renamed
  <2>5. d \in Proper(f) \ Proper(e)
    BY <1>1, <2>4
  <2> QED BY <2>2, <2>4, <2>5
<1> QED BY <1>3, <1>4, <1>5, <1>6, <1>7, <1>8

\* No step of an enforced operation makes a scope hold more than its limit
\* (_adjust, result_accounting.py:290).
THEOREM LimitsAreHeld == ASSUME AccountingAssumption PROVE AccountsSpec => LimitsHold
<1>1. AInv /\ [AccountsNext]_accountVars =>
        [call.enforce /\ call.kind # "none" =>
           \A d \in tree : Bytes(d)' > Bytes(d) => Bytes(d)' <= Limit[d]]_accountVars
  BY GrowsInRoom
<1> QED BY <1>1, AccountsHold, PTL DEF AccountsSpec, LimitsHold
=============================================================================
