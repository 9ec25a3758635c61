----------------------------- MODULE ResultStore -----------------------------
(* The private store of retained results (_command_interface/result_store.py)*)
(* of one owner.  A command has one slot; an admission takes it for a new    *)
(* result and ends the one before, a publication fills it, views of a result *)
(* are built and replaced.  Instances of the store run operations one at a   *)
(* time under a file lock; each operation is several durable steps, any of   *)
(* which may be refused or fail, and the process may die between them.       *)
EXTENDS Naturals, FiniteSets

CONSTANTS Instances, Commands, Nobody,
          MaxSeq, MaxGenerations, MaxFaults, MaxCrashes    \* bounds

ASSUME StoreAssumption ==
    /\ IsFiniteSet(Instances) /\ Nobody \notin Instances \union Commands
    /\ MaxSeq \in Nat /\ MaxGenerations \in Nat /\ MaxFaults \in Nat /\ MaxCrashes \in Nat

VARIABLES owner,     \* "live" or "revoked": where the owner's directory is
          slot,      \* slot[c]: the sequence and the state of the command's slot
          installed, \* the results whose directory is in its place
          staged,    \* what is under a temporary name: <<result, generation or 0>>
          pointer,   \* pointer[r]: the generation of its view that it selects, or 0
          kept,      \* kept[r]: the generations of its view that are on disk
          generations,  \* how many generations were ever made
          proven,    \* the instances that have authenticated the owner
          tickets,   \* tickets[i]: what the instance was given and may publish
          op,        \* the operation that holds the lock
          ended,     \* the results that were superseded, cleared or revoked
          faults, crashes

bodies == <<installed, pointer, kept>>
dirs == <<owner, slot, bodies, staged, generations>>
vars == <<dirs, proven, tickets, op, ended, faults, crashes>>

\* A result is known by its command and the sequence of its admission.
Results == Commands \X (1..MaxSeq)
Latest(c) == <<c, slot[c].seq>>
Admitted == {Latest(c) : c \in {x \in Commands : slot[x].seq > 0}}
NoOne == <<Nobody, 0>>
Idle == [by |-> Nobody, pc |-> "idle", res |-> NoOne, gen |-> 0, old |-> 0]

Init ==
    /\ owner = "live" /\ slot = [c \in Commands |-> [seq |-> 0, state |-> "none"]]
    /\ installed = {} /\ staged = {} /\ pointer = [r \in Results |-> 0]
    /\ kept = [r \in Results |-> {}] /\ generations = 0
    /\ proven = {} /\ tickets = [i \in Instances |-> {}]
    /\ op = Idle /\ ended = {} /\ faults = 0 /\ crashes = 0

\* What load, metadata and the reads of views answer from (_result, _latest).
Readable(r) == owner = "live" /\ Latest(r[1]) = r /\ slot[r[1]].state = "published"

\* The lock is taken, and the proof and the owner's record looked at again.
Locks(i, pc, r) ==
    /\ op = Idle /\ i \in proven /\ owner = "live"
    /\ op' = [by |-> i, pc |-> pc, res |-> r, gen |-> 0, old |-> 0]
At(pc) == op.pc = pc
Go(pc) == op' = [op EXCEPT !.pc = pc]
Done == op' = Idle

Fault == faults < MaxFaults /\ faults' = faults + 1
\* A durable step: it is made, or refused for want of room, or it fails with or
\* without its effect.
Durable(Effect, Same, next, failed) ==
    \/ Effect /\ Go(next) /\ UNCHANGED faults
    \/ Same /\ Go(failed) /\ UNCHANGED faults
    \/ Fault /\ (Effect \/ Same) /\ Go(failed)

\* What is gone with the directories of S.
Forget(S) ==
    /\ installed' = installed \ S
    /\ pointer' = [r \in Results |-> IF r \in S THEN 0 ELSE pointer[r]]
    /\ kept' = [r \in Results |-> IF r \in S THEN {} ELSE kept[r]]
\* A removal, or its failure, which ends the operation.
Removal(S, Then) ==
    \/ Forget(S) /\ Then /\ UNCHANGED faults
    \/ Fault /\ (Forget(S) \/ UNCHANGED bodies) /\ Done /\ UNCHANGED tickets

----------------------------------------------------------------------------
Authenticate(i) ==
    /\ op = Idle /\ owner = "live" /\ i \notin proven /\ proven' = proven \union {i}
    /\ UNCHANGED <<dirs, tickets, op, ended, faults, crashes>>

\* admit: the sequence goes on whatever was there; what was there ends now.
Admit(i, c) ==
    /\ slot[c].seq < MaxSeq /\ Locks(i, "admit", <<c, slot[c].seq + 1>>)
    /\ UNCHANGED <<dirs, proven, tickets, ended, faults, crashes>>

TakeSlot ==
    /\ At("admit")
    /\ LET c == op.res[1]
       IN  Durable(/\ slot' = [slot EXCEPT ![c] = [seq |-> op.res[2], state |-> "pending"]]
                   /\ ended' = ended \union ({Latest(c)} \intersect Results),
                   UNCHANGED <<slot, ended>>, "supersede", "over")
    /\ UNCHANGED <<owner, bodies, staged, generations, proven, tickets, crashes>>

\* The ticket is returned when the superseded result is gone.
Supersede ==
    /\ At("supersede")
    /\ Removal({r \in installed : r[1] = op.res[1] /\ r[2] + 1 = op.res[2]},
               Done /\ tickets' = [tickets EXCEPT ![op.by] = @ \union {op.res}])
    /\ UNCHANGED <<owner, slot, staged, generations, proven, ended, crashes>>

\* Mutant: a ticket is good as long as its slot has no newer one.
Publish_AnyState(i, r) ==
    /\ r \in tickets[i] /\ tickets' = [tickets EXCEPT ![i] = @ \ {r}]
    /\ Locks(i, IF Latest(r[1]) = r THEN "stage" ELSE "over", r)
    /\ UNCHANGED <<dirs, proven, ended, faults, crashes>>

\* publish: once, against the exact pending ticket.
Publish(i, r) ==
    /\ r \in tickets[i] /\ tickets' = [tickets EXCEPT ![i] = @ \ {r}]
    /\ Locks(i, IF Latest(r[1]) = r /\ slot[r[1]].state = "pending" THEN "stage" ELSE "over", r)
    /\ UNCHANGED <<dirs, proven, ended, faults, crashes>>

Stage ==
    /\ At("stage")
    /\ Durable(staged' = staged \union {<<op.res, 0>>}, UNCHANGED staged, "install", "undo")
    /\ UNCHANGED <<owner, slot, bodies, generations, proven, tickets, ended, crashes>>

\* The directory moves into its place with everything in it.
Install ==
    /\ At("install")
    /\ Durable(staged' = staged \ {<<op.res, 0>>} /\ installed' = installed \union {op.res},
               UNCHANGED <<staged, installed>>, "announce", "undo")
    /\ UNCHANGED <<owner, slot, pointer, kept, generations, proven, tickets, ended, crashes>>

\* The slot of the ticket's command is announced.
Announce ==
    /\ At("announce")
    /\ Durable(slot' = [slot EXCEPT ![op.res[1]].state = "published"], UNCHANGED slot, "over", "undo")
    /\ UNCHANGED <<owner, bodies, staged, generations, proven, tickets, ended, crashes>>

\* Mutant: the failed publication takes the result away whatever was announced.
Undo_Always ==
    /\ At("undo") /\ staged' = staged \ {<<op.res, 0>>}
    /\ Removal({op.res}, Done /\ UNCHANGED tickets)
    /\ UNCHANGED <<owner, slot, generations, proven, ended, crashes>>

\* A failed publication takes away what it staged, and the result unless its
\* slot was announced all the same.
Undo ==
    /\ At("undo")
    /\ LET pending == slot[op.res[1]].state = "pending"
       IN  \/ /\ staged' = staged \ {<<op.res, 0>>}
              /\ Removal(IF pending THEN {op.res} ELSE {}, Done /\ UNCHANGED tickets)
           \/ Fault /\ Done /\ UNCHANGED <<staged, bodies, tickets>>
    /\ UNCHANGED <<owner, slot, generations, proven, ended, crashes>>

\* save_view: a generation of its own for every view that is built.
SaveView(i, r) ==
    /\ Readable(r) /\ generations < MaxGenerations /\ generations' = generations + 1
    /\ op = Idle /\ i \in proven
    /\ op' = [by |-> i, pc |-> "stageView", res |-> r, gen |-> generations + 1, old |-> pointer[r]]
    /\ UNCHANGED <<owner, slot, bodies, staged, proven, tickets, ended, faults, crashes>>

StageView ==
    /\ At("stageView")
    /\ Durable(staged' = staged \union {<<op.res, op.gen>>}, UNCHANGED staged, "installView", "undoView")
    /\ UNCHANGED <<owner, slot, bodies, generations, proven, tickets, ended, crashes>>

InstallView ==
    /\ At("installView")
    /\ Durable(/\ staged' = staged \ {<<op.res, op.gen>>}
               /\ kept' = [kept EXCEPT ![op.res] = @ \union {op.gen}],
               UNCHANGED <<staged, kept>>, "point", "undoView")
    /\ UNCHANGED <<owner, slot, installed, pointer, generations, proven, tickets, ended, crashes>>

Point ==
    /\ At("point")
    /\ Durable(pointer' = [pointer EXCEPT ![op.res] = op.gen], UNCHANGED pointer, "dropView", "undoView")
    /\ UNCHANGED <<owner, slot, installed, kept, staged, generations, proven, tickets, ended, crashes>>

\* The pointer may have been replaced although its write raised.
UndoView ==
    /\ At("undoView") /\ Done
    /\ \/ /\ staged' = staged \ {<<op.res, op.gen>>} /\ UNCHANGED faults
          /\ kept' = [kept EXCEPT ![op.res] = IF pointer[op.res] = op.gen THEN @ ELSE @ \ {op.gen}]
       \/ Fault /\ UNCHANGED <<staged, kept>>
    /\ UNCHANGED <<owner, slot, installed, pointer, generations, proven, tickets, ended, crashes>>

\* The generation that the pointer selected before goes.
DropView ==
    /\ At("dropView") /\ Done
    /\ \/ kept' = [kept EXCEPT ![op.res] = @ \ {op.old}] /\ UNCHANGED faults
       \/ Fault /\ UNCHANGED kept
    /\ UNCHANGED <<owner, slot, installed, pointer, staged, generations, proven, tickets, ended, crashes>>

\* clear: every result ends before any of them is removed.
Clear(i) ==
    /\ Locks(i, "clear", NoOne)
    /\ UNCHANGED <<dirs, proven, tickets, ended, faults, crashes>>

ClearSlots ==
    /\ At("clear")
    /\ Durable(/\ slot' = [c \in Commands |-> IF slot[c].seq > 0 THEN [slot[c] EXCEPT !.state = "cleared"]
                                              ELSE slot[c]]
               /\ ended' = ended \union Admitted,
               UNCHANGED <<slot, ended>>, "empty", "over")
    /\ UNCHANGED <<owner, bodies, staged, generations, proven, tickets, crashes>>

\* revoke: the owner's directory leaves its place before it is removed.
Revoke(i) ==
    /\ Locks(i, "revoke", NoOne)
    /\ UNCHANGED <<dirs, proven, tickets, ended, faults, crashes>>

Entomb ==
    /\ At("revoke")
    /\ Durable(owner' = "revoked" /\ ended' = ended \union Admitted /\ proven' = proven \ {op.by},
               UNCHANGED <<owner, ended, proven>>, "empty", "over")
    /\ UNCHANGED <<slot, bodies, staged, generations, tickets, crashes>>

\* Everything beside the owner's own records goes.
Empty ==
    /\ At("empty")
    /\ \/ Forget(Results) /\ staged' = {} /\ UNCHANGED faults
       \/ /\ Fault /\ \E part \in SUBSET installed : Forget(part)
          /\ \E left \in SUBSET staged : staged' = left
    /\ Done /\ UNCHANGED <<owner, slot, generations, proven, tickets, ended, crashes>>

Over == At("over") /\ Done /\ UNCHANGED <<dirs, proven, tickets, ended, faults, crashes>>

\* A process dies: with it what it proved and was given, and the lock if it has it.
Crash(i) ==
    /\ crashes < MaxCrashes /\ crashes' = crashes + 1
    /\ proven' = proven \ {i} /\ tickets' = [tickets EXCEPT ![i] = {}]
    /\ op' = IF op.by = i THEN Idle ELSE op
    /\ UNCHANGED <<dirs, ended, faults>>

Next ==
    \/ \E i \in Instances :
          \/ Authenticate(i) \/ Clear(i) \/ Revoke(i) \/ Crash(i)
          \/ \E c \in Commands : Admit(i, c)
          \/ \E r \in Results : Publish(i, r) \/ SaveView(i, r)
    \/ TakeSlot \/ Supersede \/ Stage \/ Install \/ Announce \/ Undo
    \/ StageView \/ InstallView \/ Point \/ UndoView \/ DropView
    \/ ClearSlots \/ Entomb \/ Empty \/ Over
Spec == Init /\ [][Next]_vars
----------------------------------------------------------------------------
States == {"none", "pending", "published", "cleared"}
TypeOK ==
    /\ owner \in {"live", "revoked"} /\ slot \in [Commands -> [seq : 0..MaxSeq, state : States]]
    /\ \A c \in Commands : slot[c].seq = 0 <=> slot[c].state = "none"
    /\ installed \subseteq Results /\ staged \subseteq Results \X (0..MaxGenerations)
    /\ pointer \in [Results -> 0..MaxGenerations] /\ kept \in [Results -> SUBSET (1..MaxGenerations)]
    /\ proven \subseteq Instances /\ tickets \in [Instances -> SUBSET Results]
    /\ op.by \in Instances \union {Nobody} /\ {op.gen, op.old} \subseteq 0..MaxGenerations
    /\ generations \in 0..MaxGenerations /\ faults \in 0..MaxFaults /\ crashes \in 0..MaxCrashes

\* Whatever failed, and wherever a process died, a result that can be read is
\* completely there (publish, result_store.py:375).
ReadableIsWhole == \A r \in Results : Readable(r) => r \in installed

\* The generation a view's pointer selects is completely there (save_view, :458).
ViewsWhole == \A r \in Results : pointer[r] # 0 /\ Readable(r) => pointer[r] \in kept[r]

\* A result that was superseded, cleared or revoked can never be read again, by
\* a late publication, by an instance that had proven itself or after a crash
\* (:395, :679).
EndedStaysEnded == \A r \in ended : ~ Readable(r)

\* Without a failure or a death, refusals for want of room leave nothing behind:
\* between operations there is just what can be read (the handlers of publish
\* and save_view, clear).
NothingLeftOver ==
    op = Idle /\ faults = 0 /\ crashes = 0 =>
        /\ staged = {} /\ installed = {r \in Results : Readable(r)}
        /\ \A r \in Results : kept[r] \subseteq {pointer[r]}

\* What can be read is all there, and nothing else is left (publish, save_view).
ResultsWhole == TypeOK /\ ReadableIsWhole /\ ViewsWhole /\ NothingLeftOver
=============================================================================
