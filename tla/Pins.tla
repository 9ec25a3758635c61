-------------------------------- MODULE Pins --------------------------------
(* The inputs of prepared operations: their bytes are files in a private     *)
(* directory, the references to them are keys of the owner's state store     *)
(* (_command_interface/consent_staging.py), and the descriptors of the       *)
(* operations are reached through the same owner (PreparationCoordinator in  *)
(* _application/authorisation.py).                                           *)
(*                                                                           *)
(* An attempt prepares one operation with one input, under a namespace of    *)
(* its own, so a namespace and its one key are named by the attempt.  A      *)
(* coordination file lock orders all of this, but a call to the owner whose  *)
(* caller is gone may still take effect after the lock has passed on.        *)
EXTENDS Naturals, FiniteSets

CONSTANTS Attempts, Disposers, RequestIds, None, Gone,
          Content,     \* Content[a]: the input of the attempt
          Req,         \* Req[a]: the request id it prepares under
          MaxFiles,    \* MAX_STAGING_FILES
          MaxFaults    \* bound: deaths, lost owners and failing steps

Procs == Attempts \union Disposers
ASSUME PinsAssumption ==
    /\ IsFiniteSet(Procs) /\ Attempts \intersect Disposers = {}
    /\ Req \in [Attempts -> RequestIds] /\ MaxFiles \in Nat /\ MaxFaults \in Nat
    /\ None \notin Procs /\ Gone \notin Attempts /\ None # Gone

VARIABLES files,      \* the inputs whose bytes are on disk
          pin,        \* pin[a]: whether the reference exists, and its version
          desc,       \* desc[r]: the attempt whose operation r is, None, or Gone
          disposing,  \* the requests whose operation admits nothing any more
          lock,       \* who holds the coordination lock
          wire,       \* the calls the owner has been sent and not yet served
          at,         \* at[p]: where the process is
          faults

vars == <<files, pin, desc, disposing, lock, wire, at, faults>>
owner == <<pin, desc, disposing>>

\* then: where a sweep goes on; kept: what it keeps; ver: the version of the
\* own key; reply: the owner's answer.
At(pc, ns) == [pc |-> pc, ns |-> ns, then |-> "none", kept |-> {}, ver |-> 0, reply |-> "none"]
Go(p, pc) == [at EXCEPT ![p].pc = pc, ![p].reply = "none"]
Referenced == {Content[a] : a \in {b \in Attempts : pin[b].set}}

Init ==
    /\ files = {} /\ pin = [a \in Attempts |-> [set |-> FALSE, ver |-> 0]]
    /\ desc = [r \in RequestIds |-> None] /\ disposing = {}
    /\ lock = None /\ wire = {} /\ faults = 0
    /\ at = [p \in Procs |-> At("start", p)]

----------------------------------------------------------------------------
(* The owner serves a call in one step, whether or not its caller is there.  *)

Call(p, op, ver) == wire' = wire \union {[who |-> p, op |-> op, ns |-> at[p].ns, ver |-> ver]}
Answer(p, reply) == at' = IF at[p].pc = "dead" THEN at ELSE [at EXCEPT ![p].reply = reply]

\* compare_exchange of a reference, which the store's limits may refuse too.
ServePin(m) ==
    /\ m.op \in {"pin", "unpin"}
    /\ \/ /\ pin[m.ns].ver = m.ver
          /\ pin' = [pin EXCEPT ![m.ns] = [set |-> m.op = "pin", ver |-> @.ver + 1]]
          /\ Answer(m.who, "applied")
       \/ /\ pin[m.ns].ver # m.ver \/ m.op = "pin"
          /\ Answer(m.who, "refused") /\ UNCHANGED pin
    /\ UNCHANGED <<desc, disposing>>

\* ConsentService.prepare: the request id has one operation, for ever.  An
\* answer that the operation was disposed of counts as a refusal.
ServePrepare(m) ==
    /\ m.op = "prepare"
    /\ \/ /\ desc[Req[m.ns]] = None
          /\ desc' = [desc EXCEPT ![Req[m.ns]] = m.ns] /\ Answer(m.who, "won")
       \/ /\ desc[Req[m.ns]] \in Attempts /\ Answer(m.who, "lost") /\ UNCHANGED desc
       \/ Answer(m.who, "refused") /\ UNCHANGED desc
    /\ UNCHANGED <<pin, disposing>>

Serve(m) ==
    /\ m \in wire /\ wire' = wire \ {m}
    /\ ServePin(m) \/ ServePrepare(m)
    /\ UNCHANGED <<files, lock, faults>>

----------------------------------------------------------------------------
(* retain_content, and discard.  Both remove files without a reference.      *)

Lock(p, from, to) ==
    /\ at[p].pc = from /\ lock = None /\ lock' = p /\ at' = Go(p, to)
    /\ UNCHANGED <<files, owner, wire, faults>>

Unlock(p, pc) == lock' = None /\ at' = Go(p, pc)

\* _collect_unreferenced: list and read the references, then sweep.
Collect(a) ==
    /\ at[a].pc \in {"collect", "undo"}
    /\ at' = [at EXCEPT ![a].pc = "sweep", ![a].kept = Referenced,
                        ![a].then = IF at[a].pc = "collect" THEN "write" ELSE "fail"]
    /\ UNCHANGED <<files, owner, lock, wire, faults>>

\* _remove_unreferenced, one file; its end.
Sweep(p) ==
    /\ at[p].pc = "sweep"
    /\ \/ /\ \E f \in files \ at[p].kept : files' = files \ {f}
          /\ UNCHANGED <<lock, at>>
       \/ /\ files \subseteq at[p].kept /\ UNCHANGED files
          /\ IF at[p].then = "write" THEN at' = Go(p, "write") /\ UNCHANGED lock
             ELSE Unlock(p, at[p].then)
    /\ UNCHANGED <<owner, wire, faults>>

\* The bytes come first; bytes already there are shared, and new ones have to
\* find room, in files and in bytes.
Write(a) ==
    /\ at[a].pc = "write"
    /\ \/ /\ Content[a] \in files \/ Cardinality(files) < MaxFiles
          /\ files' = files \union {Content[a]} /\ at' = Go(a, "pin") /\ UNCHANGED lock
       \/ Content[a] \notin files /\ Unlock(a, "fail") /\ UNCHANGED files
    /\ UNCHANGED <<owner, wire, faults>>

SendPin(a) ==
    /\ at[a].pc = "pin" /\ Call(a, "pin", 0) /\ at' = Go(a, "pinned")
    /\ UNCHANGED <<files, owner, lock, faults>>

\* The planner may fail after it has retained its input.
Pinned(a) ==
    /\ at[a].pc = "pinned"
    /\ \/ at[a].reply = "applied" /\ \E pc \in {"prepare", "fail"} : Unlock(a, pc)
       \/ at[a].reply = "refused" /\ at' = Go(a, "undo") /\ UNCHANGED lock
    /\ UNCHANGED <<files, owner, wire, faults>>

\* Where a discard that fails leaves its caller: an attempt has failed, and has
\* reported it; a disposer may be asked again.
Ended(p) == IF p \in Disposers THEN "start" ELSE "failed"

\* discard: the version of the own reference ...
Own(p) ==
    /\ at[p].pc = "own"
    /\ at' = [at EXCEPT ![p].pc = "others", ![p].ver = IF pin[at[p].ns].set THEN pin[at[p].ns].ver ELSE 0]
    /\ UNCHANGED <<files, owner, lock, wire, faults>>

\* ... then every reference but the own ones: the inputs to keep.
Others(p) ==
    /\ at[p].pc = "others"
    /\ at' = [at EXCEPT ![p].kept = {Content[b] : b \in {b \in Attempts :
                                         pin[b].set /\ (b = at[p].ns => at[p].ver = 0)}},
                        ![p].pc = IF at[p].ver = 0 THEN "sweep" ELSE "unpin",
                        ![p].then = IF p \in Disposers THEN "reduce" ELSE "done"]
    /\ UNCHANGED <<files, owner, lock, wire, faults>>

\* Mutant: nobody waits for the owner's answer.
SendUnpin_NoWait(p) ==
    /\ at[p].pc = "unpin" /\ Call(p, "unpin", at[p].ver) /\ at' = Go(p, "sweep")
    /\ UNCHANGED <<files, owner, lock, faults>>

SendUnpin(p) ==
    /\ at[p].pc = "unpin" /\ Call(p, "unpin", at[p].ver) /\ at' = Go(p, "unpinned")
    /\ UNCHANGED <<files, owner, lock, faults>>

Unpinned(p) ==
    /\ at[p].pc = "unpinned"
    /\ \/ at[p].reply = "applied" /\ at' = Go(p, "sweep") /\ UNCHANGED lock
       \/ at[p].reply = "refused" /\ Unlock(p, Ended(p))
    /\ UNCHANGED <<files, owner, wire, faults>>

\* Listing or reading the references fails, or a file cannot be removed or
\* written: retain_content then ends and its planner with it, and a discard ends.
Discards(p) == at[p].pc \in {"own", "others"} \/ (at[p].pc = "sweep" /\ at[p].then \in {"done", "reduce"})
Break(p) ==
    /\ at[p].pc \in {"collect", "sweep", "write", "undo", "own", "others"}
    /\ Unlock(p, IF Discards(p) THEN Ended(p) ELSE "fail")
    /\ faults < MaxFaults /\ faults' = faults + 1 /\ UNCHANGED <<files, owner, wire>>

----------------------------------------------------------------------------
(* PreparationCoordinator.                                                   *)

\* prepare: a request id that has an operation is not prepared again.
Start(a) ==
    /\ at[a].pc = "start"
    /\ \/ desc[Req[a]] # None /\ at' = Go(a, "done") /\ UNCHANGED lock
       \/ desc[Req[a]] = None /\ lock = None /\ lock' = a /\ at' = Go(a, "collect")
    /\ UNCHANGED <<files, owner, wire, faults>>

SendPrepare(a) ==
    /\ at[a].pc = "prepare" /\ Call(a, "prepare", 0) /\ at' = Go(a, "prepared")
    /\ UNCHANGED <<files, owner, lock, faults>>

\* Mutant: an attempt that lost to another one keeps what it has retained.
Prepared_Keep(a) ==
    /\ at[a].pc = "prepared" /\ at[a].reply # "none"
    /\ at' = IF at[a].reply # "refused" THEN Go(a, "done") ELSE Go(a, "fail")
    /\ UNCHANGED <<files, owner, lock, wire, faults>>

\* prepare, its end: an attempt that was refused, lost to another one or finds
\* its operation disposed of discards what it has retained.  When the look at
\* the operation is refused, the attempt fails and discards nothing.
Prepared(a) ==
    /\ at[a].pc = "prepared" /\ at[a].reply # "none"
    /\ \/ at' = IF at[a].reply = "won" /\ desc[Req[a]] = a THEN Go(a, "done") ELSE Go(a, "fail")
       \/ at[a].reply # "refused" /\ at' = Go(a, "failed")
    /\ UNCHANGED <<files, owner, lock, wire, faults>>

\* discard: close admission, release the inputs, remove the descriptor.
BeginDiscard(d, r) ==
    /\ at[d].pc = "start" /\ desc[r] \in Attempts
    /\ disposing' = disposing \union {r} /\ at' = [at EXCEPT ![d] = At("fail", desc[r])]
    /\ UNCHANGED <<files, pin, desc, lock, wire, faults>>

Reduce(d) ==
    /\ at[d].pc = "reduce" /\ at' = Go(d, "start")
    /\ desc' = [desc EXCEPT ![Req[at[d].ns]] = Gone] /\ disposing' = disposing \ {Req[at[d].ns]}
    /\ UNCHANGED <<files, pin, lock, wire, faults>>

\* Mutant: the lock is a file that its holder has to remove.
Die_Locked(p) ==
    /\ at[p].pc \notin {"dead", "done", "failed"} /\ faults < MaxFaults /\ faults' = faults + 1
    /\ at' = [at EXCEPT ![p] = At("dead", at[p].ns)]
    /\ UNCHANGED <<files, owner, wire, lock>>

\* A process dies, or loses its channel to the owner, which fails every later
\* call of it: the lock is released, a call that was sent is not taken back.
Die(p) ==
    /\ at[p].pc \notin {"dead", "done", "failed"} /\ faults < MaxFaults /\ faults' = faults + 1
    /\ at' = [at EXCEPT ![p] = At("dead", at[p].ns)] /\ lock' = (IF lock = p THEN None ELSE lock)
    /\ UNCHANGED <<files, owner, wire>>

Attempt(a) ==
    \/ Start(a) \/ Collect(a) \/ Write(a) \/ SendPin(a) \/ Pinned(a)
    \/ SendPrepare(a) \/ Prepared(a)

Discard(p) ==
    \/ Lock(p, "fail", "own") \/ Own(p) \/ Others(p) \/ SendUnpin(p) \/ Unpinned(p) \/ Sweep(p)

Next ==
    \/ \E m \in wire : Serve(m)
    \/ \E a \in Attempts : Attempt(a)
    \/ \E p \in Procs : Discard(p) \/ Break(p) \/ Die(p)
    \/ \E d \in Disposers : Reduce(d) \/ \E r \in RequestIds : BeginDiscard(d, r)

Spec == Init /\ [][Next]_vars
FairSpec ==
    /\ Spec
    /\ WF_vars(\E m \in wire : Serve(m))
    /\ \A a \in Attempts : WF_vars(Attempt(a))
    /\ \A p \in Procs : WF_vars(Discard(p))
    /\ \A d \in Disposers : WF_vars(Reduce(d))

----------------------------------------------------------------------------
(* Properties.                                                               *)

TypeOK ==
    /\ files \subseteq {Content[a] : a \in Attempts} /\ Cardinality(files) <= MaxFiles
    /\ \A a \in Attempts : pin[a].set \in BOOLEAN /\ pin[a].ver \in 0 .. 2
    /\ desc \in [RequestIds -> Attempts \union {None, Gone}] /\ disposing \subseteq RequestIds
    /\ lock \in Procs \union {None}

Has(a) == pin[a].set /\ Content[a] \in files

\* An operation that may be invoked has its input, the reference and the bytes,
\* although another one shares them, its attempt has died before it heard of
\* it, and calls of dead processes still reach the owner.
OperationHasInputs == \A r \in RequestIds \ disposing : desc[r] \in Attempts => Has(desc[r])

\* What retain_content has returned is there until its own namespace is
\* discarded: nobody else's retain or discard takes it away.
RetainedStays ==
    \A a \in Attempts :
        /\ at[a].pc \in {"prepare", "prepared"}
        /\ desc[Req[a]] # Gone /\ ~(desc[Req[a]] = a /\ Req[a] \in disposing)
        => Has(a)

\* The descriptor of an operation is removed after its reference.
DisposedIsReleased ==
    [][\A r \in RequestIds : desc[r] \in Attempts /\ desc'[r] = Gone => ~pin'[desc[r]].set]_vars

\* An attempt that ends without having reported a failed discard or a refused
\* look at its operation leaves no reference behind that no operation uses.
NothingLeftBehind ==
    \A a \in Attempts : at[a].pc = "done" /\ pin[a].set => desc[Req[a]] = a

\* A discard returns, whoever dies with the lock in hand.
DiscardsReturn == \A p \in Procs : at[p].pc = "fail" ~> at[p].pc \in {"start", "done", "failed", "dead"}

\* References, bytes and operations fit each other (retain_content, discard).
InputsKept == TypeOK /\ OperationHasInputs /\ RetainedStays /\ NothingLeftBehind
=============================================================================
