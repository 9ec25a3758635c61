--------------------------- MODULE ConsentProofs ---------------------------
(***************************************************************************)
(* Consent for every number of clients, commands, operations and requests, *)
(* every sequence of configurations and every fault: the records stay well *)
(* formed, a grant and its operation stay one fact, no invocation has two  *)
(* effects, and specific consent is one-shot (PreparedOnce).               *)
(*                                                                         *)
(* The inductive invariant relates three things that the code keeps in     *)
(* separate records or in no record: an operation and the grant it names   *)
(* (OperationInv, GrantInv, GrantMatchesOperation), the identifiers that a *)
(* call has generated but not written (FreshHeld), and what a call that    *)
(* has reserved consent remembers of it (CallInv, EffectInv).              *)
(*                                                                         *)
(* Three parts: the invariant and what each kind of transaction does to    *)
(* the records; that it is inductive, with what follows from it; and the   *)
(* refinement of PreparedOnce.                                             *)
(***************************************************************************)
EXTENDS Consent, FiniteSetTheorems, TLAPS

\* Identifiers in the hands of a call are not written yet, and in one call's.
FreshHeld ==
    /\ \A c \in Clients : call[c].does = "prepare" =>
         /\ call[c].operation \in Operations /\ operations[call[c].operation].state = "absent"
         /\ call[c].request \in Requests
    /\ \A c \in Clients : call[c].does = "request" =>
         /\ call[c].fresh \in Grants /\ grants[call[c].fresh].state = "absent"
         /\ call[c].request \in Requests
    /\ \A c, d \in Clients : c # d =>
         /\ call[c].does = "prepare" /\ call[d].does = "prepare" =>
              call[c].operation # call[d].operation
         /\ call[c].does = "request" /\ call[d].does = "request" => call[c].fresh # call[d].fresh

\* The operation's side of the coupling.
OperationInv ==
    \A o \in Operations :
        /\ operations[o].state \in {"absent", "prepared"} =>
             operations[o].grant = None /\ operations[o].invocation = None
        /\ operations[o].state \in {"authorised", "reserved"} =>
             /\ operations[o].grant \in Grants
             /\ grants[operations[o].grant].state = operations[o].state
             /\ grants[operations[o].grant].operation = o
        /\ uses[o] > 0 =>
             operations[o].state \in {"entered", "spent", "revoked", "discarding", "gone"}
        /\ operations[o].generation <= context.generation

\* The grant's side.
GrantInv ==
    \A g \in Grants :
        /\ grants[g].state = "authorised" => ~grants[g].revoked
        /\ grants[g].state \notin Unwritten =>
             /\ grants[g].generation <= context.generation
             /\ grants[g].generation = context.generation =>
                  grants[g].version = context.contract
             /\ grants[g].operation # None =>
                  /\ grants[g].command = CommandOf[grants[g].operation]
                  /\ operations[grants[g].operation].state # "gone" =>
                       operations[grants[g].operation].generation = grants[g].generation

\* A call that has reserved specific consent knows whose it is.
Holds(c) ==
    /\ call[c].operation \in Operations /\ call[c].grant \in Grants
    /\ operations[call[c].operation].state # "absent"
    /\ grants[call[c].grant].state # "absent"
    /\ grants[call[c].grant].state # "gone" =>
         grants[call[c].grant].operation = call[c].operation
    /\ operations[call[c].operation].state # "gone" =>
         operations[call[c].operation].generation = call[c].generation

Admitted == {"enter", "finish", "cancel"}

CallInv ==
    \A c \in Clients :
        /\ call[c].stage = "ready" => call[c].does = "nothing"
        /\ call[c].stage = "intent" => call[c].does = "enter"
        /\ call[c].stage = "running" => call[c].does = "finish"
        /\ call[c].does \in {"reserve"} \cup Admitted => call[c].invocation \in Invocations
        /\ call[c].does \in {"request", "reserve"} /\ call[c].operation # None =>
             call[c].command = CommandOf[call[c].operation]
        /\ call[c].does = "finish" /\ call[c].stage # "running" => call[c].basis = "operation"
        /\ call[c].does = "cancel" => call[c].basis = "operation"
        /\ call[c].does \in Admitted /\ call[c].basis = "operation" => Holds(c)

\* The calls that are past an intent of their own.
Intending(c) ==
    /\ call[c].does = "enter" /\ call[c].stage # "intent" /\ call[c].command \in Effectful

EffectInv ==
    /\ EffectFollowsIntent
    /\ \A c \in Clients : Intending(c) =>
         call[c].invocation \in intents /\ effects[call[c].invocation] = 0
    /\ \A c, d \in Clients : c # d /\ Intending(c) /\ Intending(d) =>
         call[c].invocation # call[d].invocation

Counted ==
    /\ IsFiniteSet(LiveOperations) /\ context.prepared = Cardinality(LiveOperations)
    /\ IsFiniteSet(LiveGrants) /\ context.granted = Cardinality(LiveGrants)

IInv == /\ TypeOK /\ Counted /\ FreshHeld /\ OperationInv /\ GrantInv
        /\ GrantMatchesOperation /\ CallInv /\ EffectInv

-----------------------------------------------------------------------------
(* Types                                                                   *)

\* c goes on with a call, or ends it.
Continues(c) == \E k \in CallType : call' = [call EXCEPT ![c] = k]

LEMMA ReadyType ==
    ASSUME ConsentAssumption
    PROVE  /\ Ready \in CallType /\ Ready.does = "nothing" /\ Ready.stage = "ready"
           /\ Ready.basis = None
BY DEF ConsentAssumption, Ready, CallType, Calls, Stages, Bases

LEMMA StartType ==
    ASSUME ConsentAssumption, TypeOK, NEW c \in Clients, Start(c)
    PROVE  Continues(c)
<1> DEFINE idle == Ready
<1>1. idle \in CallType
  BY ReadyType
<1>2. Operations \cup {None} # {} /\ Grants \cup {None} # {}
  OBVIOUS
<1> HIDE DEF idle
<1>3. CASE StartObserve(c)
  <2>1. [idle EXCEPT !.does = "observe", !.stage = "refresh"] \in CallType
    BY <1>1 DEF CallType, Calls, Stages
  <2> QED BY <1>3, <2>1 DEF StartObserve, Begin, idle, Continues
<1>4. ASSUME NEW r \in Requests, NEW o \in Operations, StartPrepare(c, r, o)
      PROVE  Continues(c)
  <2>1. [idle EXCEPT !.does = "prepare", !.stage = "refresh", !.request = r,
                     !.operation = o, !.command = CommandOf[o]] \in CallType
    BY <1>1 DEF CallType, Calls, Stages, ConsentAssumption
  <2> QED BY <1>4, <2>1 DEF StartPrepare, Begin, idle, Continues
<1>5. ASSUME NEW r \in Requests, NEW m \in Commands, NEW o \in Operations \cup {None},
             NEW g \in Grants, StartRequest(c, r, m, o, g)
      PROVE  Continues(c)
  <2> DEFINE candidate == IF asked[r] # NotAsked THEN asked[r].grant ELSE Pointer(m, o)
  <2>1. candidate \in Grants \cup {None}
    BY DEF TypeOK, Pointer
  <2> HIDE DEF candidate
  <2>2. [idle EXCEPT !.does = "request", !.stage = "refresh", !.request = r, !.command = m,
                     !.operation = o, !.fresh = g, !.grant = candidate] \in CallType
    BY <1>1, <2>1 DEF CallType, Calls, Stages
  <2> QED BY <1>5, <2>2 DEF StartRequest, Begin, idle, Continues, candidate
<1>6. ASSUME NEW i \in Invocations, NEW m \in Commands, NEW o \in Operations \cup {None},
             NEW same \in BOOLEAN, StartInvoke(c, i, m, o, same)
      PROVE  Continues(c)
  <2> DEFINE candidate == Pointer(m, o)
  <2>1. candidate \in Grants \cup {None}
    BY DEF TypeOK, Pointer
  <2> HIDE DEF candidate
  <2>2. [idle EXCEPT !.does = "reserve", !.stage = "refresh", !.invocation = i,
                     !.command = m, !.operation = o, !.same = same,
                     !.grant = candidate] \in CallType
    BY <1>1, <2>1 DEF CallType, Calls, Stages
  <2> QED BY <1>6, <2>2 DEF StartInvoke, Begin, idle, Continues, candidate
<1>7. ASSUME NEW targets \in SUBSET Operations, StartDiscard(c, targets)
      PROVE  Continues(c)
  <2>1. [idle EXCEPT !.does = "discard", !.stage = "refresh", !.targets = targets] \in CallType
    BY <1>1 DEF CallType, Calls, Stages
  <2> QED BY <1>7, <2>1 DEF StartDiscard, Begin, idle, Continues
<1>8. ASSUME NEW targets \in SUBSET Grants, NEW commands \in SUBSET Commands,
             StartReduce(c, targets, commands)
      PROVE  Continues(c)
  <2>1. [idle EXCEPT !.does = "reduce", !.stage = "refresh", !.targets = targets,
                     !.commands = commands] \in CallType
    BY <1>1 DEF CallType, Calls, Stages
  <2> QED BY <1>8, <2>1 DEF StartReduce, Begin, idle, Continues
<1> QED BY <1>3, <1>4, <1>5, <1>6, <1>7, <1>8 DEF Start
LEMMA ProceedType ==
    ASSUME ConsentAssumption, TypeOK, NEW c \in Clients, Proceed(c) \/ GiveUp(c) \/ Crash(c)
    PROVE  Continues(c)
<1> DEFINE k0 == call[c]
<1>1. k0 \in CallType
  BY DEF TypeOK
<1>2. Return(c) => Continues(c)
  BY ReadyType DEF Return, Continues
<1>3. /\ \A stage \in Stages : [k0 EXCEPT !.stage = stage] \in CallType
      /\ [k0 EXCEPT !.does = "cancel", !.stage = "refresh"] \in CallType
      /\ [k0 EXCEPT !.does = "finish", !.stage = "running"] \in CallType
      /\ \A targets \in SUBSET Operations :
           /\ [k0 EXCEPT !.does = "drop", !.stage = "refresh", !.targets = targets] \in CallType
           /\ [k0 EXCEPT !.stage = "refresh", !.targets = @ \ targets] \in CallType
      /\ \A basis \in Bases, stage \in Stages, m, n \in Nat :
           [k0 EXCEPT !.does = "enter", !.basis = basis, !.stage = stage,
                      !.generation = m, !.since = n] \in CallType
  <2> HIDE DEF k0
  <2>1. \A stage \in Stages : [k0 EXCEPT !.stage = stage] \in CallType
    BY <1>1 DEF CallType
  <2>2. /\ [k0 EXCEPT !.does = "cancel", !.stage = "refresh"] \in CallType
        /\ [k0 EXCEPT !.does = "finish", !.stage = "running"] \in CallType
    <3>1. [k0 EXCEPT !.does = "cancel", !.stage = "refresh"] \in CallType
      BY <1>1 DEF CallType, Stages
    <3>2. [k0 EXCEPT !.does = "finish", !.stage = "running"] \in CallType
      BY <1>1 DEF CallType, Stages
    <3> QED BY <3>1, <3>2
  <2>3. \A targets \in SUBSET Operations :
           /\ [k0 EXCEPT !.does = "drop", !.stage = "refresh", !.targets = targets] \in CallType
           /\ [k0 EXCEPT !.stage = "refresh", !.targets = @ \ targets] \in CallType
    BY <1>1 DEF CallType, Stages
  <2>4. \A basis \in Bases, stage \in Stages, m, n \in Nat :
           [k0 EXCEPT !.does = "enter", !.basis = basis, !.stage = stage,
                      !.generation = m, !.since = n] \in CallType
    BY <1>1 DEF CallType
  <2> QED BY <2>1, <2>2, <2>3, <2>4
<1>4. Withdrawn(c) \in CallType
  BY <1>3, ReadyType DEF Withdrawn
<1>5. ASSUME Refresh(c) \/ Renew(c) \/ Outdated(c) \/ RecordIntent(c) \/ Complete(c)
      PROVE  Continues(c)
  BY <1>3, <1>5, ReadyType
     DEF Refresh, Renew, Outdated, RecordIntent, Complete, Continues, Stages
<1>6. ASSUME PrepareCommit(c) \/ RequestCommit(c) \/ Answer(c) \/ FinishCommit(c) \/ Report(c)
             \/ ReduceCommit(c) \/ Crash(c)
      PROVE  Continues(c)
  BY <1>2, <1>6 DEF PrepareCommit, RequestCommit, Answer, FinishCommit, Report, ReduceCommit, Crash
<1>7. ASSUME ReserveCommit(c) PROVE Continues(c)
  <2>1. Basis(c) \in Bases
    BY DEF Basis, Bases, Scope
  <2>2. config \in Nat /\ context.generation \in Nat
    BY DEF TypeOK, ConsentAssumption
  <2>3. "intent" \in Stages /\ "refresh" \in Stages
    BY DEF Stages
  <2> DEFINE stage == IF call[c].command \in Effectful THEN "intent" ELSE "refresh"
  <2>4. stage \in Stages
    BY <2>3
  <2>5. call' = [call EXCEPT ![c] = [k0 EXCEPT !.does = "enter", !.basis = Basis(c),
                   !.stage = stage, !.generation = context.generation, !.since = config]]
    BY <1>7 DEF ReserveCommit
  <2> HIDE DEF stage, k0
  <2> QED BY <1>3, <2>1, <2>2, <2>4, <2>5 DEF Continues
<1>8. ASSUME IntentFails(c) \/ EnterRefused(c) PROVE Continues(c)
  BY <1>4, <1>8 DEF IntentFails, EnterRefused, Continues
<1>9. ASSUME EnterCommit(c) \/ CancelCommit(c) PROVE Continues(c)
  BY <1>3, <1>9 DEF EnterCommit, CancelCommit, Continues, Stages
<1>10. ASSUME DiscardCommit(c) PROVE Continues(c)
  <2>1. Closing(c) \in SUBSET Operations
    BY DEF Closing, LiveOperations
  <2> QED BY <1>3, <1>10, <2>1, ReadyType DEF DiscardCommit, Continues
<1>11. ASSUME NEW o \in Operations, DropCommit(c, o) PROVE Continues(c)
  BY <1>3, <1>11, ReadyType DEF DropCommit, Continues
<1>12. ASSUME GiveUp(c) PROVE Continues(c)
  BY <1>3, <1>4, <1>12, ReadyType DEF GiveUp, Continues, Stages
<1> QED BY <1>5, <1>6, <1>7, <1>8, <1>9, <1>10, <1>11, <1>12 DEF Proceed

LEMMA CallTypeStep ==
    ASSUME ConsentAssumption, TypeOK, Next
    PROVE  call' \in [Clients -> CallType]
<1>1. ASSUME NEW c \in Clients, Continues(c) PROVE call' \in [Clients -> CallType]
  BY <1>1 DEF Continues, TypeOK
<1>2. CASE ChangeConfig
  BY <1>2 DEF ChangeConfig, TypeOK
<1> QED BY <1>1, <1>2, StartType, ProceedType DEF Next

\* The steps that write no record, and those that do.
Quiet(c) ==
    \/ Start(c) \/ Refresh(c) \/ Outdated(c) \/ Answer(c) \/ RecordIntent(c) \/ IntentFails(c)
    \/ EnterRefused(c) \/ Complete(c) \/ Report(c) \/ GiveUp(c) \/ Crash(c)

Commits(c) ==
    \/ PrepareCommit(c) \/ RequestCommit(c) \/ ReserveCommit(c) \/ EnterCommit(c)
    \/ FinishCommit(c) \/ CancelCommit(c) \/ DiscardCommit(c)
    \/ (\E o \in Operations : DropCommit(c, o)) \/ ReduceCommit(c)

LEMMA NextSplit ==
    ASSUME Next
    PROVE  ChangeConfig \/ \E c \in Clients : Quiet(c) \/ Renew(c) \/ Commits(c)
BY DEF Next, Proceed, Quiet, Commits

LEMMA QuietKeeps ==
    ASSUME NEW c \in Clients, Quiet(c)
    PROVE  UNCHANGED <<config, store, history>>
<1>1. CASE Start(c)
  BY <1>1 DEF Start, Begin, StartObserve, StartPrepare, StartRequest, StartInvoke,
              StartDiscard, StartReduce
<1>2. CASE ~Start(c)
  BY <1>2 DEF Quiet, Refresh, Outdated, Answer, RecordIntent, IntentFails, EnterRefused,
              Complete, Report, GiveUp, Crash
<1> QED BY <1>1, <1>2

\* Only a refresh touches the views, only the recording of an intent the ledger.
LEMMA QuietViews ==
    ASSUME ConsentAssumption, TypeOK, CallInv, NEW c \in Clients, Quiet(c)
    PROVE  /\ view' \in [Clients -> 1 .. Len(Policy)]
           /\ intents' \in SUBSET Invocations /\ intents \subseteq intents'
<1>1. CASE Start(c)
  BY <1>1 DEF Start, Begin, StartObserve, StartPrepare, StartRequest, StartInvoke,
              StartDiscard, StartReduce, TypeOK
<1>2. CASE Refresh(c)
  BY <1>2 DEF Refresh, TypeOK
<1>3. CASE RecordIntent(c) \/ IntentFails(c)
  <2>1. call[c].invocation \in Invocations
    BY <1>3 DEF RecordIntent, IntentFails, CallInv, Admitted
  <2> QED BY <1>3, <2>1 DEF RecordIntent, IntentFails, TypeOK
<1>4. CASE \/ Outdated(c) \/ Answer(c) \/ EnterRefused(c) \/ Complete(c) \/ Report(c)
           \/ GiveUp(c) \/ Crash(c)
  BY <1>4 DEF Outdated, Answer, EnterRefused, Complete, Report, GiveUp, Crash, TypeOK
<1> QED BY <1>1, <1>2, <1>3, <1>4 DEF Quiet

OperationType == [state : OperationStates, generation : Nat, grant : Grants \cup {None},
                  invocation : Invocations \cup {None}]
GrantType == [state : GrantStates, command : Commands \cup {None}, version : Nat,
              operation : Operations \cup {None}, generation : Nat,
              request : Requests \cup {None}, invocation : Invocations \cup {None},
              revoked : BOOLEAN]
ContextType == [generation : Nat, permission : Nat, contract : Nat, reduced : SUBSET Commands,
                prepared : Nat, granted : Nat, asked : Nat]

\* What a transaction may do to an operation and to a grant.
LEMMA RecordTypes ==
    /\ NoOperation \in OperationType /\ NoGrant \in GrantType
    /\ \A p \in OperationType, state \in OperationStates :
         [p EXCEPT !.state = state] \in OperationType
    /\ \A p \in OperationType, state \in OperationStates, g \in Grants \cup {None} :
         [p EXCEPT !.state = state, !.grant = g] \in OperationType
    /\ \A p \in OperationType, state \in OperationStates, i \in Invocations \cup {None} :
         [p EXCEPT !.state = state, !.invocation = i] \in OperationType
    /\ \A p \in OperationType, state \in OperationStates, n \in Nat :
         [p EXCEPT !.state = state, !.generation = n] \in OperationType
    /\ \A p \in GrantType, state \in GrantStates : [p EXCEPT !.state = state] \in GrantType
    /\ \A p \in GrantType, state \in GrantStates, i \in Invocations \cup {None} :
         [p EXCEPT !.state = state, !.invocation = i] \in GrantType
    /\ \A p \in GrantType : [p EXCEPT !.revoked = TRUE] \in GrantType
<1>1. NoOperation \in OperationType /\ NoGrant \in GrantType
  BY DEF NoOperation, NoGrant, OperationType, GrantType, OperationStates, GrantStates
<1>2. /\ \A p \in OperationType, state \in OperationStates :
           [p EXCEPT !.state = state] \in OperationType
      /\ \A p \in OperationType, state \in OperationStates, g \in Grants \cup {None} :
           [p EXCEPT !.state = state, !.grant = g] \in OperationType
      /\ \A p \in OperationType, state \in OperationStates, i \in Invocations \cup {None} :
           [p EXCEPT !.state = state, !.invocation = i] \in OperationType
      /\ \A p \in OperationType, state \in OperationStates, n \in Nat :
           [p EXCEPT !.state = state, !.generation = n] \in OperationType
  BY DEF OperationType
<1>3. /\ \A p \in GrantType, state \in GrantStates : [p EXCEPT !.state = state] \in GrantType
      /\ \A p \in GrantType, state \in GrantStates, i \in Invocations \cup {None} :
           [p EXCEPT !.state = state, !.invocation = i] \in GrantType
      /\ \A p \in GrantType : [p EXCEPT !.revoked = TRUE] \in GrantType
  BY DEF GrantType
<1> QED BY <1>1, <1>2, <1>3

\* The records after a transaction, apart from the counters.
RecordsTyped ==
    /\ operations \in [Operations -> OperationType] /\ grants \in [Grants -> GrantType]
    /\ blanket \in [Commands -> Grants \cup {None}]
    /\ prepared \in [Requests -> Operations \cup {None}]
    /\ asked \in [Requests -> [scope : {"none", "operation", "command"},
                               command : Commands \cup {None},
                               operation : Operations \cup {None},
                               grant : Grants \cup {None}, generation : Nat]]
    /\ uses \in [Operations -> Nat] /\ effects \in [Invocations -> Nat]

LEMMA MarkType ==
    ASSUME TypeOK, NEW c \in Clients, NEW state \in {"reserved", "entered"}, Mark(state, c)
    PROVE  operations' \in [Operations -> OperationType] /\ grants' \in [Grants -> GrantType]
<1>1. call[c].invocation \in Invocations \cup {None}
  BY DEF TypeOK, CallType
<1>2. operations \in [Operations -> OperationType] /\ grants \in [Grants -> GrantType]
  BY DEF TypeOK, OperationType, GrantType
<1>3. state \in OperationStates /\ state \in GrantStates
  BY DEF OperationStates, GrantStates
<1>4. \A o \in Operations :
        [operations[o] EXCEPT !.state = state, !.invocation = call[c].invocation] \in OperationType
  BY <1>1, <1>2, <1>3, RecordTypes
<1>5. \A g \in Grants :
        [grants[g] EXCEPT !.state = state, !.invocation = call[c].invocation] \in GrantType
  BY <1>1, <1>2, <1>3, RecordTypes
<1> QED BY <1>2, <1>4, <1>5 DEF Mark

LEMMA FollowType ==
    ASSUME TypeOK, NEW o \in Operations, NEW state \in OperationStates,
           NEW i \in Invocations \cup {None}, Follow(o, state, i)
    PROVE  operations' \in [Operations -> OperationType]
<1>1. operations \in [Operations -> OperationType]
  BY DEF TypeOK, OperationType
<1>2. [operations[o] EXCEPT !.state = state, !.invocation = i] \in OperationType
  BY <1>1, RecordTypes
<1> QED BY <1>1, <1>2 DEF Follow

LEMMA RecordsTypeStep ==
    ASSUME ConsentAssumption, IInv, NEW c \in Clients, Commits(c)
    PROVE  RecordsTyped'
<1>0. TypeOK /\ FreshHeld /\ CallInv
  BY DEF IInv
<1>1. RecordsTyped
  BY <1>0 DEF RecordsTyped, TypeOK, OperationType, GrantType
<1>2. context.generation \in Nat /\ Contract[c] \in Nat
  BY <1>0 DEF TypeOK, ConsentAssumption
<1>3. /\ call[c].grant \in Grants \cup {None} /\ call[c].operation \in Operations \cup {None}
      /\ call[c].command \in Commands \cup {None} /\ call[c].request \in Requests \cup {None}
  BY <1>0 DEF TypeOK, CallType
<1>4. ASSUME PrepareCommit(c) PROVE RecordsTyped'
  <2>1. [NoOperation EXCEPT !.state = "prepared", !.generation = context.generation]
          \in OperationType
    BY <1>2, RecordTypes DEF OperationStates
  <2>2. operations' \in [Operations -> OperationType]
    BY <1>1, <1>4, <2>1 DEF PrepareCommit, RecordsTyped
  <2>3. prepared' \in [Requests -> Operations \cup {None}]
    BY <1>1, <1>3, <1>4 DEF PrepareCommit, RecordsTyped
  <2> QED BY <1>1, <1>4, <2>2, <2>3 DEF PrepareCommit, RecordsTyped, history
<1>5. ASSUME RequestCommit(c) PROVE RecordsTyped'
  <2>1. call[c].fresh \in Grants /\ call[c].request \in Requests
    BY <1>0, <1>5 DEF FreshHeld, RequestCommit, Committing
  <2>2. \A g \in Grants \cup {None} :
          Tombstone(c, g) \in [scope : {"none", "operation", "command"},
                               command : Commands \cup {None},
                               operation : Operations \cup {None},
                               grant : Grants \cup {None}, generation : Nat]
    BY <1>2, <1>3 DEF Tombstone, Scope
  <2>3. CASE Reuse(c)
    BY <1>1, <1>3, <1>5, <2>2, <2>3 DEF Reuse, RequestCommit, RecordsTyped, history
  <2>4. CASE Authorise(c)
    <3>1. [state |-> "authorised", command |-> call[c].command,
           version |-> Contract[c], operation |-> call[c].operation,
           generation |-> context.generation, request |-> call[c].request,
           invocation |-> None, revoked |-> FALSE] \in GrantType
      BY <1>2, <1>3 DEF GrantType, GrantStates
    <3>2. grants' \in [Grants -> GrantType]
      BY <1>1, <2>4, <3>1 DEF Authorise, RecordsTyped
    <3>3. \A o \in Operations :
            [operations[o] EXCEPT !.state = "authorised", !.grant = call[c].fresh] \in OperationType
      BY <1>1, <2>1, RecordTypes DEF OperationStates, RecordsTyped
    <3>4. operations' \in [Operations -> OperationType]
      <4>1. operations \in [Operations -> OperationType]
        BY <1>1 DEF RecordsTyped
      <4>2. CASE call[c].operation = None
        BY <2>4, <4>1, <4>2 DEF Authorise
      <4>3. CASE call[c].operation # None
        <5> DEFINE p == [operations[call[c].operation] EXCEPT !.state = "authorised",
                                                              !.grant = call[c].fresh]
        <5>1. p \in OperationType
          BY <1>3, <3>3, <4>3
        <5>2. operations' = [operations EXCEPT ![call[c].operation] = p]
          BY <2>4, <4>3 DEF Authorise
        <5> HIDE DEF p
        <5> QED BY <4>1, <5>1, <5>2
      <4> QED BY <4>2, <4>3
    <3>5. /\ blanket' \in [Commands -> Grants \cup {None}]
          /\ asked' \in [Requests -> [scope : {"none", "operation", "command"},
                               command : Commands \cup {None},
                               operation : Operations \cup {None},
                               grant : Grants \cup {None}, generation : Nat]]
      BY <1>1, <2>1, <2>2, <2>4 DEF Authorise, RecordsTyped
    <3> QED BY <1>1, <1>5, <3>2, <3>4, <3>5 DEF RequestCommit, RecordsTyped, history
  <2> QED BY <1>5, <2>3, <2>4 DEF RequestCommit
<1>6. ASSUME ReserveCommit(c) PROVE RecordsTyped'
  BY <1>0, <1>1, <1>6, MarkType DEF ReserveCommit, RecordsTyped, history
<1>7. ASSUME EnterCommit(c) PROVE RecordsTyped'
  <2>1. operations' \in [Operations -> OperationType] /\ grants' \in [Grants -> GrantType]
    BY <1>0, <1>1, <1>7, MarkType DEF EnterCommit, RecordsTyped
  <2>2. uses' \in [Operations -> Nat]
    <3>1. uses' = [uses EXCEPT ![call[c].operation] = @ + 1] \/ uses' = uses
      BY <1>7 DEF EnterCommit
    <3> QED BY <1>1, <3>1 DEF RecordsTyped
  <2>3. effects' \in [Invocations -> Nat]
    <3>1. effects' = [effects EXCEPT ![call[c].invocation] = @ + 1] \/ effects' = effects
      BY <1>7 DEF EnterCommit
    <3> QED BY <1>1, <3>1 DEF RecordsTyped
  <2> QED BY <1>1, <1>7, <2>1, <2>2, <2>3 DEF EnterCommit, RecordsTyped
<1>8. ASSUME FinishCommit(c) \/ CancelCommit(c) PROVE RecordsTyped'
  <2>1. Holds(c)
    BY <1>0, <1>8 DEF FinishCommit, CancelCommit, Committing, CallInv, Admitted
  <2>2. /\ call[c].operation \in Operations /\ call[c].grant \in Grants
        /\ operations[call[c].operation].invocation \in Invocations \cup {None}
    BY <1>1, <2>1 DEF Holds, RecordsTyped, OperationType
  <2>3. {"spent", "authorised", "revoked"} \subseteq OperationStates \cap GrantStates
    BY DEF OperationStates, GrantStates
  <2>4. operations' \in [Operations -> OperationType]
    BY <1>0, <1>1, <1>8, <2>2, <2>3, FollowType DEF FinishCommit, CancelCommit, RecordsTyped
  <2>5. \A g \in Grants, state \in GrantStates :
          /\ [grants[g] EXCEPT !.state = state] \in GrantType
          /\ [grants[g] EXCEPT !.state = state, !.invocation = None] \in GrantType
    BY <1>1, RecordTypes DEF RecordsTyped
  <2>6. grants' \in [Grants -> GrantType]
    <3>1. PICK state \in GrantStates :
            \/ grants' = [grants EXCEPT ![call[c].grant] = [@ EXCEPT !.state = state]]
            \/ grants' = [grants EXCEPT ![call[c].grant] =
                             [@ EXCEPT !.state = state, !.invocation = None]]
            \/ grants' = grants
      BY <1>8, <2>3 DEF FinishCommit, CancelCommit
    <3>2. grants \in [Grants -> GrantType]
      BY <1>1 DEF RecordsTyped
    <3>3. /\ [grants[call[c].grant] EXCEPT !.state = state] \in GrantType
          /\ [grants[call[c].grant] EXCEPT !.state = state, !.invocation = None] \in GrantType
      BY <2>2, <2>5
    <3> QED BY <3>1, <3>2, <3>3
  <2> QED BY <1>1, <1>8, <2>4, <2>6 DEF FinishCommit, CancelCommit, RecordsTyped, history
<1>9. ASSUME DiscardCommit(c) PROVE RecordsTyped'
  <2>1. \A o \in Operations : [operations[o] EXCEPT !.state = "discarding"] \in OperationType
    BY <1>1, RecordTypes DEF RecordsTyped, OperationStates
  <2> QED BY <1>1, <1>9, <2>1 DEF DiscardCommit, RecordsTyped, history
<1>10. ASSUME NEW o \in Operations, DropCommit(c, o) PROVE RecordsTyped'
  <2>1. [NoOperation EXCEPT !.state = "gone"] \in OperationType
    BY RecordTypes DEF OperationStates
  <2>2. operations' \in [Operations -> OperationType]
    <3>1. \/ operations' = [operations EXCEPT ![o] = [NoOperation EXCEPT !.state = "gone"]]
          \/ operations' = operations
      BY <1>10 DEF DropCommit
    <3> QED BY <1>1, <2>1, <3>1 DEF RecordsTyped
  <2> QED BY <1>1, <1>10, <2>2 DEF DropCommit, RecordsTyped, history
<1>11. ASSUME ReduceCommit(c) PROVE RecordsTyped'
  <2>1. GrantRemains \in GrantType
    BY RecordTypes DEF GrantStates, GrantRemains
  <2>2. \A g \in Grants : [grants[g] EXCEPT !.revoked = TRUE] \in GrantType
    BY <1>1, RecordTypes DEF RecordsTyped
  <2>3. \A o \in Operations : [operations[o] EXCEPT !.state = "revoked"] \in OperationType
    BY <1>1, RecordTypes DEF RecordsTyped, OperationStates
  <2> QED BY <1>1, <1>11, <2>1, <2>2, <2>3 DEF ReduceCommit, RecordsTyped, history
<1> QED BY <1>4, <1>5, <1>6, <1>7, <1>8, <1>9, <1>10, <1>11 DEF Commits

-----------------------------------------------------------------------------
(* The counters                                                            *)

LEMMA DifferenceCardinality ==
    ASSUME NEW S, IsFiniteSet(S), NEW T, T \subseteq S
    PROVE  /\ IsFiniteSet(S \ T)
           /\ Cardinality(S \ T) = Cardinality(S) - Cardinality(T)
<1>1. S \cap T = T
  OBVIOUS
<1> QED BY <1>1, FS_Difference

\* The live operations and grants that a transaction adds or removes, and the
\* counters with them.
LEMMA CountedStep ==
    ASSUME ConsentAssumption, IInv, NEW c \in Clients, Commits(c)
    PROVE  Counted'
<1>0. TypeOK /\ Counted /\ FreshHeld /\ OperationInv /\ GrantInv /\ CallInv
  BY DEF IInv
<1>1. /\ operations \in [Operations -> OperationType] /\ grants \in [Grants -> GrantType]
      /\ context \in ContextType
  BY <1>0 DEF TypeOK, OperationType, GrantType, ContextType
<1>2. /\ LiveOperations = {o \in Operations : operations[o].state \notin {"absent", "gone"}}
      /\ LiveGrants = {g \in Grants : grants[g].state \notin {"absent", "gone"}}
      /\ LiveOperations' = {o \in Operations : operations'[o].state \notin {"absent", "gone"}}
      /\ LiveGrants' = {g \in Grants : grants'[g].state \notin {"absent", "gone"}}
  BY DEF LiveOperations, LiveGrants, Unwritten
<1>3. /\ LiveOperations' = LiveOperations /\ LiveGrants' = LiveGrants
      /\ context'.prepared = context.prepared /\ context'.granted = context.granted
      => Counted'
  BY <1>0 DEF Counted
<1>4. ASSUME PrepareCommit(c) PROVE Counted'
  <2> DEFINE o == call[c].operation
  <2>1. o \in Operations /\ operations[o].state = "absent"
    BY <1>0, <1>4 DEF FreshHeld, PrepareCommit, Committing
  <2>2. LiveOperations' = LiveOperations \cup {o} /\ o \notin LiveOperations
    <3>1. operations'[o].state = "prepared" /\ \A p \in Operations \ {o} : operations'[p] = operations[p]
      BY <1>1, <1>4, <2>1 DEF PrepareCommit, NoOperation
    <3> QED BY <1>2, <2>1, <3>1
  <2>3. LiveGrants' = LiveGrants
    BY <1>2, <1>4 DEF PrepareCommit
  <2>4. context'.prepared = context.prepared + 1 /\ context'.granted = context.granted
    BY <1>1, <1>4 DEF PrepareCommit, ContextType
  <2> HIDE DEF o
  <2> QED BY <1>0, <2>2, <2>3, <2>4, FS_AddElement DEF Counted
<1>5. ASSUME RequestCommit(c), Reuse(c) PROVE Counted'
  <2>1. context'.prepared = context.prepared /\ context'.granted = context.granted
    BY <1>1, <1>5 DEF Reuse, ContextType
  <2> QED BY <1>2, <1>3, <1>5, <2>1 DEF Reuse
<1>6. ASSUME RequestCommit(c), Authorise(c) PROVE Counted'
  <2> DEFINE g == call[c].fresh
  <2>1. g \in Grants /\ grants[g].state = "absent"
    BY <1>0, <1>6 DEF FreshHeld, RequestCommit, Committing
  <2>2. LiveGrants' = LiveGrants \cup {g} /\ g \notin LiveGrants
    <3>1. grants'[g].state = "authorised" /\ \A h \in Grants \ {g} : grants'[h] = grants[h]
      BY <1>1, <1>6, <2>1 DEF Authorise
    <3> QED BY <1>2, <2>1, <3>1
  <2>3. LiveOperations' = LiveOperations
    <3>1. CASE call[c].operation = None
      BY <1>2, <1>6, <3>1 DEF Authorise
    <3>2. CASE call[c].operation # None
      <4>1. /\ call[c].operation \in Operations
            /\ operations[call[c].operation].state \in {"prepared", "authorised"}
        BY <1>0, <1>6, <3>2 DEF RequestCommit, MayRequest, TypeOK, CallType
      <4>2. /\ operations'[call[c].operation].state = "authorised"
            /\ \A p \in Operations \ {call[c].operation} : operations'[p] = operations[p]
        <5>1. operations' = [operations EXCEPT ![call[c].operation] =
                               [@ EXCEPT !.state = "authorised", !.grant = call[c].fresh]]
          BY <1>6, <3>2 DEF Authorise
        <5> QED BY <1>1, <4>1, <5>1 DEF OperationType
      <4> QED BY <1>2, <4>1, <4>2
    <3> QED BY <3>1, <3>2
  <2>4. context'.granted = context.granted + 1 /\ context'.prepared = context.prepared
    BY <1>1, <1>6 DEF Authorise, ContextType
  <2> HIDE DEF g
  <2> QED BY <1>0, <2>2, <2>3, <2>4, FS_AddElement DEF Counted
<1>7. ASSUME NEW state \in {"reserved", "entered"}, Mark(state, c),
             call[c].grant \in LiveGrants, call[c].operation \in LiveOperations,
             UNCHANGED context
      PROVE  Counted'
  <2>1. /\ grants'[call[c].grant].state = state
        /\ \A h \in Grants \ {call[c].grant} : grants'[h] = grants[h]
    BY <1>1, <1>7 DEF Mark, GrantType, LiveGrants
  <2>2. /\ operations'[call[c].operation].state = state
        /\ \A p \in Operations \ {call[c].operation} : operations'[p] = operations[p]
    BY <1>1, <1>7 DEF Mark, OperationType, LiveOperations
  <2>3. LiveGrants' = LiveGrants
    BY <1>2, <1>7, <2>1
  <2>4. LiveOperations' = LiveOperations
    BY <1>2, <1>7, <2>2
  <2> QED BY <1>3, <1>7, <2>3, <2>4

<1>8. ASSUME ReserveCommit(c) PROVE Counted'
  <2>1. CASE Basis(c) = "operation"
    <3>1. ValidGrant(c, call[c].grant, call[c].command) /\ call[c].operation # None
      BY <1>8, <2>1 DEF ReserveCommit, MayReserve, Basis, Scope
    <3>2. call[c].grant \in LiveGrants /\ call[c].operation \in LiveOperations
      BY <1>0, <1>2, <1>8, <3>1
         DEF ReserveCommit, MayReserve, ValidGrant, TypeOK, CallType
    <3> QED BY <1>7, <1>8, <2>1, <3>2 DEF ReserveCommit
  <2>2. CASE Basis(c) # "operation"
    BY <1>2, <1>3, <1>8, <2>2 DEF ReserveCommit
  <2> QED BY <2>1, <2>2
<1>9. ASSUME EnterCommit(c) PROVE Counted'
  <2>1. CASE call[c].basis = "operation"
    <3>1. Holds(c) /\ StillReserved(c)
      BY <1>0, <1>9, <2>1 DEF EnterCommit, MayEnter, Committing, CallInv, Admitted
    <3>2. call[c].grant \in LiveGrants /\ call[c].operation \in LiveOperations
      BY <1>2, <3>1 DEF Holds, StillReserved, Unwritten
    <3> QED BY <1>7, <1>9, <2>1, <3>2 DEF EnterCommit
  <2>2. CASE call[c].basis # "operation"
    BY <1>2, <1>3, <1>9, <2>2 DEF EnterCommit
  <2> QED BY <2>1, <2>2
<1>10. ASSUME FinishCommit(c) \/ CancelCommit(c) PROVE Counted'
  <2> DEFINE g == call[c].grant
             o == call[c].operation
  <2>1. g \in Grants /\ o \in Operations
    BY <1>0, <1>10 DEF FinishCommit, CancelCommit, Committing, CallInv, Admitted, Holds
  <2>2. CASE UNCHANGED <<grants, operations>>
    BY <1>2, <1>3, <1>10, <2>2 DEF FinishCommit, CancelCommit
  <2>3. CASE ~UNCHANGED <<grants, operations>>
    <3>1. PICK state \in {"spent", "authorised", "revoked"}, i \in Invocations \cup {None} :
            /\ \/ grants' = [grants EXCEPT ![g] = [@ EXCEPT !.state = state]]
               \/ grants' = [grants EXCEPT ![g] = [@ EXCEPT !.state = state, !.invocation = None]]
            /\ Follow(o, state, i)
      BY <1>1, <1>10, <2>1, <2>3 DEF FinishCommit, CancelCommit, OperationType
    <3>2. g \in LiveGrants
      BY <1>2, <1>10, <2>1, <2>3 DEF FinishCommit, CancelCommit
    <3>3. grants'[g].state = state /\ \A h \in Grants \ {g} : grants'[h] = grants[h]
      <4>1. \A p \in GrantType : /\ [p EXCEPT !.state = state].state = state
                                 /\ [p EXCEPT !.state = state, !.invocation = None].state = state
        BY DEF GrantType
      <4>2. PICK p : grants' = [grants EXCEPT ![g] = p] /\ p.state = state
        BY <1>1, <2>1, <3>1, <4>1
      <4> QED BY <1>1, <2>1, <4>2
    <3>4. LiveGrants' = LiveGrants
      BY <1>2, <3>2, <3>3
    <3>5. /\ operations'[o].state \in {"absent", "gone"} <=> operations[o].state \in {"absent", "gone"}
          /\ \A p \in Operations \ {o} : operations'[p] = operations[p]
      BY <1>1, <2>1, <3>1 DEF Follow, OperationType, Unwritten
    <3>6. LiveOperations' = LiveOperations
      BY <1>2, <3>5
    <3> QED BY <1>3, <1>10, <3>4, <3>6 DEF FinishCommit, CancelCommit
  <2> QED BY <2>2, <2>3
<1>11. ASSUME DiscardCommit(c) PROVE Counted'
  <2>1. \A o \in Operations :
          /\ o \in Closing(c) => operations'[o].state = "discarding" /\ o \in LiveOperations
          /\ o \notin Closing(c) => operations'[o] = operations[o]
    BY <1>1, <1>11 DEF DiscardCommit, Closing, OperationType
  <2>2. LiveOperations' = LiveOperations
    BY <1>2, <2>1
  <2> QED BY <1>2, <1>3, <1>11, <2>2 DEF DiscardCommit
<1>12. ASSUME NEW o \in Operations, DropCommit(c, o) PROVE Counted'
  <2>1. LiveGrants' = LiveGrants
    BY <1>2, <1>12 DEF DropCommit
  <2>2. CASE o \in LiveOperations /\ ~Active(o)
    <3>1. operations'[o].state = "gone" /\ \A p \in Operations \ {o} : operations'[p] = operations[p]
      BY <1>1, <1>12, <2>2 DEF DropCommit, NoOperation
    <3>2. LiveOperations' = LiveOperations \ {o}
      BY <1>2, <3>1
    <3>3. context'.prepared = context.prepared - 1 /\ context'.granted = context.granted
      BY <1>1, <1>12, <2>2 DEF DropCommit, ContextType
    <3> QED BY <1>0, <2>1, <2>2, <3>2, <3>3, FS_RemoveElement DEF Counted
  <2>3. CASE ~(o \in LiveOperations /\ ~Active(o))
    BY <1>2, <1>3, <1>12, <2>3 DEF DropCommit
  <2> QED BY <2>2, <2>3
<1>13. ASSUME ReduceCommit(c) PROVE Counted'
  <2> DEFINE removed == Removed(c)
  <2>1. removed \subseteq LiveGrants
    BY DEF Removed
  <2>2. \A g \in Grants :
          /\ g \in removed => grants'[g].state = "gone"
          /\ g \notin removed => grants'[g].state = grants[g].state
    BY <1>1, <1>13 DEF ReduceCommit, GrantRemains, NoGrant, GrantType
  <2>3. LiveGrants' = LiveGrants \ removed
    BY <1>2, <2>2
  <2>4. \A o \in Operations :
          operations'[o].state \in {"absent", "gone"} <=> operations[o].state \in {"absent", "gone"}
    BY <1>1, <1>2, <1>13 DEF ReduceCommit, OperationType
  <2>5. LiveOperations' = LiveOperations
    BY <1>2, <2>4
  <2>6. /\ context'.prepared = context.prepared
        /\ context'.granted = context.granted - Cardinality(removed)
    BY <1>1, <1>13 DEF ReduceCommit, ContextType
  <2> HIDE DEF removed
  <2>7. /\ IsFiniteSet(LiveGrants \ removed)
        /\ Cardinality(LiveGrants \ removed) = Cardinality(LiveGrants) - Cardinality(removed)
    BY <1>0, <2>1, DifferenceCardinality DEF Counted
  <2> QED BY <1>0, <2>3, <2>5, <2>6, <2>7 DEF Counted
<1> QED BY <1>4, <1>5, <1>6, <1>8, <1>9, <1>10, <1>11, <1>12, <1>13 DEF Commits, RequestCommit

LEMMA CountersNatural ==
    ASSUME Counted
    PROVE  context.prepared \in Nat /\ context.granted \in Nat
BY FS_CardinalityType DEF Counted
\* A context whose counters are yet to be shown to be natural numbers.
LooseType ==
    [generation : Nat, permission : Nat, contract : Nat, reduced : SUBSET Commands,
     prepared : Int, granted : Int, asked : Nat]

Loose(x) ==
    /\ x \in LooseType
    /\ x.generation = context.generation /\ x.contract = context.contract

LEMMA CountTypes ==
    ASSUME NEW x \in LooseType, NEW n \in Int, NEW m \in Nat
    PROVE  /\ [x EXCEPT !.prepared = n] \in LooseType
           /\ [x EXCEPT !.asked = m] \in LooseType
           /\ [x EXCEPT !.prepared = n, !.asked = m] \in LooseType
           /\ [x EXCEPT !.asked = m, !.granted = n] \in LooseType
<1>1. [x EXCEPT !.prepared = n] \in LooseType
  BY DEF LooseType
<1>2. [x EXCEPT !.asked = m] \in LooseType
  BY DEF LooseType
<1>3. [x EXCEPT !.prepared = n, !.asked = m] \in LooseType
  BY DEF LooseType
<1>4. [x EXCEPT !.asked = m, !.granted = n] \in LooseType
  BY DEF LooseType
<1> QED BY <1>1, <1>2, <1>3, <1>4

LEMMA CountKeeps ==
    ASSUME NEW x \in LooseType, NEW n \in Int, NEW m \in Nat, NEW f \in {"generation", "contract"}
    PROVE  /\ [x EXCEPT !.prepared = n][f] = x[f]
           /\ [x EXCEPT !.asked = m][f] = x[f]
           /\ [x EXCEPT !.prepared = n, !.asked = m][f] = x[f]
           /\ [x EXCEPT !.asked = m, !.granted = n][f] = x[f]
BY DEF LooseType

LEMMA ReducedType ==
    ASSUME NEW x \in LooseType, NEW n \in Int, NEW reduced \in SUBSET Commands
    PROVE  /\ [x EXCEPT !.reduced = reduced, !.granted = n] \in LooseType
           /\ \A f \in {"generation", "contract"} :
                [x EXCEPT !.reduced = reduced, !.granted = n][f] = x[f]
<1>1. [x EXCEPT !.reduced = reduced, !.granted = n] \in LooseType
  BY DEF LooseType
<1>2. \A f \in {"generation", "contract"} :
        [x EXCEPT !.reduced = reduced, !.granted = n][f] = x[f]
  BY DEF LooseType
<1> QED BY <1>1, <1>2

LEMMA NaturalCounters ==
    ASSUME NEW x \in LooseType, x.prepared \in Nat, x.granted \in Nat
    PROVE  x \in ContextType
BY DEF LooseType, ContextType

LEMMA LooseUpdates ==
    ASSUME TypeOK
    PROVE  /\ Loose(context)
           /\ \A n \in Int, m \in Nat :
                /\ Loose([context EXCEPT !.prepared = n])
                /\ Loose([context EXCEPT !.asked = m])
                /\ Loose([context EXCEPT !.prepared = n, !.asked = m])
                /\ Loose([context EXCEPT !.asked = m, !.granted = n])
           /\ \A n \in Int, reduced \in SUBSET Commands :
                Loose([context EXCEPT !.reduced = reduced, !.granted = n])
<1>1. context \in LooseType
  BY DEF TypeOK, LooseType
<1>2. ASSUME NEW x \in LooseType, \A f \in {"generation", "contract"} : x[f] = context[f]
      PROVE  Loose(x)
  BY <1>2 DEF Loose
<1>3. Loose(context)
  BY <1>1, <1>2
<1>4. ASSUME NEW n \in Int, NEW m \in Nat
      PROVE  /\ Loose([context EXCEPT !.prepared = n])
             /\ Loose([context EXCEPT !.asked = m])
             /\ Loose([context EXCEPT !.prepared = n, !.asked = m])
             /\ Loose([context EXCEPT !.asked = m, !.granted = n])
  <2>1. /\ [context EXCEPT !.prepared = n] \in LooseType
        /\ [context EXCEPT !.asked = m] \in LooseType
        /\ [context EXCEPT !.prepared = n, !.asked = m] \in LooseType
        /\ [context EXCEPT !.asked = m, !.granted = n] \in LooseType
    BY <1>1, CountTypes, Zenon
  <2>2. \A f \in {"generation", "contract"} :
           /\ [context EXCEPT !.prepared = n][f] = context[f]
           /\ [context EXCEPT !.asked = m][f] = context[f]
           /\ [context EXCEPT !.prepared = n, !.asked = m][f] = context[f]
           /\ [context EXCEPT !.asked = m, !.granted = n][f] = context[f]
    BY <1>1, CountKeeps, Zenon
  <2> QED BY <1>2, <2>1, <2>2, Zenon
<1>5. ASSUME NEW n \in Int, NEW reduced \in SUBSET Commands
      PROVE  Loose([context EXCEPT !.reduced = reduced, !.granted = n])
  BY <1>1, <1>2, ReducedType, Zenon
<1> QED BY <1>3, <1>4, <1>5, Zenon

\* A transaction leaves the generations of the context alone.
LEMMA ContextStep ==
    ASSUME ConsentAssumption, IInv, NEW c \in Clients, Commits(c)
    PROVE  Loose(context')
<1>0. TypeOK
  BY DEF IInv
<1>1. /\ context.prepared + 1 \in Int /\ context.prepared - 1 \in Int
      /\ context.granted + 1 \in Int /\ context.asked + 1 \in Nat
      /\ call[c].commands \in SUBSET Commands /\ context.reduced \in SUBSET Commands
  <2>1. context \in ContextType /\ call[c] \in CallType
    BY <1>0 DEF TypeOK, ContextType
  <2>2. /\ context.prepared \in Nat /\ context.granted \in Nat /\ context.asked \in Nat
        /\ context.reduced \in SUBSET Commands
    BY <2>1 DEF ContextType
  <2>3. call[c].commands \in SUBSET Commands
    BY <2>1 DEF CallType
  <2> QED BY <2>2, <2>3
<1>2. CASE PrepareCommit(c)
  BY <1>0, <1>1, <1>2, LooseUpdates DEF PrepareCommit
<1>3. CASE RequestCommit(c)
  <2>1. \/ context' = [context EXCEPT !.asked = @ + 1]
        \/ context' = [context EXCEPT !.asked = @ + 1, !.granted = @ + 1]
    BY <1>3 DEF RequestCommit, Reuse, Authorise
  <2>2. CASE context' = [context EXCEPT !.asked = @ + 1]
    BY <1>0, <1>1, <2>2, LooseUpdates
  <2>3. CASE context' = [context EXCEPT !.asked = @ + 1, !.granted = @ + 1]
    <3>1. Loose([context EXCEPT !.asked = context.asked + 1, !.granted = context.granted + 1])
      BY <1>0, <1>1, LooseUpdates, Zenon
    <3> QED BY <2>3, <3>1, Zenon
  <2> QED BY <2>1, <2>2, <2>3
<1>4. CASE ReserveCommit(c) \/ EnterCommit(c) \/ FinishCommit(c) \/ CancelCommit(c) \/ DiscardCommit(c)
  BY <1>0, <1>4, LooseUpdates
     DEF ReserveCommit, EnterCommit, FinishCommit, CancelCommit, DiscardCommit
<1>5. ASSUME NEW o \in Operations, DropCommit(c, o) PROVE Loose(context')
  BY <1>0, <1>1, <1>5, LooseUpdates DEF DropCommit
<1>6. CASE ReduceCommit(c)
  <2>1. context.granted - Cardinality(Removed(c)) \in Int
    BY <1>0, FS_Subset, FS_CardinalityType DEF Removed, IInv, Counted, TypeOK
  <2>2. context.reduced \cup call[c].commands \in SUBSET Commands
    BY <1>1
  <2> QED BY <1>0, <1>6, <2>1, <2>2, LooseUpdates DEF ReduceCommit
<1> QED BY <1>2, <1>3, <1>4, <1>5, <1>6 DEF Commits

LEMMA CommitsKeep ==
    ASSUME NEW c \in Clients, Commits(c)
    PROVE  UNCHANGED <<config, intents, view>>
BY DEF Commits, PrepareCommit, RequestCommit, ReserveCommit, EnterCommit, FinishCommit,
       CancelCommit, DiscardCommit, DropCommit, ReduceCommit

\* A renewal: a generation that nothing carries yet.
LEMMA RenewStep ==
    ASSUME ConsentAssumption, TypeOK, NEW c \in Clients, Renew(c)
    PROVE  /\ context' \in ContextType
           /\ context'.prepared = context.prepared /\ context'.granted = context.granted
           /\ \/ context' = context
              \/ context'.generation = context.generation + 1
<1>1. /\ context \in ContextType /\ view[c] \in Nat /\ Contract[c] \in Nat
      /\ context.generation + 1 \in Nat
  BY DEF TypeOK, ContextType, ConsentAssumption
<1>2. CASE context' = context
  BY <1>1, <1>2
<1>3. CASE context' = [context EXCEPT !.generation = context.generation + 1,
                                      !.permission = view[c], !.contract = Contract[c]]
  <2>1. PICK n \in Nat : n = context.generation + 1
    BY <1>1
  <2>2. PICK p \in Nat : p = view[c]
    BY <1>1
  <2>3. PICK k \in Nat : k = Contract[c]
    BY <1>1
  <2>4. context' = [context EXCEPT !.generation = n, !.permission = p, !.contract = k]
    BY <1>3, <2>1, <2>2, <2>3, Zenon
  <2>5. context' \in ContextType
    BY <1>1, <2>4 DEF ContextType
  <2>6. context'.generation = n
    BY <1>1, <2>4 DEF ContextType
  <2>7. context'.prepared = context.prepared /\ context'.granted = context.granted
    BY <1>1, <2>4 DEF ContextType
  <2> QED BY <2>1, <2>5, <2>6, <2>7
<1> QED BY <1>2, <1>3 DEF Renew

LEMMA TypeStep ==
    ASSUME ConsentAssumption, IInv, Next
    PROVE  TypeOK' /\ Counted'
<1>0. TypeOK /\ Counted /\ CallInv
  BY DEF IInv
<1>1. call' \in [Clients -> CallType]
  BY <1>0, CallTypeStep
<1>2. ASSUME NEW c \in Clients, Quiet(c) PROVE TypeOK' /\ Counted'
  <2>1. UNCHANGED <<config, context, operations, grants, blanket, prepared, asked, uses, effects>>
    BY <1>2, QuietKeeps DEF store, history
  <2>2. view' \in [Clients -> 1 .. Len(Policy)] /\ intents' \subseteq Invocations
    BY <1>0, <1>2, QuietViews
  <2>3. TypeOK'
    BY <1>0, <1>1, <2>1, <2>2 DEF TypeOK
  <2> QED BY <1>0, <2>1, <2>3 DEF Counted, LiveOperations, LiveGrants
<1>3. CASE ChangeConfig
  <2>1. config' \in 1 .. Len(Policy)
    BY <1>0, <1>3 DEF ChangeConfig, TypeOK, ConsentAssumption
  <2>2. UNCHANGED <<context, operations, grants, blanket, prepared, asked, intents, view, uses, effects>>
    BY <1>3 DEF ChangeConfig, store, history
  <2> QED BY <1>0, <1>1, <2>1, <2>2 DEF TypeOK, Counted, LiveOperations, LiveGrants
<1>4. ASSUME NEW c \in Clients, Renew(c) PROVE TypeOK' /\ Counted'
  <2>1. UNCHANGED <<config, operations, grants, blanket, prepared, asked, intents, view, uses, effects>>
    BY <1>4 DEF Renew, history
  <2>2. /\ context' \in ContextType /\ context'.prepared = context.prepared
        /\ context'.granted = context.granted
    BY <1>0, <1>4, RenewStep
  <2>3. TypeOK'
    BY <1>0, <1>1, <2>1, <2>2 DEF TypeOK, ContextType
  <2> QED BY <1>0, <2>1, <2>2, <2>3 DEF Counted, LiveOperations, LiveGrants
<1>5. ASSUME NEW c \in Clients, Commits(c) PROVE TypeOK' /\ Counted'
  <2>1. Counted'
    BY <1>5, CountedStep
  <2>2. context'.prepared \in Nat /\ context'.granted \in Nat
    BY <2>1, CountersNatural, FS_CardinalityType DEF Counted
  <2>3. context' \in ContextType
    <3>1. Loose(context')
      BY <1>5, ContextStep
    <3>2. context' \in LooseType
      BY <3>1 DEF Loose
    <3> QED BY <2>2, <3>2, NaturalCounters, Zenon
  <2>4. RecordsTyped'
    BY <1>5, RecordsTypeStep
  <2>5. UNCHANGED <<config, intents, view>>
    BY <1>5, CommitsKeep
  <2>6. TypeOK'
    BY <1>0, <1>1, <2>3, <2>4, <2>5
       DEF TypeOK, RecordsTyped, OperationType, GrantType, ContextType
  <2> QED BY <2>1, <2>6
<1> QED BY <1>2, <1>3, <1>4, <1>5, NextSplit

-----------------------------------------------------------------------------
(* What a step does to a call                                              *)

Others(c) == \A d \in Clients : d # c => call'[d] = call[d]

\* The call goes on with the same identifiers,
Carries(c) ==
    /\ call'[c].operation = call[c].operation /\ call'[c].grant = call[c].grant
    /\ call'[c].command = call[c].command /\ call'[c].invocation = call[c].invocation
    /\ call'[c].fresh = call[c].fresh /\ call'[c].request = call[c].request

\* and the same proof.
KeepsProof(c) ==
    /\ call'[c].basis = call[c].basis /\ call'[c].generation = call[c].generation
    /\ call'[c].since = call[c].since

GoesOn(c) ==
    /\ Carries(c) /\ KeepsProof(c) /\ call'[c].does = call[c].does
    /\ call'[c].stage \in {"refresh", "renew", "commit", "refused"}
    /\ call[c].stage # "ready"
    /\ call[c].stage = "running" => call[c].basis = "operation"
    /\ call[c].stage = "intent" => RecordIntent(c)

Cancels(c) ==
    /\ Carries(c) /\ KeepsProof(c)
    /\ call[c].does = "enter" /\ call[c].basis = "operation"
    /\ call'[c].does = "cancel" /\ call'[c].stage = "refresh"

Reserves(c) ==
    /\ ReserveCommit(c) /\ Carries(c)
    /\ call'[c].does = "enter" /\ call'[c].basis = Basis(c)
    /\ call'[c].generation = context.generation /\ call'[c].since = config
    /\ call'[c].stage = IF call[c].command \in Effectful THEN "intent" ELSE "refresh"

EntersNow(c) ==
    /\ EnterCommit(c) /\ Carries(c) /\ KeepsProof(c)
    /\ call'[c].does = "finish" /\ call'[c].stage = "running"

Disposes(c) ==
    /\ Carries(c) /\ call'[c].does = "drop" /\ call'[c].stage = "refresh"

LEMMA CallMoves ==
    ASSUME TypeOK, CallInv, NEW c \in Clients, Proceed(c) \/ GiveUp(c) \/ Crash(c)
    PROVE  /\ Others(c)
           /\ \/ call'[c] = Ready \/ GoesOn(c) \/ Cancels(c) \/ Reserves(c)
              \/ EntersNow(c) \/ Disposes(c)
<1> DEFINE Goal == /\ Others(c)
                   /\ \/ call'[c] = Ready \/ GoesOn(c) \/ Cancels(c) \/ Reserves(c)
                      \/ EntersNow(c) \/ Disposes(c)
<1>1. call \in [Clients -> CallType]
  BY DEF TypeOK
<1>2. Return(c) => Goal
  BY <1>1 DEF Return, Others
<1>3. ASSUME NEW stage \in {"refresh", "renew", "commit", "refused"},
             call' = [call EXCEPT ![c] = [call[c] EXCEPT !.stage = stage]],
             call[c].stage # "ready", call[c].stage = "running" => call[c].basis = "operation",
             call[c].stage = "intent" => RecordIntent(c)
      PROVE  Goal
  BY <1>1, <1>3 DEF Others, GoesOn, Carries, KeepsProof, CallType
<1>4. ASSUME Refresh(c) \/ Renew(c) \/ Outdated(c) \/ RecordIntent(c) \/ CancelCommit(c)
      PROVE  Goal
  BY <1>3, <1>4 DEF Refresh, Renew, Outdated, RecordIntent, CancelCommit, Committing
<1>5. ASSUME PrepareCommit(c) \/ RequestCommit(c) \/ Answer(c) \/ FinishCommit(c) \/ Report(c)
             \/ ReduceCommit(c) \/ Crash(c)
      PROVE  Goal
  BY <1>2, <1>5 DEF PrepareCommit, RequestCommit, Answer, FinishCommit, Report, ReduceCommit, Crash
<1>6. ASSUME Complete(c) PROVE Goal
  BY <1>1, <1>2, <1>3, <1>6 DEF Complete, Return
<1>7. ASSUME call' = [call EXCEPT ![c] = Withdrawn(c)], call[c].does = "enter" PROVE Goal
  <2>1. CASE call[c].basis = "operation"
    <3>1. call' = [call EXCEPT ![c] = [call[c] EXCEPT !.does = "cancel", !.stage = "refresh"]]
      BY <1>7, <2>1 DEF Withdrawn
    <3>2. Carries(c) /\ KeepsProof(c)
      BY <1>1, <3>1 DEF Carries, KeepsProof, CallType
    <3>3. Others(c) /\ call'[c].does = "cancel" /\ call'[c].stage = "refresh"
      BY <1>1, <3>1 DEF Others, CallType
    <3> QED BY <1>7, <2>1, <3>2, <3>3 DEF Cancels
  <2>2. CASE call[c].basis # "operation"
    BY <1>2, <1>7, <2>2 DEF Withdrawn, Return
  <2> QED BY <2>1, <2>2
<1>8. ASSUME IntentFails(c) \/ EnterRefused(c) PROVE Goal
  BY <1>7, <1>8 DEF IntentFails, EnterRefused, Committing, CallInv
<1>9. ASSUME ReserveCommit(c) PROVE Goal
  <2> DEFINE stage == IF call[c].command \in Effectful THEN "intent" ELSE "refresh"
  <2>1. call' = [call EXCEPT ![c] = [call[c] EXCEPT !.does = "enter", !.basis = Basis(c),
                   !.stage = stage, !.generation = context.generation, !.since = config]]
    BY <1>9 DEF ReserveCommit
  <2> HIDE DEF stage
  <2>2. /\ Others(c) /\ Carries(c) /\ call'[c].does = "enter" /\ call'[c].basis = Basis(c)
        /\ call'[c].generation = context.generation /\ call'[c].stage = stage
        /\ call'[c].since = config
    BY <1>1, <2>1 DEF Others, Carries, CallType
  <2> QED BY <1>9, <2>2 DEF Reserves, stage
<1>10. ASSUME EnterCommit(c) PROVE Goal
  BY <1>1, <1>10 DEF EnterCommit, Others, EntersNow, Carries, KeepsProof, CallType
<1>11. ASSUME DiscardCommit(c) PROVE Goal
  <2>1. CASE Closing(c) = {}
    BY <1>2, <1>11, <2>1 DEF DiscardCommit, Return
  <2>2. CASE Closing(c) # {}
    <3>1. PICK targets : call' = [call EXCEPT ![c] = [call[c] EXCEPT !.does = "drop",
                                               !.stage = "refresh", !.targets = targets]]
      BY <1>11, <2>2 DEF DiscardCommit
    <3> QED BY <1>1, <3>1 DEF Others, Disposes, Carries, CallType
  <2> QED BY <2>1, <2>2
<1>12. ASSUME NEW o \in Operations, DropCommit(c, o) PROVE Goal
  <2>1. CASE call[c].targets = {o} \/ Active(o)
    BY <1>2, <1>12, <2>1 DEF DropCommit, Return
  <2>2. CASE ~(call[c].targets = {o} \/ Active(o))
    <3>1. PICK targets : call' = [call EXCEPT ![c] = [call[c] EXCEPT
                                               !.stage = "refresh", !.targets = targets]]
      BY <1>12, <2>2 DEF DropCommit
    <3>2. call[c].stage = "commit"
      BY <1>12 DEF DropCommit, Committing
    <3> QED BY <1>1, <3>1, <3>2 DEF Others, GoesOn, Carries, KeepsProof, CallType
  <2> QED BY <2>1, <2>2
<1>13. ASSUME GiveUp(c) PROVE Goal
  BY <1>2, <1>3, <1>7, <1>13 DEF GiveUp, Return
<1> QED BY <1>4, <1>5, <1>6, <1>8, <1>9, <1>10, <1>11, <1>12, <1>13 DEF Proceed

-----------------------------------------------------------------------------
(* What a step does to the records                                         *)

OthersKeptOperations(o) == \A p \in Operations \ {o} : operations'[p] = operations[p]
OthersKeptGrants(g) == \A h \in Grants \ {g} : grants'[h] = grants[h]

\* An operation's record changes state, and nothing but its invocation.
MovesOperation(o, state) ==
    /\ operations'[o].state = state
    /\ operations'[o].generation = operations[o].generation
    /\ operations'[o].grant = operations[o].grant

MovesGrant(g, state) ==
    /\ grants'[g].state = state
    /\ grants'[g].command = grants[g].command /\ grants'[g].version = grants[g].version
    /\ grants'[g].operation = grants[g].operation
    /\ grants'[g].generation = grants[g].generation
    /\ grants'[g].revoked = grants[g].revoked /\ grants'[g].request = grants[g].request

\* Both records of specific consent move together.
MovesBoth(c, state) ==
    LET g == call[c].grant
        o == call[c].operation IN
    /\ g \in Grants /\ o \in Operations
    /\ MovesGrant(g, state) /\ OthersKeptGrants(g) /\ OthersKeptOperations(o)
    /\ IF operations[o].state \in Unwritten THEN operations'[o] = operations[o]
       ELSE /\ MovesOperation(o, state)
            /\ state \in ActiveOperation => operations'[o].invocation = grants'[g].invocation

RecordsKept == UNCHANGED <<operations, grants>>

LEMMA MarkMoves ==
    ASSUME TypeOK, NEW c \in Clients, NEW state, Mark(state, c),
           call[c].grant \in Grants, call[c].operation \in Operations,
           operations[call[c].operation].state \notin Unwritten
    PROVE  MovesBoth(c, state)
<1> DEFINE g == call[c].grant
           o == call[c].operation
           i == call[c].invocation
<1>1. operations \in [Operations -> OperationType] /\ grants \in [Grants -> GrantType]
  BY DEF TypeOK, OperationType, GrantType
<1>2. grants' = [grants EXCEPT ![g] = [grants[g] EXCEPT !.state = state, !.invocation = i]]
  BY DEF Mark
<1>3. operations' = [operations EXCEPT ![o] = [operations[o] EXCEPT !.state = state, !.invocation = i]]
  BY DEF Mark
<1> HIDE DEF g, o, i
<1>4. g \in Grants /\ o \in Operations
  BY DEF g, o
<1>5. MovesGrant(g, state) /\ OthersKeptGrants(g) /\ grants'[g].invocation = i
  BY <1>1, <1>2, <1>4 DEF MovesGrant, OthersKeptGrants, GrantType
<1>6. MovesOperation(o, state) /\ OthersKeptOperations(o) /\ operations'[o].invocation = i
  BY <1>1, <1>3, <1>4 DEF MovesOperation, OthersKeptOperations, OperationType
<1> QED BY <1>4, <1>5, <1>6 DEF MovesBoth, g, o, i

LEMMA FollowMoves ==
    ASSUME TypeOK, NEW o \in Operations, NEW state, NEW i, Follow(o, state, i)
    PROVE  /\ OthersKeptOperations(o)
           /\ IF operations[o].state \in Unwritten THEN operations'[o] = operations[o]
              ELSE MovesOperation(o, state) /\ operations'[o].invocation = i
<1>1. operations \in [Operations -> OperationType]
  BY DEF TypeOK, OperationType
<1>2. CASE operations[o].state \in Unwritten
  BY <1>1, <1>2 DEF Follow, OthersKeptOperations
<1>3. CASE operations[o].state \notin Unwritten
  <2>1. operations' = [operations EXCEPT ![o] = [operations[o] EXCEPT !.state = state, !.invocation = i]]
    BY <1>3 DEF Follow
  <2> QED BY <1>1, <1>3, <2>1 DEF OthersKeptOperations, MovesOperation, OperationType
<1> QED BY <1>2, <1>3

LEMMA ReserveMoves ==
    ASSUME TypeOK, NEW c \in Clients, ReserveCommit(c)
    PROVE  IF Basis(c) = "operation"
           THEN /\ MovesBoth(c, "reserved")
                /\ grants[call[c].grant].operation = call[c].operation
                /\ operations[call[c].operation].grant = call[c].grant
                /\ operations[call[c].operation].generation = context.generation
                /\ operations[call[c].operation].state = "authorised"
                /\ grants[call[c].grant].state = "authorised"
           ELSE RecordsKept
<1>1. CASE Basis(c) = "operation"
  <2>1. /\ ValidGrant(c, call[c].grant, call[c].command) /\ call[c].operation # None
        /\ call[c].grant \in Grants /\ call[c].operation \in Operations
    BY <1>1 DEF ReserveCommit, MayReserve, Basis, Scope, ValidGrant, TypeOK, CallType
  <2>2. /\ grants[call[c].grant].operation = call[c].operation
        /\ operations[call[c].operation].grant = call[c].grant
        /\ operations[call[c].operation].generation = context.generation
        /\ operations[call[c].operation].state = "authorised"
        /\ grants[call[c].grant].state = "authorised"
    BY <1>1, <2>1 DEF ReserveCommit, MayReserve, PointerStands, Pointer, ValidGrant
  <2>3. Mark("reserved", c)
    BY <1>1 DEF ReserveCommit
  <2> QED BY <1>1, <2>1, <2>2, <2>3, MarkMoves DEF Unwritten
<1>2. CASE Basis(c) # "operation"
  BY <1>2 DEF ReserveCommit, RecordsKept
<1> QED BY <1>1, <1>2

LEMMA EnterMoves ==
    ASSUME TypeOK, CallInv, NEW c \in Clients, EnterCommit(c)
    PROVE  IF call[c].basis = "operation"
           THEN MovesBoth(c, "entered") /\ Holds(c) /\ StillReserved(c)
           ELSE RecordsKept
<1>1. CASE call[c].basis = "operation"
  <2>1. Holds(c) /\ StillReserved(c) /\ Mark("entered", c)
    BY <1>1 DEF EnterCommit, MayEnter, Committing, CallInv, Admitted
  <2> QED BY <1>1, <2>1, MarkMoves DEF Holds, StillReserved
<1>2. CASE call[c].basis # "operation"
  BY <1>2 DEF EnterCommit, RecordsKept
<1> QED BY <1>1, <1>2

LEMMA FinishMoves ==
    ASSUME TypeOK, CallInv, NEW c \in Clients, FinishCommit(c)
    PROVE  \/ RecordsKept
           \/ /\ Holds(c) /\ grants[call[c].grant].state \in {"entered", "spent"}
              /\ MovesBoth(c, "spent")
<1>1. CASE UNCHANGED <<grants, operations>>
  BY <1>1 DEF RecordsKept
<1>2. CASE ~UNCHANGED <<grants, operations>>
  <2> DEFINE g == call[c].grant
             o == call[c].operation
  <2>1. Holds(c)
    BY DEF FinishCommit, Committing, CallInv, Admitted
  <2>2. g \in Grants /\ o \in Operations /\ grants \in [Grants -> GrantType]
    BY <2>1 DEF Holds, TypeOK, GrantType
  <2>3. /\ grants[g].state \in {"entered", "spent"}
        /\ grants' = [grants EXCEPT ![g] = [grants[g] EXCEPT !.state = "spent"]]
        /\ Follow(o, "spent", operations[o].invocation)
    BY <1>2 DEF FinishCommit
  <2>4. /\ OthersKeptOperations(o)
        /\ IF operations[o].state \in Unwritten THEN operations'[o] = operations[o]
           ELSE MovesOperation(o, "spent")
    BY <2>2, <2>3, FollowMoves
  <2> HIDE DEF g, o
  <2>5. MovesGrant(g, "spent") /\ OthersKeptGrants(g)
    BY <2>2, <2>3 DEF MovesGrant, OthersKeptGrants, GrantType
  <2> QED BY <2>1, <2>2, <2>3, <2>4, <2>5 DEF MovesBoth, ActiveOperation, g, o
<1> QED BY <1>1, <1>2

LEMMA CancelMoves ==
    ASSUME TypeOK, CallInv, NEW c \in Clients, CancelCommit(c)
    PROVE  \/ RecordsKept
           \/ /\ Holds(c) /\ grants[call[c].grant].state = "reserved"
              /\ \/ MovesBoth(c, "revoked")
                 \/ MovesBoth(c, "authorised") /\ SameGeneration(c) /\ ~grants[call[c].grant].revoked
<1>1. CASE UNCHANGED <<grants, operations>>
  BY <1>1 DEF RecordsKept
<1>2. CASE ~UNCHANGED <<grants, operations>>
  <2> DEFINE g == call[c].grant
             o == call[c].operation
  <2>1. Holds(c)
    BY DEF CancelCommit, Committing, CallInv, Admitted
  <2>2. g \in Grants /\ o \in Operations /\ grants \in [Grants -> GrantType]
    BY <2>1 DEF Holds, TypeOK, GrantType
  <2>3. PICK state \in {"authorised", "revoked"} :
          /\ state = "authorised" => SameGeneration(c) /\ ~grants[g].revoked
          /\ grants[g].state = "reserved"
          /\ grants' = [grants EXCEPT ![g] = [grants[g] EXCEPT !.state = state, !.invocation = None]]
          /\ Follow(o, state, None)
    BY <1>2 DEF CancelCommit
  <2>4. /\ OthersKeptOperations(o)
        /\ IF operations[o].state \in Unwritten THEN operations'[o] = operations[o]
           ELSE MovesOperation(o, state) /\ operations'[o].invocation = None
    BY <2>2, <2>3, FollowMoves
  <2> HIDE DEF g, o
  <2>5. MovesGrant(g, state) /\ OthersKeptGrants(g) /\ grants'[g].invocation = None
    BY <2>2, <2>3 DEF MovesGrant, OthersKeptGrants, GrantType
  <2>6. MovesBoth(c, state)
    BY <2>2, <2>4, <2>5 DEF MovesBoth, g, o
  <2> QED BY <2>1, <2>3, <2>6 DEF g
<1> QED BY <1>1, <1>2

-----------------------------------------------------------------------------
(***************************************************************************)
(* The invariant is inductive: each kind of transaction keeps an operation *)
(* and its grant together, each step keeps what a call remembers true, and *)
(* so no invocation has two effects.  Two more on top of it: what a        *)
(* request id was answered (RequestInv), and the configuration that an     *)
(* admission was judged by (AuthorityInv).                                 *)
(***************************************************************************)

\* The invariants that speak of the records alone.
RecordInv == OperationInv /\ GrantInv /\ GrantMatchesOperation

\* What the records need of the context: its generation.
SameContext ==
    context'.generation = context.generation /\ context'.contract = context.contract

LEMMA CommitsSameContext ==
    ASSUME ConsentAssumption, IInv, NEW c \in Clients, Commits(c)
    PROVE  SameContext
BY ContextStep DEF Loose, SameContext

LEMMA RecordsFunctions ==
    ASSUME TypeOK
    PROVE  /\ operations \in [Operations -> OperationType] /\ grants \in [Grants -> GrantType]
           /\ context.generation \in Nat /\ context.contract \in Nat
           /\ uses \in [Operations -> Nat] /\ call \in [Clients -> CallType]
BY DEF TypeOK, OperationType, GrantType

-----------------------------------------------------------------------------
(* What the other transactions do to the records                           *)

Prepares(o) ==
    /\ o \in Operations /\ operations[o].state = "absent"
    /\ operations'[o].state = "prepared"
    /\ operations'[o].grant = None /\ operations'[o].invocation = None
    /\ operations'[o].generation = context.generation
    /\ OthersKeptOperations(o) /\ grants' = grants

LEMMA PrepareMoves ==
    ASSUME TypeOK, FreshHeld, NEW c \in Clients, PrepareCommit(c)
    PROVE  Prepares(call[c].operation)
<1> DEFINE o == call[c].operation
<1>1. o \in Operations /\ operations[o].state = "absent"
  BY DEF FreshHeld, PrepareCommit, Committing
<1>2. operations' = [operations EXCEPT ![o] =
                       [NoOperation EXCEPT !.state = "prepared", !.generation = context.generation]]
  BY DEF PrepareCommit
<1>3. grants' = grants
  BY DEF PrepareCommit
<1> DEFINE p == [NoOperation EXCEPT !.state = "prepared", !.generation = context.generation]
<1>4. /\ p.state = "prepared" /\ p.generation = context.generation
      /\ p.grant = None /\ p.invocation = None
  BY DEF NoOperation
<1> HIDE DEF o, p
<1>5. operations' = [operations EXCEPT ![o] = p]
  BY <1>2 DEF p
<1> QED BY <1>1, <1>3, <1>4, <1>5, RecordsFunctions
       DEF Prepares, OthersKeptOperations, o

\* A new grant g, and for specific consent its operation.
Authorises(c, g, o) ==
    /\ g \in Grants /\ grants[g].state = "absent" /\ OthersKeptGrants(g)
    /\ grants'[g].state = "authorised" /\ grants'[g].operation = o /\ ~grants'[g].revoked
    /\ grants'[g].command = call[c].command /\ grants'[g].version = context.contract
    /\ grants'[g].generation = context.generation /\ grants'[g].invocation = None
    /\ grants'[g].request = call[c].request
    /\ IF o = None THEN operations' = operations
       ELSE /\ o \in Operations /\ operations[o].generation = context.generation
            /\ operations[o].state \in {"prepared", "authorised"}
            /\ operations'[o].state = "authorised" /\ operations'[o].grant = g
            /\ operations'[o].generation = operations[o].generation
            /\ operations'[o].invocation = operations[o].invocation
            /\ OthersKeptOperations(o) /\ call[c].command = CommandOf[o]

LEMMA AuthoriseMoves ==
    ASSUME TypeOK, FreshHeld, CallInv, NEW c \in Clients, RequestCommit(c), Authorise(c)
    PROVE  Authorises(c, call[c].fresh, call[c].operation)
<1> DEFINE g == call[c].fresh
           o == call[c].operation
<1>1. g \in Grants /\ grants[g].state = "absent"
  BY DEF FreshHeld, RequestCommit, Committing
<1> DEFINE p == [state |-> "authorised", command |-> call[c].command,
                 version |-> Contract[c], operation |-> o,
                 generation |-> context.generation, request |-> call[c].request,
                 invocation |-> None, revoked |-> FALSE]
<1>2. /\ grants' = [grants EXCEPT ![g] = p]
      /\ p.state = "authorised" /\ p.operation = o /\ ~p.revoked
      /\ p.command = call[c].command /\ p.version = Contract[c]
      /\ p.generation = context.generation /\ p.invocation = None
      /\ p.request = call[c].request
  BY DEF Authorise
<1> HIDE DEF p
<1>3. context.contract = Contract[c]
  BY DEF RequestCommit, Committing, Current
<1>4. CASE o = None
  <2>1. operations' = operations
    BY <1>4 DEF Authorise
  <2> HIDE DEF g, o
  <2> QED BY <1>1, <1>2, <1>3, <1>4, <2>1, RecordsFunctions DEF Authorises, OthersKeptGrants, g, o
<1>5. CASE o # None
  <2>1. /\ o \in Operations /\ operations[o].generation = context.generation
        /\ operations[o].state \in {"prepared", "authorised"}
        /\ call[c].command = CommandOf[o]
    BY <1>5 DEF RequestCommit, Committing, MayRequest, TypeOK, CallType, CallInv
  <2>2. operations' = [operations EXCEPT ![o] = [operations[o] EXCEPT !.state = "authorised",
                                                                     !.grant = g]]
    BY <1>5 DEF Authorise
  <2> HIDE DEF g, o
  <2>3. /\ operations'[o].state = "authorised" /\ operations'[o].grant = g
        /\ operations'[o].generation = operations[o].generation
        /\ operations'[o].invocation = operations[o].invocation
        /\ OthersKeptOperations(o)
    BY <2>1, <2>2, RecordsFunctions DEF OthersKeptOperations, OperationType
  <2>4. /\ OthersKeptGrants(g) /\ grants'[g].state = "authorised" /\ grants'[g].operation = o
        /\ ~grants'[g].revoked /\ grants'[g].command = call[c].command
        /\ grants'[g].version = context.contract
        /\ grants'[g].generation = context.generation /\ grants'[g].invocation = None
        /\ grants'[g].request = call[c].request
    BY <1>1, <1>2, <1>3, RecordsFunctions DEF OthersKeptGrants
  <2> QED BY <1>1, <1>5, <2>1, <2>3, <2>4 DEF Authorises, g, o
<1> QED BY <1>4, <1>5

\* The operations of a set change state, the others are kept.
Sets(S, state) ==
    \A o \in Operations :
        IF o \in S THEN /\ o \in LiveOperations /\ MovesOperation(o, state)
                        /\ operations'[o].invocation = operations[o].invocation
        ELSE operations'[o] = operations[o]

LEMMA DiscardMoves ==
    ASSUME TypeOK, NEW c \in Clients, DiscardCommit(c)
    PROVE  /\ Sets(Closing(c), "discarding") /\ grants' = grants
           /\ \A o \in Closing(c) : operations[o].state \notin ActiveOperation
<1> DEFINE S == Closing(c)
<1>1. operations' = [o \in Operations |-> IF o \in S THEN [operations[o] EXCEPT !.state = "discarding"]
                                          ELSE operations[o]]
  BY DEF DiscardCommit
<1>2. S \subseteq LiveOperations
  BY DEF Closing
<1> HIDE DEF S
<1>3. Sets(S, "discarding")
  BY <1>1, <1>2, RecordsFunctions DEF Sets, MovesOperation, OperationType
<1> QED BY <1>3 DEF DiscardCommit, MayDiscard, S

Drops(o) ==
    /\ o \in Operations /\ o \in LiveOperations /\ ~Active(o)
    /\ operations'[o].state = "gone" /\ operations'[o].generation = 0
    /\ OthersKeptOperations(o) /\ grants' = grants

LEMMA DropMoves ==
    ASSUME TypeOK, NEW c \in Clients, NEW o \in Operations, DropCommit(c, o)
    PROVE  RecordsKept \/ Drops(o)
<1>1. CASE o \in LiveOperations /\ ~Active(o)
  <2>1. operations' = [operations EXCEPT ![o] = [NoOperation EXCEPT !.state = "gone"]]
    BY <1>1 DEF DropCommit
  <2> QED BY <1>1, <2>1, RecordsFunctions DEF Drops, OthersKeptOperations, NoOperation, DropCommit
<1>2. CASE ~(o \in LiveOperations /\ ~Active(o))
  BY <1>2 DEF DropCommit, RecordsKept
<1> QED BY <1>1, <1>2

\* A reduction deletes the grants of removed, revokes those of marked.
Reduces(removed, marked) ==
    /\ removed \subseteq LiveGrants /\ removed \cap InUse = {} /\ marked \subseteq InUse
    /\ \A g \in Grants :
         /\ g \in removed => grants'[g].state = "gone"
         /\ g \in marked =>
              /\ grants'[g].revoked /\ grants'[g].state = grants[g].state
              /\ grants'[g].operation = grants[g].operation
              /\ grants'[g].command = grants[g].command
              /\ grants'[g].version = grants[g].version
              /\ grants'[g].generation = grants[g].generation
              /\ grants'[g].invocation = grants[g].invocation
              /\ grants'[g].request = grants[g].request
         /\ g \notin removed \cup marked => grants'[g] = grants[g]
    /\ Sets({o \in LiveOperations : operations[o].grant \in removed}, "revoked")

LEMMA ReduceMoves ==
    ASSUME TypeOK, NEW c \in Clients, ReduceCommit(c)
    PROVE  Reduces(Removed(c), call[c].targets \cap InUse)
<1> DEFINE removed == Removed(c)
           marked == call[c].targets \cap InUse
           S == {o \in LiveOperations : operations[o].grant \in removed}
<1>1. removed \subseteq LiveGrants /\ removed \cap InUse = {} /\ marked \subseteq InUse
  BY DEF Removed
<1>2. grants' = [g \in Grants |-> IF g \in removed THEN GrantRemains
                                  ELSE IF g \in marked THEN [grants[g] EXCEPT !.revoked = TRUE]
                                  ELSE grants[g]]
  BY DEF ReduceCommit
<1>3. operations' = [o \in Operations |-> IF o \in S THEN [operations[o] EXCEPT !.state = "revoked"]
                                          ELSE operations[o]]
  BY DEF ReduceCommit
<1>4. S \subseteq LiveOperations
  OBVIOUS
<1> HIDE DEF removed, marked, S
<1>5. Sets(S, "revoked")
  BY <1>3, <1>4, RecordsFunctions DEF Sets, MovesOperation, OperationType
<1>6. \A g \in Grants : g \in removed => grants'[g].state = "gone"
  BY <1>2 DEF GrantRemains, NoGrant
<1>7. \A g \in Grants : g \notin removed \cup marked => grants'[g] = grants[g]
  BY <1>2
<1>8. ASSUME NEW g \in Grants, g \in marked
      PROVE  /\ grants'[g].revoked
             /\ grants'[g].state = grants[g].state
             /\ grants'[g].operation = grants[g].operation
             /\ grants'[g].command = grants[g].command
             /\ grants'[g].version = grants[g].version
             /\ grants'[g].generation = grants[g].generation
             /\ grants'[g].invocation = grants[g].invocation
             /\ grants'[g].request = grants[g].request
  <2>1. g \notin removed
    BY <1>1, <1>8
  <2>2. grants'[g] = [grants[g] EXCEPT !.revoked = TRUE]
    BY <1>2, <1>8, <2>1
  <2> QED BY <2>2, RecordsFunctions DEF GrantType
<1> QED BY <1>1, <1>5, <1>6, <1>7, <1>8 DEF Reduces, S, removed, marked
-----------------------------------------------------------------------------
(* Each kind of transaction keeps a grant and its operation together       *)

LEMMA RecordsKeptInv ==
    ASSUME RecordInv, RecordsKept, UNCHANGED uses, SameContext
    PROVE  RecordInv'
BY DEF RecordInv, RecordsKept, SameContext, OperationInv, GrantInv, GrantMatchesOperation,
       LiveGrants

\* Nobody's grant names an operation that has not been granted.
LEMMA Ungranted ==
    ASSUME ConsentAssumption, TypeOK, RecordInv, NEW o \in Operations,
           operations[o].state \in {"absent", "prepared"}
    PROVE  \A g \in LiveGrants : grants[g].operation # o
BY DEF RecordInv, OperationInv, GrantMatchesOperation, LiveGrants, ConsentAssumption

LEMMA PrepareInv ==
    ASSUME ConsentAssumption, TypeOK, RecordInv, NEW o, Prepares(o), UNCHANGED uses, SameContext
    PROVE  RecordInv'
<1>0. /\ o \in Operations /\ operations[o].state = "absent" /\ grants' = grants
      /\ LiveGrants' = LiveGrants
      /\ \A p \in Operations \ {o} : operations'[p] = operations[p]
      /\ \A g \in LiveGrants : grants[g].operation \in Operations \cup {None}
  BY RecordsFunctions DEF Prepares, OthersKeptOperations, LiveGrants, GrantType
<1>1. OperationInv'
  <2>1. /\ operations'[o].state = "prepared"
        /\ operations'[o].grant = None /\ operations'[o].invocation = None
        /\ operations'[o].generation <= context'.generation
    BY RecordsFunctions DEF Prepares, SameContext
  <2>2. ~(uses'[o] > 0)
    BY <1>0 DEF RecordInv, OperationInv
  <2> QED BY <1>0, <2>1, <2>2 DEF RecordInv, SameContext, OperationInv
<1>2. \A g \in LiveGrants : grants[g].operation # o
  BY <1>0, Ungranted
<1>3. GrantInv'
  <2>1. ASSUME NEW g \in Grants, g \in LiveGrants, grants[g].operation # None
        PROVE  operations'[grants[g].operation] = operations[grants[g].operation]
    BY <1>0, <1>2, <2>1
  <2> QED BY <1>0, <2>1 DEF RecordInv, SameContext, GrantInv, LiveGrants
<1>4. GrantMatchesOperation'
  BY <1>0, <1>2 DEF RecordInv, GrantMatchesOperation
<1> QED BY <1>1, <1>3, <1>4 DEF RecordInv
\* An operation that is authorised has a grant that would be reused: a new one
\* is only ever for an operation without.
LEMMA NewForPrepared ==
    ASSUME ConsentAssumption, TypeOK, RecordInv, CallInv, NEW c \in Clients,
           RequestCommit(c), Authorise(c), call[c].operation # None
    PROVE  operations[call[c].operation].state = "prepared"
<1> DEFINE o == call[c].operation
           g == operations[o].grant
<1>1. /\ o \in Operations /\ operations[o].generation = context.generation
      /\ operations[o].state \in {"prepared", "authorised"} /\ g = call[c].grant
      /\ call[c].command = CommandOf[o] /\ context.contract = Contract[c]
  BY DEF RequestCommit, Committing, Current, MayRequest, PointerStands, Pointer, TypeOK,
         CallType, CallInv
<1>2. ~Reusable(c)
  BY DEF Authorise
<1>3. CASE operations[o].state = "authorised"
  <2>1. g \in Grants /\ grants[g].state = "authorised" /\ grants[g].operation = o
    BY <1>1, <1>3 DEF RecordInv, OperationInv
  <2>2. o # None /\ g # None
    BY <1>1, <2>1 DEF ConsentAssumption
  <2>3. /\ ~grants[g].revoked /\ grants[g].command = CommandOf[o]
        /\ grants[g].generation = context.generation
        /\ grants[g].version = context.contract
    <3> HIDE DEF g
    <3>1. grants[g].state \notin Unwritten /\ operations[o].state # "gone"
      BY <1>3, <2>1 DEF Unwritten
    <3>2. GrantInv
      BY DEF RecordInv
    <3>3. ~grants[g].revoked /\ grants[g].command = CommandOf[o]
      BY <2>1, <2>2, <3>1, <3>2 DEF GrantInv
    <3>4. grants[g].generation = context.generation
      BY <1>1, <2>1, <2>2, <3>1, <3>2 DEF GrantInv
    <3> QED BY <2>1, <3>1, <3>2, <3>3, <3>4 DEF GrantInv
  <2> QED BY <1>1, <1>2, <2>1, <2>2, <2>3 DEF Reusable, ValidGrant
<1> QED BY <1>1, <1>3

LEMMA AuthoriseInv ==
    ASSUME ConsentAssumption, TypeOK, RecordInv, NEW c \in Clients, NEW g, NEW o,
           Authorises(c, g, o), o # None => operations[o].state = "prepared",
           UNCHANGED uses, SameContext
    PROVE  RecordInv'
<1>0. /\ g \in Grants /\ grants[g].state = "absent"
      /\ \A h \in Grants \ {g} : grants'[h] = grants[h]
      /\ LiveGrants' = LiveGrants \cup {g} /\ g \notin LiveGrants
      /\ \A h \in LiveGrants : grants[h].operation \in Operations \cup {None}
  BY RecordsFunctions DEF Authorises, OthersKeptGrants, LiveGrants, GrantType, Unwritten
<1>1. /\ grants'[g].state = "authorised" /\ grants'[g].operation = o /\ ~grants'[g].revoked
      /\ grants'[g].version = context.contract
      /\ grants'[g].generation = context.generation /\ grants'[g].invocation = None
  BY DEF Authorises
\* No operation pointed to the new grant in a way that matters.
<1>2. \A p \in Operations : operations[p].state \in {"authorised", "reserved"} =>
        operations[p].grant \in Grants \ {g}
  BY <1>0 DEF RecordInv, OperationInv
<1>3. CASE o = None
  <2>1. operations' = operations
    BY <1>3 DEF Authorises
  <2>2. OperationInv'
    BY <1>0, <1>2, <2>1 DEF RecordInv, OperationInv, SameContext
  <2>3. GrantInv'
    <3>1. \A h \in Grants \ {g} : grants'[h] = grants[h]
      BY <1>0
    <3> QED BY <1>1, <1>3, <2>1, <3>1, RecordsFunctions DEF RecordInv, GrantInv, SameContext
  <2>4. GrantMatchesOperation'
    <3>1. \A h \in LiveGrants : grants'[h] = grants[h]
      BY <1>0 DEF LiveGrants
    <3>2. ASSUME NEW h \in LiveGrants, grants[h].operation # None
          PROVE  LET p == grants'[h].operation IN
                 /\ operations'[p].grant = h \/ operations'[p].state = "gone"
                 /\ grants'[h].state \in ActiveOperation =>
                      /\ operations'[p].state = grants'[h].state
                      /\ operations'[p].invocation = grants'[h].invocation
                 /\ operations'[p].state \in ActiveOperation => grants'[h].state = operations'[p].state
      <4>1. grants'[h] = grants[h]
        BY <3>1
      <4> QED BY <2>1, <3>2, <4>1 DEF RecordInv, GrantMatchesOperation
    <3>3. \A h \in LiveGrants' : grants'[h].operation # None =>
            h \in LiveGrants /\ grants[h].operation # None
      BY <1>0, <1>1, <1>3, <3>1
    <3> QED BY <3>2, <3>3 DEF GrantMatchesOperation
  <2> QED BY <2>2, <2>3, <2>4 DEF RecordInv
<1>4. CASE o # None
  <2>1. /\ o \in Operations /\ operations[o].generation = context.generation
        /\ operations[o].state = "prepared"
        /\ \A p \in Operations \ {o} : operations'[p] = operations[p]
        /\ operations'[o].state = "authorised" /\ operations'[o].grant = g
        /\ operations'[o].generation = context.generation
        /\ operations'[o].invocation = operations[o].invocation
        /\ grants'[g].command = CommandOf[o]
    BY <1>4 DEF Authorises, OthersKeptOperations
  <2>2. \A h \in LiveGrants : grants[h].operation # o
    BY <2>1, Ungranted
  <2>3. OperationInv'
    <3>1. ~(uses'[o] > 0) /\ operations'[o].generation <= context'.generation
      <4>1. ~(uses[o] > 0) /\ operations[o].generation <= context.generation
        BY <2>1 DEF RecordInv, OperationInv
      <4> QED BY <2>1, <4>1 DEF SameContext
    <3>2. /\ operations'[o].grant \in Grants
          /\ grants'[operations'[o].grant].state = operations'[o].state
          /\ grants'[operations'[o].grant].operation = o
      BY <1>0, <1>1, <2>1
    <3>3. ASSUME NEW p \in Operations \ {o}
          PROVE  /\ operations'[p].state \in {"absent", "prepared"} =>
                      operations'[p].grant = None /\ operations'[p].invocation = None
                 /\ uses'[p] > 0 =>
                      operations'[p].state \in {"entered", "spent", "revoked", "discarding", "gone"}
                 /\ operations'[p].generation <= context'.generation
      BY <2>1, <3>3 DEF RecordInv, OperationInv, SameContext
    <3>4. ASSUME NEW p \in Operations \ {o}, operations'[p].state \in {"authorised", "reserved"}
          PROVE  /\ operations'[p].grant \in Grants
                 /\ grants'[operations'[p].grant].state = operations'[p].state
                 /\ grants'[operations'[p].grant].operation = p
      <4>1. operations'[p] = operations[p] /\ operations[p].grant \in Grants \ {g}
        BY <1>2, <2>1, <3>4
      <4>2. grants'[operations[p].grant] = grants[operations[p].grant]
        BY <1>0, <4>1
      <4> QED BY <3>4, <4>1, <4>2 DEF RecordInv, OperationInv
    <3>5. operations'[o].state \notin {"absent", "prepared"}
      BY <2>1
    <3> QED BY <3>1, <3>2, <3>3, <3>4, <3>5 DEF OperationInv
  <2>4. GrantInv'
    <3>1. ASSUME NEW h \in Grants \ {g}, h \in LiveGrants, grants[h].operation # None
          PROVE  operations'[grants[h].operation] = operations[grants[h].operation]
      BY <1>0, <2>1, <2>2, <3>1
    <3>2. \A h \in Grants \ {g} : grants'[h] = grants[h]
      BY <1>0
    <3> QED BY <1>1, <2>1, <3>1, <3>2, RecordsFunctions
            DEF RecordInv, GrantInv, SameContext, LiveGrants
  <2>5. GrantMatchesOperation'
    <3>1. operations[o].invocation = None
      BY <2>1 DEF RecordInv, OperationInv
    <3>2. \A h \in LiveGrants : grants'[h] = grants[h]
      BY <1>0 DEF LiveGrants
    <3>3. ASSUME NEW h \in LiveGrants, grants[h].operation # None
          PROVE  operations'[grants[h].operation] = operations[grants[h].operation]
      BY <1>0, <2>1, <2>2, <3>3
    <3>4. \A h \in LiveGrants : grants'[h].operation # None =>
            LET p == grants'[h].operation IN
            /\ operations'[p].grant = h \/ operations'[p].state = "gone"
            /\ grants'[h].state \in ActiveOperation =>
                 /\ operations'[p].state = grants'[h].state
                 /\ operations'[p].invocation = grants'[h].invocation
            /\ operations'[p].state \in ActiveOperation => grants'[h].state = operations'[p].state
      BY <3>2, <3>3 DEF RecordInv, GrantMatchesOperation
    <3> QED BY <1>0, <1>1, <2>1, <3>1, <3>4 DEF GrantMatchesOperation
  <2> QED BY <2>3, <2>4, <2>5 DEF RecordInv
<1> QED BY <1>3, <1>4

\* The two records of specific consent move together.
LEMMA MovesInv ==
    ASSUME ConsentAssumption, TypeOK, RecordInv, NEW c \in Clients, NEW g, NEW o,
           g = call[c].grant, o = call[c].operation,
           NEW state \in {"authorised", "reserved", "entered", "spent", "revoked"},
           MovesBoth(c, state), g \in LiveGrants, grants[g].operation = o,
           state = "authorised" => ~grants[g].revoked,
           state \in ActiveOperation => operations[o].state \in {"authorised", "reserved"},
           \A p \in Operations \ {o} : uses'[p] = uses[p],
           state \in {"authorised", "reserved"} => uses'[o] = uses[o],
           SameContext
    PROVE  RecordInv'
<1>0. /\ g \in Grants /\ o \in Operations
      /\ MovesGrant(g, state)
      /\ \A h \in Grants \ {g} : grants'[h] = grants[h]
      /\ \A p \in Operations \ {o} : operations'[p] = operations[p]
      /\ IF operations[o].state \in Unwritten THEN operations'[o] = operations[o]
         ELSE /\ MovesOperation(o, state)
              /\ state \in ActiveOperation => operations'[o].invocation = grants'[g].invocation
  BY DEF MovesBoth, OthersKeptGrants, OthersKeptOperations
<1>1. LiveGrants' = LiveGrants
  <2>1. grants[g].state \notin Unwritten /\ grants'[g].state \notin Unwritten
    <3>1. grants[g].state \notin Unwritten
      BY <1>0 DEF LiveGrants
    <3>2. grants'[g].state = state
      BY <1>0 DEF MovesGrant
    <3>3. state \notin Unwritten
      BY <1>0 DEF Unwritten
    <3> QED BY <3>1, <3>2, <3>3
  <2>2. \A h \in Grants : (grants'[h].state \notin Unwritten) = (grants[h].state \notin Unwritten)
    BY <1>0, <2>1
  <2> QED BY <2>2 DEF LiveGrants
<1>2. o # None /\ operations[o].state \notin {"absent", "prepared"}
  BY <1>0, Ungranted DEF ConsentAssumption
<1>3. operations[o].grant = g \/ operations[o].state = "gone"
  BY <1>2 DEF RecordInv, GrantMatchesOperation
<1>4. \/ operations[o].state = "gone" /\ operations'[o] = operations[o] /\ state \notin ActiveOperation
      \/ /\ operations[o].state # "gone" /\ operations[o].grant = g /\ operations'[o].grant = g
         /\ operations'[o].state = state
         /\ operations'[o].generation = operations[o].generation
         /\ state \in ActiveOperation => operations'[o].invocation = grants'[g].invocation
  BY <1>0, <1>2, <1>3 DEF MovesOperation, Unwritten
<1>5. OperationInv'
  <2>1. ASSUME NEW p \in Operations \ {o}, operations[p].state \in {"authorised", "reserved"}
        PROVE  operations[p].grant \in Grants \ {g}
    BY <2>1 DEF RecordInv, OperationInv
  <2>2. uses'[o] > 0 => operations'[o].state \in {"entered", "spent", "revoked", "gone"}
    <3>1. state \in {"authorised", "reserved"} => ~(uses'[o] > 0)
      BY <1>0 DEF RecordInv, OperationInv, ActiveOperation
    <3> QED BY <1>4, <3>1
  <2>3. operations'[o].state \in {"authorised", "reserved"} =>
          /\ operations'[o].grant \in Grants
          /\ grants'[operations'[o].grant].state = operations'[o].state
          /\ grants'[operations'[o].grant].operation = o
    BY <1>0, <1>4 DEF MovesGrant
  <2>4. operations'[o].generation <= context'.generation
    BY <1>0, <1>4 DEF RecordInv, OperationInv, SameContext
  <2>5. operations'[o].state \notin {"absent", "prepared"}
    BY <1>2, <1>4
  <2>6. ASSUME NEW p \in Operations \ {o}
        PROVE  /\ operations'[p].state \in {"absent", "prepared"} =>
                    operations'[p].grant = None /\ operations'[p].invocation = None
               /\ operations'[p].state \in {"authorised", "reserved"} =>
                    /\ operations'[p].grant \in Grants
                    /\ grants'[operations'[p].grant].state = operations'[p].state
                    /\ grants'[operations'[p].grant].operation = p
               /\ uses'[p] > 0 =>
                    operations'[p].state \in {"entered", "spent", "revoked", "discarding", "gone"}
               /\ operations'[p].generation <= context'.generation
    BY <1>0, <2>1 DEF RecordInv, OperationInv, SameContext
  <2> QED BY <2>2, <2>3, <2>4, <2>5, <2>6 DEF OperationInv
<1>6. GrantInv'
  <2>1. \A p \in Operations : /\ operations'[p].generation = operations[p].generation
                              /\ operations'[p].state = "gone" <=> operations[p].state = "gone"
    BY <1>0, <1>4
  <2>2. \A h \in Grants : grants[h].operation \in Operations \cup {None}
    BY RecordsFunctions DEF GrantType
  <2>3. ASSUME NEW h \in Grants \ {g} 
        PROVE  /\ grants'[h].state = "authorised" => ~grants'[h].revoked
               /\ grants'[h].state \notin Unwritten =>
                    /\ grants'[h].generation <= context'.generation
                    /\ grants'[h].generation = context'.generation =>
                         grants'[h].version = context'.contract
                    /\ grants'[h].operation # None =>
                         /\ grants'[h].command = CommandOf[grants'[h].operation]
                         /\ operations'[grants'[h].operation].state # "gone" =>
                              operations'[grants'[h].operation].generation = grants'[h].generation
    BY <1>0, <2>1, <2>2 DEF RecordInv, GrantInv, SameContext
  <2>4. /\ grants'[g].state = "authorised" => ~grants'[g].revoked
        /\ grants'[g].generation <= context'.generation
        /\ grants'[g].generation = context'.generation => grants'[g].version = context'.contract
        /\ grants'[g].command = CommandOf[grants'[g].operation]
        /\ operations'[grants'[g].operation].state # "gone" =>
             operations'[grants'[g].operation].generation = grants'[g].generation
    <3>1. /\ grants[g].generation <= context.generation
          /\ grants[g].generation = context.generation => grants[g].version = context.contract
          /\ grants[g].command = CommandOf[o]
          /\ operations[o].state # "gone" => operations[o].generation = grants[g].generation
      BY <1>0, <1>2 DEF RecordInv, GrantInv, LiveGrants
    <3>2. /\ grants'[g].generation = grants[g].generation /\ grants'[g].version = grants[g].version
          /\ grants'[g].command = grants[g].command /\ grants'[g].operation = o
          /\ grants'[g].revoked = grants[g].revoked /\ grants'[g].state = state
      BY <1>0 DEF MovesGrant
    <3>3. context'.generation = context.generation /\ context'.contract = context.contract
      BY DEF SameContext
    <3>4. /\ operations'[o].generation = operations[o].generation
          /\ operations'[o].state = "gone" <=> operations[o].state = "gone"
      BY <1>0, <2>1
    <3>5. grants'[g].state = "authorised" => ~grants'[g].revoked
      BY <3>2
    <3>6. /\ grants'[g].generation <= context'.generation
          /\ grants'[g].generation = context'.generation => grants'[g].version = context'.contract
      BY <3>1, <3>2, <3>3
    <3>7. /\ grants'[g].command = CommandOf[grants'[g].operation]
          /\ operations'[grants'[g].operation].state # "gone" =>
               operations'[grants'[g].operation].generation = grants'[g].generation
      BY <3>1, <3>2, <3>4
    <3> QED BY <3>5, <3>6, <3>7
  <2> QED BY <2>3, <2>4 DEF GrantInv
<1>7. GrantMatchesOperation'
  <2>1. ASSUME NEW h \in LiveGrants \ {g}, grants[h].operation # None
        PROVE  /\ grants'[h] = grants[h] 
               /\ operations'[grants[h].operation] = operations[grants[h].operation]
    <3>1. grants'[h] = grants[h] /\ grants[h].operation \in Operations
      BY <1>0, <2>1, RecordsFunctions DEF LiveGrants, GrantType
    <3>2. CASE grants[h].operation = o
      BY <1>4, <2>1, <3>1, <3>2 DEF RecordInv, GrantMatchesOperation
    <3> QED BY <1>0, <3>1, <3>2
  <2>2. \A h \in LiveGrants \ {g} : grants'[h] = grants[h]
    BY <1>0 DEF LiveGrants
  <2>3. ASSUME NEW h \in LiveGrants \ {g}, grants'[h].operation # None
        PROVE  LET p == grants'[h].operation IN
               /\ operations'[p].grant = h \/ operations'[p].state = "gone"
               /\ grants'[h].state \in ActiveOperation =>
                    /\ operations'[p].state = grants'[h].state
                    /\ operations'[p].invocation = grants'[h].invocation
               /\ operations'[p].state \in ActiveOperation => grants'[h].state = operations'[p].state
    BY <2>1, <2>2, <2>3 DEF RecordInv, GrantMatchesOperation
  <2>4. LET p == grants'[g].operation IN
        /\ operations'[p].grant = g \/ operations'[p].state = "gone"
        /\ grants'[g].state \in ActiveOperation =>
             /\ operations'[p].state = grants'[g].state
             /\ operations'[p].invocation = grants'[g].invocation
        /\ operations'[p].state \in ActiveOperation => grants'[g].state = operations'[p].state
    BY <1>0, <1>4 DEF MovesGrant, ActiveOperation
  <2> QED BY <1>1, <2>3, <2>4 DEF GrantMatchesOperation
<1> QED BY <1>5, <1>6, <1>7 DEF RecordInv

\* Operations that are in no one's use are closed, for disposal or for good.
LEMMA ClosedInv ==
    ASSUME ConsentAssumption, TypeOK, RecordInv, NEW S,
           \A o \in Operations :
              IF o \in S
              THEN /\ operations[o].state \notin ActiveOperation
                   /\ \/ operations'[o].state = "gone"
                      \/ /\ operations'[o].state = "discarding" /\ operations[o].state # "gone"
                         /\ operations'[o].grant = operations[o].grant
                         /\ operations'[o].generation = operations[o].generation
                   /\ operations'[o].generation <= context.generation
              ELSE operations'[o] = operations[o],
           UNCHANGED <<grants, uses>>, SameContext
    PROVE  RecordInv'
<1>1. \A g \in Grants : grants[g].operation \in Operations \cup {None}
  BY RecordsFunctions DEF GrantType
<1>2. LiveGrants' = LiveGrants
  BY DEF LiveGrants
<1>3. OperationInv'
  <2>1. ASSUME NEW o \in Operations, o \in S
        PROVE  /\ operations'[o].state \in {"discarding", "gone"}
               /\ operations'[o].generation <= context'.generation
    BY <2>1 DEF SameContext
  <2>2. ASSUME NEW o \in Operations, o \notin S PROVE operations'[o] = operations[o]
    BY <2>2
  <2> QED BY <2>1, <2>2 DEF RecordInv, OperationInv, SameContext
<1>4. GrantInv'
  <2>1. \A o \in Operations : operations'[o].state # "gone" =>
           operations[o].state # "gone" /\ operations'[o].generation = operations[o].generation
    OBVIOUS
  <2> QED BY <1>1, <2>1 DEF RecordInv, GrantInv, SameContext
<1>5. GrantMatchesOperation'
  <2>1. ASSUME NEW g \in LiveGrants, grants[g].operation # None
        PROVE  LET o == grants[g].operation IN
               /\ operations'[o].grant = g \/ operations'[o].state = "gone"
               /\ grants[g].state \in ActiveOperation =>
                    /\ operations'[o].state = grants[g].state
                    /\ operations'[o].invocation = grants[g].invocation
               /\ operations'[o].state \in ActiveOperation => grants[g].state = operations'[o].state
    <3> DEFINE o == grants[g].operation
    <3>1. o \in Operations
      BY <1>1, <2>1 DEF LiveGrants
    <3>2. /\ operations[o].grant = g \/ operations[o].state = "gone"
          /\ grants[g].state \in ActiveOperation =>
               /\ operations[o].state = grants[g].state
               /\ operations[o].invocation = grants[g].invocation
          /\ operations[o].state \in ActiveOperation => grants[g].state = operations[o].state
      BY <2>1 DEF RecordInv, GrantMatchesOperation
    <3> HIDE DEF o
    <3>3. CASE o \in S
      BY <3>1, <3>2, <3>3 DEF ActiveOperation, o
    <3>4. CASE o \notin S
      BY <3>1, <3>2, <3>4 DEF o
    <3> QED BY <3>3, <3>4
  <2> QED BY <1>2, <2>1 DEF GrantMatchesOperation
<1> QED BY <1>3, <1>4, <1>5 DEF RecordInv

LEMMA DiscardInv ==
    ASSUME ConsentAssumption, TypeOK, RecordInv, NEW c \in Clients, DiscardCommit(c), SameContext
    PROVE  RecordInv'
<1> DEFINE S == Closing(c)
<1>1. /\ Sets(S, "discarding") /\ grants' = grants /\ S \subseteq LiveOperations
      /\ \A o \in S : operations[o].state \notin ActiveOperation
  BY DiscardMoves DEF Closing
<1>2. uses' = uses
  BY DEF DiscardCommit, history
<1> HIDE DEF S
<1>3. \A o \in Operations :
        IF o \in S
        THEN /\ operations[o].state \notin ActiveOperation
             /\ operations'[o].state = "discarding" /\ operations[o].state # "gone"
             /\ operations'[o].grant = operations[o].grant
             /\ operations'[o].generation = operations[o].generation
             /\ operations'[o].generation <= context.generation
        ELSE operations'[o] = operations[o]
  <2>1. \A o \in Operations : operations[o].generation <= context.generation
    BY DEF RecordInv, OperationInv
  <2> SUFFICES ASSUME NEW o \in Operations, o \in S
               PROVE  /\ operations[o].state \notin ActiveOperation
                      /\ operations'[o].state = "discarding" /\ operations[o].state # "gone"
                      /\ operations'[o].grant = operations[o].grant
                      /\ operations'[o].generation = operations[o].generation
    BY <1>1, <2>1 DEF Sets
  <2>2. o \in LiveOperations /\ MovesOperation(o, "discarding")
    BY <1>1 DEF Sets
  <2>3. operations[o].state \notin ActiveOperation
    BY <1>1
  <2>4. operations[o].state # "gone"
    BY <2>2 DEF LiveOperations, Unwritten
  <2> QED BY <2>2, <2>3, <2>4 DEF MovesOperation
<1> QED BY <1>1, <1>2, <1>3, ClosedInv

LEMMA DropInv ==
    ASSUME ConsentAssumption, TypeOK, RecordInv, NEW c \in Clients, NEW o \in Operations,
           DropCommit(c, o), SameContext
    PROVE  RecordInv'
<1>1. uses' = uses
  BY DEF DropCommit, history
<1>2. CASE RecordsKept
  BY <1>1, <1>2, RecordsKeptInv
<1>3. CASE Drops(o)
  <2>1. \A p \in Operations :
          IF p \in {o}
          THEN /\ operations[p].state \notin ActiveOperation
               /\ operations'[p].state = "gone"
               /\ operations'[p].generation <= context.generation
          ELSE operations'[p] = operations[p]
    BY <1>3, RecordsFunctions DEF Drops, OthersKeptOperations, Active
  <2> QED BY <1>1, <1>3, <2>1, ClosedInv DEF Drops
<1> QED BY <1>2, <1>3, DropMoves

\* The grants that remain keep their states; the operations of the others end.
LEMMA ReduceInv ==
    ASSUME ConsentAssumption, TypeOK, RecordInv, NEW removed, NEW marked,
           Reduces(removed, marked), UNCHANGED uses, SameContext
    PROVE  RecordInv'
<1> DEFINE S == {o \in LiveOperations : operations[o].grant \in removed}
<1>1. \A o \in Operations :
        IF o \in S THEN /\ operations'[o].state = "revoked" /\ operations[o].state # "gone"
                        /\ operations'[o].grant = operations[o].grant
                        /\ operations'[o].generation = operations[o].generation
                        /\ operations[o].grant \in removed
        ELSE operations'[o] = operations[o]
  BY DEF Reduces, Sets, MovesOperation, LiveOperations, Unwritten
<1>2. ASSUME NEW g \in Grants, g \notin removed
      PROVE  /\ grants'[g].state = grants[g].state /\ grants'[g].operation = grants[g].operation
             /\ grants'[g].command = grants[g].command /\ grants'[g].version = grants[g].version
             /\ grants'[g].generation = grants[g].generation
             /\ grants'[g].invocation = grants[g].invocation
             /\ grants[g].state = "authorised" => grants'[g].revoked = grants[g].revoked
  <2>1. CASE g \in marked
    <3>1. grants[g].state # "authorised"
      BY <2>1 DEF Reduces, InUse
    <3> QED BY <1>2, <2>1, <3>1 DEF Reduces
  <2>2. CASE g \notin marked
    BY <1>2, <2>2 DEF Reduces
  <2> QED BY <2>1, <2>2
<1>3. \A g \in Grants : g \in removed => grants'[g].state = "gone"
  BY DEF Reduces
<1>4. LiveGrants' = LiveGrants \ removed
  BY <1>2, <1>3 DEF LiveGrants, Unwritten
<1>5. \A o \in LiveOperations : operations[o].grant \in removed => o \in S
  OBVIOUS
<1>6. \A g \in Grants : grants[g].operation \in Operations \cup {None}
  BY RecordsFunctions DEF GrantType
<1> HIDE DEF S
<1>7. OperationInv'
  <2>1. ASSUME NEW o \in Operations, o \in S
        PROVE  /\ operations'[o].state = "revoked"
               /\ operations'[o].generation <= context'.generation
    BY <1>1, <2>1 DEF SameContext, RecordInv, OperationInv
  <2>2. ASSUME NEW o \in Operations, o \notin S
        PROVE  /\ operations'[o] = operations[o]
               /\ operations[o].state \in {"authorised", "reserved"} =>
                    operations[o].grant \in Grants \ removed
    <3>1. operations[o].state \in {"authorised", "reserved"} =>
            operations[o].grant \in Grants /\ o \in LiveOperations
      BY DEF RecordInv, OperationInv, LiveOperations, Unwritten
    <3> QED BY <1>1, <1>5, <2>2, <3>1
  <2>3. ASSUME NEW o \in Operations, o \notin S
        PROVE  /\ operations'[o].state \in {"absent", "prepared"} =>
                    operations'[o].grant = None /\ operations'[o].invocation = None
               /\ operations'[o].state \in {"authorised", "reserved"} =>
                    /\ operations'[o].grant \in Grants
                    /\ grants'[operations'[o].grant].state = operations'[o].state
                    /\ grants'[operations'[o].grant].operation = o
               /\ uses'[o] > 0 =>
                    operations'[o].state \in {"entered", "spent", "revoked", "discarding", "gone"}
               /\ operations'[o].generation <= context'.generation
    <3>1. /\ operations[o].state \in {"absent", "prepared"} =>
               operations[o].grant = None /\ operations[o].invocation = None
          /\ uses[o] > 0 =>
               operations[o].state \in {"entered", "spent", "revoked", "discarding", "gone"}
          /\ operations[o].generation <= context.generation
          /\ operations[o].state \in {"authorised", "reserved"} =>
               /\ grants[operations[o].grant].state = operations[o].state
               /\ grants[operations[o].grant].operation = o
      BY DEF RecordInv, OperationInv
    <3>2. operations'[o] = operations[o] /\ uses' = uses /\ context'.generation = context.generation
      BY <2>2, <2>3 DEF SameContext
    <3>3. ASSUME operations[o].state \in {"authorised", "reserved"}
          PROVE  /\ operations[o].grant \in Grants
                 /\ grants'[operations[o].grant].state = operations[o].state
                 /\ grants'[operations[o].grant].operation = o
      <4>1. operations[o].grant \in Grants \ removed
        BY <2>2, <2>3, <3>3
      <4> QED BY <1>2, <3>1, <3>3, <4>1
    <3> QED BY <3>1, <3>2, <3>3
  <2> QED BY <2>1, <2>3 DEF OperationInv
<1>8. GrantInv'
  <2>1. \A o \in Operations : operations'[o].state # "gone" =>
           operations[o].state # "gone" /\ operations'[o].generation = operations[o].generation
    BY <1>1
  <2>2. ASSUME NEW g \in Grants, g \notin removed
        PROVE  /\ grants'[g].state = "authorised" => ~grants'[g].revoked
               /\ grants'[g].state \notin Unwritten =>
                    /\ grants'[g].generation <= context'.generation
                    /\ grants'[g].generation = context'.generation =>
                         grants'[g].version = context'.contract
                    /\ grants'[g].operation # None =>
                         /\ grants'[g].command = CommandOf[grants'[g].operation]
                         /\ operations'[grants'[g].operation].state # "gone" =>
                              operations'[grants'[g].operation].generation = grants'[g].generation
    BY <1>2, <1>6, <2>1, <2>2 DEF RecordInv, GrantInv, SameContext
  <2> QED BY <1>3, <2>2 DEF GrantInv, Unwritten
<1>9. GrantMatchesOperation'
  <2>1. ASSUME NEW g \in LiveGrants \ removed, grants[g].operation # None
        PROVE  operations'[grants[g].operation] = operations[grants[g].operation]
    <3>1. /\ grants[g].operation \in Operations
          /\ \/ operations[grants[g].operation].grant = g
             \/ operations[grants[g].operation].state = "gone"
      BY <1>6, <2>1 DEF RecordInv, GrantMatchesOperation, LiveGrants
    <3> QED BY <1>1, <2>1, <3>1
  <2>2. \A g \in LiveGrants \ removed : g \in Grants
    BY DEF LiveGrants
  <2>3. ASSUME NEW g \in LiveGrants \ removed, grants'[g].operation # None
        PROVE  LET o == grants'[g].operation IN
               /\ operations'[o].grant = g \/ operations'[o].state = "gone"
               /\ grants'[g].state \in ActiveOperation =>
                    /\ operations'[o].state = grants'[g].state
                    /\ operations'[o].invocation = grants'[g].invocation
               /\ operations'[o].state \in ActiveOperation => grants'[g].state = operations'[o].state
    BY <1>2, <2>1, <2>2, <2>3 DEF RecordInv, GrantMatchesOperation
  <2> QED BY <1>4, <2>3 DEF GrantMatchesOperation
<1> QED BY <1>7, <1>8, <1>9 DEF RecordInv

\* A renewal only outdates: nothing carries the new generation.
LEMMA RenewInv ==
    ASSUME ConsentAssumption, TypeOK, RecordInv, NEW c \in Clients, Renew(c)
    PROVE  RecordInv'
<1>1. UNCHANGED <<operations, grants, uses>>
  BY DEF Renew, history
<1>2. context' = context \/ context'.generation = context.generation + 1
  BY RenewStep
<1>3. context.generation \in Nat
  BY RecordsFunctions
<1>4. \A o \in Operations : operations[o].generation \in Nat
  BY RecordsFunctions DEF OperationType
<1>5. \A g \in Grants : grants[g].generation \in Nat
  BY RecordsFunctions DEF GrantType
<1>6. OperationInv'
  BY <1>1, <1>2, <1>3, <1>4 DEF RecordInv, OperationInv
<1>7. GrantInv'
  BY <1>1, <1>2, <1>3, <1>5 DEF RecordInv, GrantInv
<1>8. GrantMatchesOperation'
  BY <1>1 DEF RecordInv, GrantMatchesOperation, LiveGrants
<1> QED BY <1>6, <1>7, <1>8 DEF RecordInv

LEMMA CommitsInv ==
    ASSUME ConsentAssumption, IInv, NEW c \in Clients, Commits(c)
    PROVE  RecordInv'
<1>0. /\ TypeOK /\ RecordInv /\ CallInv /\ FreshHeld /\ SameContext
      /\ uses \in [Operations -> Nat]
  BY CommitsSameContext, RecordsFunctions DEF IInv, RecordInv
<1> DEFINE g == call[c].grant
           o == call[c].operation
<1>1. CASE PrepareCommit(c)
  <2>1. uses' = uses
    BY <1>1 DEF PrepareCommit, history
  <2> QED BY <1>0, <1>1, <2>1, PrepareMoves, PrepareInv
<1>2. CASE RequestCommit(c)
  <2>1. uses' = uses
    BY <1>2 DEF RequestCommit, history
  <2>2. CASE Reuse(c)
    BY <1>0, <2>1, <2>2, RecordsKeptInv DEF Reuse, RecordsKept
  <2>3. CASE Authorise(c)
    BY <1>0, <1>2, <2>1, <2>3, AuthoriseMoves, NewForPrepared, AuthoriseInv
  <2> QED BY <1>2, <2>2, <2>3 DEF RequestCommit
<1>3. CASE ReserveCommit(c)
  <2>1. uses' = uses
    BY <1>3 DEF ReserveCommit, history
  <2>2. CASE Basis(c) = "operation"
    <3>1. /\ MovesBoth(c, "reserved") /\ grants[g].operation = o
          /\ operations[o].state = "authorised" /\ grants[g].state = "authorised"
      BY <1>0, <1>3, <2>2, ReserveMoves
    <3>2. g \in LiveGrants
      BY <3>1 DEF MovesBoth, LiveGrants, Unwritten
    <3> QED BY <1>0, <2>1, <3>1, <3>2, MovesInv
  <2>3. CASE Basis(c) # "operation"
    BY <1>0, <1>3, <2>1, <2>3, ReserveMoves, RecordsKeptInv
  <2> QED BY <2>2, <2>3
<1>4. CASE EnterCommit(c)
  <2>1. CASE call[c].basis = "operation"
    <3>1. MovesBoth(c, "entered") /\ Holds(c) /\ StillReserved(c)
      BY <1>0, <1>4, <2>1, EnterMoves
    <3>2. g \in LiveGrants /\ grants[g].operation = o /\ grants[g].state = "reserved"
      BY <3>1 DEF Holds, StillReserved, LiveGrants, Unwritten
    <3>3. operations[o].state = "reserved"
      BY <1>0, <3>1, <3>2 DEF Holds, RecordInv, GrantMatchesOperation, ActiveOperation,
                              ConsentAssumption
    <3>4. \A p \in Operations \ {o} : uses'[p] = uses[p]
      BY <1>0, <1>4, <2>1 DEF EnterCommit
    <3> QED BY <1>0, <3>1, <3>2, <3>3, <3>4, MovesInv
  <2>2. CASE call[c].basis # "operation"
    <3>1. uses' = uses
      BY <1>4, <2>2 DEF EnterCommit
    <3> QED BY <1>0, <1>4, <2>2, <3>1, EnterMoves, RecordsKeptInv
  <2> QED BY <2>1, <2>2
<1>5. CASE FinishCommit(c)
  <2>1. uses' = uses
    BY <1>5 DEF FinishCommit, history
  <2>2. CASE RecordsKept
    BY <1>0, <2>1, <2>2, RecordsKeptInv
  <2>3. CASE ~RecordsKept
    <3>1. MovesBoth(c, "spent") /\ Holds(c) /\ grants[g].state \in {"entered", "spent"}
      BY <1>0, <1>5, <2>3, FinishMoves
    <3>2. g \in LiveGrants /\ grants[g].operation = o
      BY <3>1 DEF Holds, LiveGrants, Unwritten
    <3> QED BY <1>0, <2>1, <3>1, <3>2, MovesInv DEF ActiveOperation
  <2> QED BY <2>2, <2>3
<1>6. CASE CancelCommit(c)
  <2>1. uses' = uses
    BY <1>6 DEF CancelCommit, history
  <2>2. CASE RecordsKept
    BY <1>0, <2>1, <2>2, RecordsKeptInv
  <2>3. CASE ~RecordsKept
    <3>1. PICK state \in {"authorised", "revoked"} :
            /\ MovesBoth(c, state) /\ Holds(c) /\ grants[g].state = "reserved"
            /\ state = "authorised" => ~grants[g].revoked
      BY <1>0, <1>6, <2>3, CancelMoves
    <3>2. g \in LiveGrants /\ grants[g].operation = o
      BY <3>1 DEF Holds, LiveGrants, Unwritten
    <3>3. operations[o].state = "reserved"
      BY <1>0, <3>1, <3>2 DEF Holds, RecordInv, GrantMatchesOperation, ActiveOperation,
                              ConsentAssumption
    <3> QED BY <1>0, <2>1, <3>1, <3>2, <3>3, MovesInv
  <2> QED BY <2>2, <2>3
<1>7. CASE DiscardCommit(c)
  BY <1>0, <1>7, DiscardInv
<1>8. ASSUME NEW p \in Operations, DropCommit(c, p) PROVE RecordInv'
  BY <1>0, <1>8, DropInv
<1>9. CASE ReduceCommit(c)
  <2>1. uses' = uses
    BY <1>9 DEF ReduceCommit, history
  <2> QED BY <1>0, <1>9, <2>1, ReduceMoves, ReduceInv
<1> QED BY <1>1, <1>2, <1>3, <1>4, <1>5, <1>6, <1>7, <1>8, <1>9 DEF Commits

LEMMA RecordStep ==
    ASSUME ConsentAssumption, IInv, Next
    PROVE  RecordInv'
<1>0. TypeOK /\ RecordInv
  BY DEF IInv, RecordInv
<1>1. CASE ChangeConfig
  BY <1>0, <1>1, RecordsKeptInv DEF ChangeConfig, store, history, RecordsKept, SameContext
<1>2. ASSUME NEW c \in Clients, Quiet(c) PROVE RecordInv'
  BY <1>0, <1>2, QuietKeeps, RecordsKeptInv DEF store, history, RecordsKept, SameContext
<1>3. ASSUME NEW c \in Clients, Renew(c) PROVE RecordInv'
  BY <1>0, <1>3, RenewInv
<1> QED BY <1>1, <1>2, <1>3, CommitsInv, NextSplit

-----------------------------------------------------------------------------
(* What stays true of a record for those who remember it                   *)

Endures(o) ==
    operations[o].state # "absent" =>
        /\ operations'[o].state # "absent"
        /\ operations'[o].state # "gone" =>
             /\ operations[o].state # "gone"
             /\ operations'[o].generation = operations[o].generation
        /\ operations[o].state = "gone" => operations'[o] = operations[o]

GrantEndures(g) ==
    grants[g].state # "absent" =>
        /\ grants'[g].state # "absent"
        /\ grants'[g].state # "gone" =>
             /\ grants[g].state # "gone" /\ grants'[g].operation = grants[g].operation
             /\ grants'[g].request = grants[g].request
        /\ grants[g].state = "gone" => grants'[g] = grants[g]

\* What c writes for the first time is what it has in hand.
Evolves(c) ==
    /\ \A o \in Operations : Endures(o)
    /\ \A g \in Grants : GrantEndures(g)
    /\ \A o \in Operations : operations[o].state = "absent" /\ operations'[o].state # "absent" =>
         PrepareCommit(c) /\ o = call[c].operation
    /\ \A g \in Grants : grants[g].state = "absent" /\ grants'[g].state # "absent" =>
         RequestCommit(c) /\ g = call[c].fresh

LEMMA KeptEvolves ==
    ASSUME NEW c, RecordsKept
    PROVE  Evolves(c)
BY DEF RecordsKept, Evolves, Endures, GrantEndures

LEMMA MovesEvolve ==
    ASSUME NEW c \in Clients, NEW state \in {"authorised", "reserved", "entered", "spent", "revoked"},
           MovesBoth(c, state), call[c].grant \in LiveGrants,
           operations[call[c].operation].state # "absent"
    PROVE  Evolves(c)
<1>1. PICK g \in Grants, o \in Operations :
        /\ g = call[c].grant /\ o = call[c].operation
        /\ MovesGrant(g, state) /\ OthersKeptGrants(g) /\ OthersKeptOperations(o)
        /\ operations[o].state \in Unwritten => operations'[o] = operations[o]
        /\ operations[o].state \notin Unwritten => MovesOperation(o, state)
  BY DEF MovesBoth
<1>2. \A p \in Operations : Endures(p) /\ (operations[p].state = "absent" => operations'[p] = operations[p])
  BY <1>1 DEF OthersKeptOperations, MovesOperation, Endures, Unwritten
<1>3. \A h \in Grants : GrantEndures(h) /\ (grants[h].state = "absent" => grants'[h] = grants[h])
  BY <1>1 DEF OthersKeptGrants, MovesGrant, GrantEndures, LiveGrants, Unwritten
<1> QED BY <1>2, <1>3 DEF Evolves

LEMMA CommitsEvolve ==
    ASSUME ConsentAssumption, IInv, NEW c \in Clients, Commits(c)
    PROVE  Evolves(c)
<1>0. TypeOK /\ RecordInv /\ CallInv /\ FreshHeld
  BY DEF IInv, RecordInv
<1> DEFINE g == call[c].grant
           o == call[c].operation
<1>1. CASE PrepareCommit(c)
  <2>1. Prepares(o)
    BY <1>0, <1>1, PrepareMoves
  <2> QED BY <1>1, <2>1 DEF Prepares, OthersKeptOperations, Evolves, Endures, GrantEndures
<1>2. CASE RequestCommit(c)
  <2>1. CASE Reuse(c)
    BY <2>1, KeptEvolves DEF Reuse, RecordsKept
  <2>2. CASE Authorise(c)
    <3>1. Authorises(c, call[c].fresh, o)
      BY <1>0, <1>2, <2>2, AuthoriseMoves
    <3>2. \A p \in Operations : Endures(p) /\ (operations[p].state = "absent" => operations'[p] = operations[p])
      BY <3>1 DEF Authorises, OthersKeptOperations, Endures
    <3>3. \A h \in Grants : GrantEndures(h) /\ (h # call[c].fresh => grants'[h] = grants[h])
      BY <3>1 DEF Authorises, OthersKeptGrants, GrantEndures
    <3> QED BY <1>2, <3>2, <3>3 DEF Evolves
  <2> QED BY <1>2, <2>1, <2>2 DEF RequestCommit
<1>3. CASE ReserveCommit(c)
  <2>1. CASE Basis(c) = "operation"
    BY <1>0, <1>3, <2>1, ReserveMoves, MovesEvolve DEF MovesBoth, LiveGrants, Unwritten
  <2> QED BY <1>0, <1>3, <2>1, ReserveMoves, KeptEvolves
<1>4. CASE EnterCommit(c)
  <2>1. CASE call[c].basis = "operation"
    BY <1>0, <1>4, <2>1, EnterMoves, MovesEvolve DEF Holds, StillReserved, LiveGrants, Unwritten
  <2> QED BY <1>0, <1>4, <2>1, EnterMoves, KeptEvolves
<1>5. CASE FinishCommit(c)
  BY <1>0, <1>5, FinishMoves, MovesEvolve, KeptEvolves DEF Holds, LiveGrants, Unwritten
<1>6. CASE CancelCommit(c)
  BY <1>0, <1>6, CancelMoves, MovesEvolve, KeptEvolves DEF Holds, LiveGrants, Unwritten
<1>7. CASE DiscardCommit(c)
  <2>1. Sets(Closing(c), "discarding") /\ grants' = grants
    BY <1>0, <1>7, DiscardMoves
  <2> QED BY <2>1 DEF Sets, MovesOperation, LiveOperations, Unwritten, Evolves, Endures, GrantEndures
<1>8. ASSUME NEW p \in Operations, DropCommit(c, p) PROVE Evolves(c)
  BY <1>0, <1>8, DropMoves, KeptEvolves
     DEF Drops, OthersKeptOperations, LiveOperations, Unwritten, Evolves, Endures, GrantEndures
<1>9. CASE ReduceCommit(c)
  <2>1. Reduces(Removed(c), call[c].targets \cap InUse)
    BY <1>0, <1>9, ReduceMoves
  <2>2. \A p \in Operations : Endures(p) /\ (operations[p].state = "absent" => operations'[p] = operations[p])
    BY <2>1 DEF Reduces, Sets, MovesOperation, LiveOperations, Unwritten, Endures
  <2>3. \A h \in Grants : GrantEndures(h) /\ (grants[h].state = "absent" => grants'[h] = grants[h])
    BY <2>1 DEF Reduces, InUse, LiveGrants, Unwritten, GrantEndures
  <2> QED BY <2>2, <2>3 DEF Evolves
<1> QED BY <1>1, <1>2, <1>3, <1>4, <1>5, <1>6, <1>7, <1>8, <1>9 DEF Commits

\* Every step of c, whether it writes records or not.
LEMMA StepEvolves ==
    ASSUME ConsentAssumption, IInv, NEW c \in Clients, Quiet(c) \/ Renew(c) \/ Commits(c)
    PROVE  Evolves(c)
<1>1. CASE Quiet(c)
  BY <1>1, QuietKeeps, KeptEvolves DEF store, RecordsKept
<1>2. CASE Renew(c)
  BY <1>2, KeptEvolves DEF Renew, RecordsKept
<1> QED BY <1>1, <1>2, CommitsEvolve

-----------------------------------------------------------------------------
(* What a call knows                                                       *)

\* A call starts with identifiers that are nobody's.
Starts(c) ==
    /\ call[c].stage = "ready"
    /\ call'[c].stage = "refresh" /\ call'[c].basis = None
    /\ call'[c].does \in Calls \cup {"reserve"}
    /\ call'[c].does = "prepare" =>
         /\ call'[c].operation \in Operations /\ FreshOperation(call'[c].operation)
         /\ call'[c].request \in Requests
    /\ call'[c].does = "request" =>
         /\ call'[c].fresh \in Grants /\ FreshGrant(call'[c].fresh)
         /\ call'[c].request \in Requests
    /\ call'[c].does \in {"request", "reserve"} /\ call'[c].operation # None =>
         call'[c].command = CommandOf[call'[c].operation]
    /\ call'[c].does = "reserve" => call'[c].invocation \in Invocations
    /\ call'[c].does # "invoke"

LEMMA StartMoves ==
    ASSUME TypeOK, NEW c \in Clients, Start(c)
    PROVE  Others(c) /\ Starts(c)
<1>1. call \in [Clients -> CallType]
  BY RecordsFunctions
<1>2. CASE StartObserve(c)
  BY <1>1, <1>2 DEF StartObserve, Begin, Others, Starts, Ready, Calls
<1>3. ASSUME NEW r \in Requests, NEW o \in Operations, StartPrepare(c, r, o)
      PROVE  Others(c) /\ Starts(c)
  BY <1>1, <1>3 DEF StartPrepare, Begin, Others, Starts, Ready, Calls
<1>4. ASSUME NEW r \in Requests, NEW m \in Commands, NEW o \in Operations \cup {None},
             NEW g \in Grants, StartRequest(c, r, m, o, g)
      PROVE  Others(c) /\ Starts(c)
  <2> DEFINE candidate == IF asked[r] # NotAsked THEN asked[r].grant ELSE Pointer(m, o)
  <2>1. /\ call' = [call EXCEPT ![c] =
             [Ready EXCEPT !.does = "request", !.stage = "refresh", !.request = r,
                           !.command = m, !.operation = o, !.fresh = g, !.grant = candidate]]
        /\ call[c].stage = "ready" /\ FreshGrant(g) /\ (o # None => m = CommandOf[o])
    BY <1>4 DEF StartRequest, Begin
  <2> HIDE DEF candidate
  <2> QED BY <1>1, <2>1 DEF Others, Starts, Ready, Calls
<1>5. ASSUME NEW i \in Invocations, NEW m \in Commands, NEW o \in Operations \cup {None},
             NEW same \in BOOLEAN, StartInvoke(c, i, m, o, same)
      PROVE  Others(c) /\ Starts(c)
  <2> DEFINE candidate == Pointer(m, o)
  <2>1. /\ call' = [call EXCEPT ![c] =
             [Ready EXCEPT !.does = "reserve", !.stage = "refresh", !.invocation = i,
                           !.command = m, !.operation = o, !.same = same, !.grant = candidate]]
        /\ call[c].stage = "ready" /\ (o # None => m = CommandOf[o])
    BY <1>5 DEF StartInvoke, Begin
  <2> HIDE DEF candidate
  <2> QED BY <1>1, <2>1 DEF Others, Starts, Ready, Calls
<1>6. ASSUME NEW targets, StartDiscard(c, targets) PROVE Others(c) /\ Starts(c)
  BY <1>1, <1>6 DEF StartDiscard, Begin, Others, Starts, Ready, Calls
<1>7. ASSUME NEW targets, NEW commands, StartReduce(c, targets, commands)
      PROVE  Others(c) /\ Starts(c)
  BY <1>1, <1>7 DEF StartReduce, Begin, Others, Starts, Ready, Calls
<1> QED BY <1>2, <1>3, <1>4, <1>5, <1>6, <1>7 DEF Start

\* All that a step of c may do to its call.
CallStep(c) ==
    /\ Others(c)
    /\ \/ Starts(c) \/ call'[c] = Ready \/ GoesOn(c) \/ Cancels(c) \/ Reserves(c)
       \/ EntersNow(c) \/ Disposes(c)
    /\ PrepareCommit(c) \/ RequestCommit(c) => call'[c] = Ready

LEMMA CallStepLemma ==
    ASSUME TypeOK, CallInv, NEW c \in Clients, Quiet(c) \/ Renew(c) \/ Commits(c)
    PROVE  CallStep(c)
<1>1. PrepareCommit(c) \/ RequestCommit(c) => call'[c] = Ready
  BY RecordsFunctions DEF PrepareCommit, RequestCommit, Return
<1>2. Start(c) \/ Proceed(c) \/ GiveUp(c) \/ Crash(c)
  BY DEF Quiet, Commits, Proceed
<1> QED BY <1>1, <1>2, StartMoves, CallMoves DEF CallStep

LEMMA HoldsEndures ==
    ASSUME NEW c, NEW d \in Clients, Evolves(c), Holds(d),
           call'[d].operation = call[d].operation, call'[d].grant = call[d].grant,
           call'[d].generation = call[d].generation
    PROVE  Holds(d)'
BY DEF Holds, Evolves, Endures, GrantEndures

LEMMA FreshHeldStep ==
    ASSUME ConsentAssumption, IInv, NEW c \in Clients, Quiet(c) \/ Renew(c) \/ Commits(c)
    PROVE  FreshHeld'
<1>0. TypeOK /\ FreshHeld /\ CallInv /\ Evolves(c) /\ CallStep(c)
  BY StepEvolves, CallStepLemma DEF IInv
<1>1. \A d \in Clients \ {c} : call'[d] = call[d]
  BY <1>0 DEF CallStep, Others
<1>2. Ready.does = "nothing"
  BY DEF Ready
<1>3. /\ PrepareCommit(c) => call[c].does = "prepare" /\ call'[c].does = "nothing"
      /\ RequestCommit(c) => call[c].does = "request" /\ call'[c].does = "nothing"
  BY <1>0, <1>2 DEF PrepareCommit, RequestCommit, Committing, CallStep
\* c prepares or requests only if it did, or has just started to.
<1>4. call'[c].does \in {"prepare", "request"} =>
        Starts(c) \/ (Carries(c) /\ call'[c].does = call[c].does)
  <2>1. CASE Cancels(c) \/ Reserves(c) \/ EntersNow(c) \/ Disposes(c)
    BY <2>1 DEF Cancels, Reserves, EntersNow, Disposes
  <2>2. CASE GoesOn(c)
    BY <2>2 DEF GoesOn
  <2> QED BY <1>0, <1>2, <2>1, <2>2 DEF CallStep
<1>5. ASSUME NEW d \in Clients, call'[d].does = "prepare"
      PROVE  /\ call'[d].operation \in Operations
             /\ operations'[call'[d].operation].state = "absent"
             /\ call'[d].request \in Requests
  <2>1. CASE d # c
    <3>1. /\ call[d].does = "prepare" /\ call[d].operation \in Operations
          /\ operations[call[d].operation].state = "absent" /\ call[d].request \in Requests
          /\ call[c].does = "prepare" => call[c].operation # call[d].operation
      BY <1>0, <1>1, <1>5, <2>1 DEF FreshHeld
    <3> QED BY <1>0, <1>1, <1>3, <2>1, <3>1 DEF Evolves
  <2>2. CASE d = c /\ Starts(c)
    BY <1>0, <1>3, <1>5, <2>2 DEF Starts, FreshOperation, Evolves
  <2>3. CASE d = c /\ ~Starts(c)
    BY <1>0, <1>3, <1>4, <1>5, <2>3 DEF FreshHeld, Carries, Evolves
  <2> QED BY <2>1, <2>2, <2>3
<1>6. ASSUME NEW d \in Clients, call'[d].does = "request"
      PROVE  /\ call'[d].fresh \in Grants
             /\ grants'[call'[d].fresh].state = "absent"
             /\ call'[d].request \in Requests
  <2>1. CASE d # c
    <3>1. /\ call[d].does = "request" /\ call[d].fresh \in Grants
          /\ grants[call[d].fresh].state = "absent" /\ call[d].request \in Requests
          /\ call[c].does = "request" => call[c].fresh # call[d].fresh
      BY <1>0, <1>1, <1>6, <2>1 DEF FreshHeld
    <3> QED BY <1>0, <1>1, <1>3, <2>1, <3>1 DEF Evolves
  <2>2. CASE d = c /\ Starts(c)
    BY <1>0, <1>3, <1>6, <2>2 DEF Starts, FreshGrant, Evolves
  <2>3. CASE d = c /\ ~Starts(c)
    BY <1>0, <1>3, <1>4, <1>6, <2>3 DEF FreshHeld, Carries, Evolves
  <2> QED BY <2>1, <2>2, <2>3
<1>7. ASSUME NEW d \in Clients \ {c}
      PROVE  /\ call'[c].does = "prepare" /\ call'[d].does = "prepare" =>
                  call'[c].operation # call'[d].operation
             /\ call'[c].does = "request" /\ call'[d].does = "request" =>
                  call'[c].fresh # call'[d].fresh
  BY <1>0, <1>1, <1>4 DEF FreshHeld, Starts, FreshOperation, FreshGrant, Carries
<1>8. ASSUME NEW d \in Clients \ {c}, NEW e \in Clients \ {c}, d # e
      PROVE  /\ call'[d].does = "prepare" /\ call'[e].does = "prepare" =>
                  call'[d].operation # call'[e].operation
             /\ call'[d].does = "request" /\ call'[e].does = "request" =>
                  call'[d].fresh # call'[e].fresh
  BY <1>0, <1>1, <1>8 DEF FreshHeld
<1> QED BY <1>5, <1>6, <1>7, <1>8 DEF FreshHeld

\* What CallInv says of one call.
Knows(c) ==
    /\ call[c].stage = "ready" => call[c].does = "nothing"
    /\ call[c].stage = "intent" => call[c].does = "enter"
    /\ call[c].stage = "running" => call[c].does = "finish"
    /\ call[c].does \in {"reserve"} \cup Admitted => call[c].invocation \in Invocations
    /\ call[c].does \in {"request", "reserve"} /\ call[c].operation # None =>
         call[c].command = CommandOf[call[c].operation]
    /\ call[c].does = "finish" /\ call[c].stage # "running" => call[c].basis = "operation"
    /\ call[c].does = "cancel" => call[c].basis = "operation"
    /\ call[c].does \in Admitted /\ call[c].basis = "operation" => Holds(c)

LEMMA CallInvStep ==
    ASSUME ConsentAssumption, IInv, NEW c \in Clients, Quiet(c) \/ Renew(c) \/ Commits(c)
    PROVE  CallInv'
<1>0. TypeOK /\ CallInv /\ Evolves(c) /\ CallStep(c) /\ \A d \in Clients : Knows(d)
  BY StepEvolves, CallStepLemma DEF IInv, CallInv, Knows
<1>1. ASSUME NEW d \in Clients \ {c} PROVE Knows(d)'
  <2>1. call'[d] = call[d]
    BY <1>0 DEF CallStep, Others
  <2>2. Holds(d) => Holds(d)'
    BY <1>0, <2>1, HoldsEndures
  <2> QED BY <1>0, <2>1, <2>2 DEF Knows
<1>2. Knows(c)'
  <2>1. CASE Starts(c)
    BY <2>1 DEF Starts, Knows, Calls, Admitted
  <2>2. CASE call'[c] = Ready
    BY <2>2 DEF Ready, Knows, Admitted
  <2>3. CASE GoesOn(c)
    <3>1. Holds(c) => Holds(c)'
      BY <1>0, <2>3, HoldsEndures DEF GoesOn, Carries, KeepsProof
    <3>2. Knows(c)
      BY <1>0
    <3> QED BY <2>3, <3>1, <3>2 DEF GoesOn, Carries, KeepsProof, Knows
  <2>4. CASE Cancels(c)
    <3>1. Holds(c) /\ call[c].invocation \in Invocations
      BY <1>0, <2>4 DEF Cancels, Knows, Admitted
    <3>2. Holds(c)'
      BY <1>0, <2>4, <3>1, HoldsEndures DEF Cancels, Carries, KeepsProof
    <3> QED BY <2>4, <3>1, <3>2 DEF Cancels, Carries, KeepsProof, Knows, Admitted
  <2>5. CASE Reserves(c)
    <3>1. call[c].does = "reserve" /\ call[c].invocation \in Invocations
      BY <1>0, <2>5 DEF Reserves, ReserveCommit, Committing, Knows
    <3>2. CASE Basis(c) = "operation"
      <4>1. /\ MovesBoth(c, "reserved")
            /\ grants[call[c].grant].operation = call[c].operation
            /\ operations[call[c].operation].generation = context.generation
            /\ operations[call[c].operation].state = "authorised"
            /\ grants[call[c].grant].state = "authorised"
        BY <1>0, <2>5, <3>2, ReserveMoves DEF Reserves
      <4>2. Holds(c)'
        BY <2>5, <4>1 DEF Reserves, Carries, Holds, MovesBoth, MovesGrant, MovesOperation, Unwritten
      <4> QED BY <2>5, <3>1, <3>2, <4>2 DEF Reserves, Carries, Knows, Admitted
    <3>3. CASE Basis(c) # "operation"
      BY <2>5, <3>1, <3>3 DEF Reserves, Carries, Knows, Admitted
    <3> QED BY <3>2, <3>3
  <2>6. CASE EntersNow(c)
    <3>1. /\ call[c].does = "enter" /\ call[c].invocation \in Invocations
          /\ call[c].basis = "operation" => Holds(c)
      BY <1>0, <2>6 DEF EntersNow, EnterCommit, Committing, Knows, Admitted
    <3>2. call[c].basis = "operation" => Holds(c)'
      BY <1>0, <2>6, <3>1, HoldsEndures DEF EntersNow, Carries, KeepsProof
    <3> QED BY <2>6, <3>1, <3>2 DEF EntersNow, Carries, KeepsProof, Knows, Admitted
  <2>7. CASE Disposes(c)
    BY <2>7 DEF Disposes, Knows, Admitted
  <2> QED BY <1>0, <2>1, <2>2, <2>3, <2>4, <2>5, <2>6, <2>7 DEF CallStep
<1>3. ASSUME NEW d \in Clients PROVE Knows(d)'
  BY <1>1, <1>2
<1> QED BY <1>3 DEF CallInv, Knows

-----------------------------------------------------------------------------
(* Effects                                                                 *)

\* The ledger and the effects, seen from a step of c.
LEMMA EffectStep ==
    ASSUME ConsentAssumption, IInv, NEW c \in Clients, Quiet(c) \/ Renew(c) \/ Commits(c)
    PROVE  EffectInv'
<1>0. /\ TypeOK /\ CallInv /\ EffectInv /\ CallStep(c)
      /\ effects \in [Invocations -> Nat]
  BY CallStepLemma DEF IInv, TypeOK
<1>1. \A d \in Clients \ {c} : Intending(d)' <=> Intending(d)
  BY <1>0 DEF CallStep, Others, Intending
<1>2. \A d \in Clients \ {c} : call'[d].invocation = call[d].invocation
  BY <1>0 DEF CallStep, Others
<1>3. CASE RecordIntent(c)
  <2>1. /\ call[c].stage = "intent" /\ call[c].invocation \notin intents
        /\ intents' = intents \cup {call[c].invocation} /\ effects' = effects
        /\ call'[c].invocation = call[c].invocation
    BY <1>0, <1>3 DEF RecordIntent, history, TypeOK, CallType
  <2>2. call[c].invocation \in Invocations
    BY <1>0, <2>1 DEF CallInv, Admitted
  <2>3. effects[call[c].invocation] = 0
    BY <1>0, <2>1, <2>2 DEF EffectInv, EffectFollowsIntent
  <2>4. EffectFollowsIntent'
    BY <1>0, <2>1 DEF EffectInv, EffectFollowsIntent
  <2>5. ASSUME NEW d \in Clients \ {c}, Intending(d)'
        PROVE  /\ call'[d].invocation \in intents /\ effects'[call'[d].invocation] = 0
               /\ call'[d].invocation # call'[c].invocation
    BY <1>0, <1>1, <1>2, <2>1, <2>5 DEF EffectInv
  <2>6. \A d, e \in Clients \ {c} : d # e /\ Intending(d)' /\ Intending(e)' =>
          call'[d].invocation # call'[e].invocation
    BY <1>0, <1>1, <1>2 DEF EffectInv
  <2> QED BY <2>1, <2>3, <2>4, <2>5, <2>6 DEF EffectInv
<1>4. CASE EnterCommit(c)
  <2>1. /\ call[c].does = "enter" /\ call[c].stage = "commit" /\ call'[c].does = "finish"
        /\ intents' = intents
        /\ effects' = IF call[c].command \in Effectful
                      THEN [effects EXCEPT ![call[c].invocation] = @ + 1] ELSE effects
    BY <1>0, <1>4 DEF EnterCommit, Committing, TypeOK, CallType
  <2>2. ~Intending(c)'
    BY <2>1 DEF Intending
  <2>3. CASE call[c].command \in Effectful
    <3>1. /\ Intending(c) /\ call[c].invocation \in intents
          /\ call[c].invocation \in Invocations /\ effects[call[c].invocation] = 0
      BY <1>0, <2>1, <2>3 DEF EffectInv, Intending, CallInv, Admitted
    <3>2. \A i \in Invocations : effects'[i] = IF i = call[c].invocation THEN 1 ELSE effects[i]
      BY <1>0, <2>1, <2>3, <3>1
    <3>3. EffectFollowsIntent'
      BY <1>0, <2>1, <3>1, <3>2 DEF EffectInv, EffectFollowsIntent
    <3>4. ASSUME NEW d \in Clients \ {c}, Intending(d)'
          PROVE  /\ call'[d].invocation \in intents /\ effects'[call'[d].invocation] = 0
      <4>1. /\ call[d].invocation \in intents /\ effects[call[d].invocation] = 0
            /\ call[d].invocation # call[c].invocation
        BY <1>0, <1>1, <3>1, <3>4 DEF EffectInv
      <4>2. call[d].invocation \in Invocations
        BY <1>0, <4>1 DEF TypeOK
      <4> QED BY <1>2, <3>2, <4>1, <4>2
    <3>5. \A d, e \in Clients \ {c} : d # e /\ Intending(d)' /\ Intending(e)' =>
            call'[d].invocation # call'[e].invocation
      BY <1>0, <1>1, <1>2 DEF EffectInv
    <3> QED BY <2>1, <2>2, <3>3, <3>4, <3>5 DEF EffectInv
  <2>4. CASE call[c].command \notin Effectful
    <3>1. effects' = effects
      BY <2>1, <2>4
    <3>2. EffectFollowsIntent'
      BY <1>0, <2>1, <3>1 DEF EffectInv, EffectFollowsIntent
    <3>3. \A d \in Clients : Intending(d)' =>
            d # c /\ Intending(d) /\ call'[d].invocation = call[d].invocation
      BY <1>1, <1>2, <2>2
    <3>4. ASSUME NEW d \in Clients, Intending(d)'
          PROVE  call'[d].invocation \in intents' /\ effects'[call'[d].invocation] = 0
      BY <1>0, <2>1, <3>1, <3>3, <3>4 DEF EffectInv
    <3>5. ASSUME NEW d \in Clients, NEW e \in Clients, d # e, Intending(d)', Intending(e)'
          PROVE  call'[d].invocation # call'[e].invocation
      BY <1>0, <3>3, <3>5 DEF EffectInv
    <3> QED BY <3>2, <3>4, <3>5 DEF EffectInv
  <2> QED BY <2>3, <2>4
<1>5. CASE ~RecordIntent(c) /\ ~EnterCommit(c)
  <2>1. effects' = effects
    <3>1. CASE Quiet(c)
      BY <3>1, QuietKeeps DEF history
    <3>2. CASE Renew(c)
      BY <3>2 DEF Renew, history
    <3>3. CASE Commits(c)
      BY <1>5, <3>3
         DEF Commits, PrepareCommit, RequestCommit, ReserveCommit, FinishCommit, CancelCommit,
             DiscardCommit, DropCommit, ReduceCommit, history
    <3> QED BY <3>1, <3>2, <3>3
  <2>2. intents \subseteq intents'
    <3>1. CASE Quiet(c)
      BY <1>0, <3>1, QuietViews
    <3>2. CASE Renew(c)
      BY <3>2 DEF Renew
    <3> QED BY <3>1, <3>2, CommitsKeep
  <2>3. Intending(c)' => Intending(c) /\ call'[c].invocation = call[c].invocation
    <3>1. CASE Starts(c)
      BY <3>1 DEF Starts, Intending, Calls
    <3>2. CASE call'[c] = Ready
      BY <3>2 DEF Ready, Intending
    <3>3. CASE GoesOn(c)
      BY <1>5, <3>3 DEF GoesOn, Carries, Intending
    <3>4. CASE Reserves(c)
      BY <3>4 DEF Reserves, Carries, Intending
    <3>5. CASE Cancels(c) \/ EntersNow(c) \/ Disposes(c)
      BY <3>5 DEF Cancels, EntersNow, Disposes, Intending
    <3> QED BY <1>0, <3>1, <3>2, <3>3, <3>4, <3>5 DEF CallStep
  <2>4. \A d \in Clients : Intending(d)' =>
          Intending(d) /\ call'[d].invocation = call[d].invocation
    BY <1>1, <1>2, <2>3
  <2>5. EffectFollowsIntent'
    BY <1>0, <2>1, <2>2 DEF EffectInv, EffectFollowsIntent
  <2>6. ASSUME NEW d \in Clients, Intending(d)'
        PROVE  call'[d].invocation \in intents' /\ effects'[call'[d].invocation] = 0
    BY <1>0, <2>1, <2>2, <2>4, <2>6 DEF EffectInv
  <2>7. ASSUME NEW d \in Clients, NEW e \in Clients, d # e, Intending(d)', Intending(e)'
        PROVE  call'[d].invocation # call'[e].invocation
    BY <1>0, <2>4, <2>7 DEF EffectInv
  <2> QED BY <2>5, <2>6, <2>7 DEF EffectInv
<1> QED BY <1>3, <1>4, <1>5

-----------------------------------------------------------------------------
(* The invariant, and what follows from it                                 *)

LEMMA InvInit ==
    ASSUME ConsentAssumption, Init
    PROVE  IInv
<1>1. /\ Ready \in CallType /\ Ready.does = "nothing" /\ Ready.stage = "ready"
  BY ReadyType
<1>2. \A c \in Clients : call[c] = Ready
  BY DEF Init
<1>3. /\ NoOperation \in OperationType /\ NoGrant \in GrantType
      /\ NoOperation.state = "absent" /\ NoGrant.state = "absent"
      /\ NoOperation.grant = None /\ NoOperation.invocation = None /\ NoOperation.generation = 0
  BY RecordTypes DEF NoOperation, NoGrant
<1>4. LiveOperations = {} /\ LiveGrants = {}
  BY <1>3 DEF Init, LiveOperations, LiveGrants, Unwritten
<1>5. Counted
  BY <1>4, FS_EmptySet DEF Init, Counted
<1>6. TypeOK
  <2>1. config \in 1 .. Len(Policy) /\ view \in [Clients -> 1 .. Len(Policy)]
    BY DEF Init, ConsentAssumption
  <2>2. asked \in [Requests -> [scope : {"none", "operation", "command"},
                                command : Commands \cup {None},
                                operation : Operations \cup {None},
                                grant : Grants \cup {None}, generation : Nat]]
    BY DEF Init, NotAsked
  <2>3. context \in ContextType
    BY DEF Init, ContextType
  <2> QED BY <1>1, <1>3, <2>1, <2>2, <2>3 DEF Init, TypeOK, OperationType, GrantType, ContextType
<1>7. FreshHeld /\ CallInv
  BY <1>1, <1>2 DEF FreshHeld, CallInv, Admitted
<1>8. OperationInv
  BY <1>3 DEF Init, OperationInv
<1>9. GrantInv /\ GrantMatchesOperation
  BY <1>3, <1>4 DEF Init, GrantInv, GrantMatchesOperation, Unwritten
<1>10. EffectInv
  BY <1>1, <1>2 DEF Init, EffectInv, EffectFollowsIntent, Intending
<1> QED BY <1>5, <1>6, <1>7, <1>8, <1>9, <1>10 DEF IInv

LEMMA InvStep ==
    ASSUME ConsentAssumption, IInv, Next
    PROVE  IInv'
<1>1. TypeOK' /\ Counted'
  BY TypeStep
<1>2. OperationInv' /\ GrantInv' /\ GrantMatchesOperation'
  BY RecordStep DEF RecordInv
<1>3. FreshHeld' /\ CallInv' /\ EffectInv'
  <2>1. CASE ChangeConfig
    BY <2>1 DEF ChangeConfig, store, history, IInv, FreshHeld, CallInv, Holds, EffectInv,
                EffectFollowsIntent, Intending
  <2>2. CASE ~ChangeConfig
    BY <2>2, NextSplit, FreshHeldStep, CallInvStep, EffectStep
  <2> QED BY <2>1, <2>2
<1> QED BY <1>1, <1>2, <1>3 DEF IInv

LEMMA InvStutter ==
    ASSUME IInv, UNCHANGED vars
    PROVE  IInv'
<1>1. UNCHANGED <<config, context, operations, grants, blanket, prepared, asked, intents, view,
                  call, uses, effects>>
  BY DEF vars, store, history
<1>2. TypeOK'
  BY <1>1 DEF IInv, TypeOK
<1>3. Counted' /\ FreshHeld'
  BY <1>1 DEF IInv, Counted, LiveOperations, LiveGrants, FreshHeld
<1>4. OperationInv' /\ GrantInv' /\ GrantMatchesOperation'
  BY <1>1 DEF IInv, OperationInv, GrantInv, GrantMatchesOperation, LiveGrants
<1>5. CallInv' /\ EffectInv'
  BY <1>1 DEF IInv, CallInv, Holds, EffectInv, EffectFollowsIntent, Intending
<1> QED BY <1>2, <1>3, <1>4, <1>5 DEF IInv

-----------------------------------------------------------------------------
(* Requests                                                                *)

Asked == {r \in Requests : asked[r] # NotAsked}
PreparedFor == {r \in Requests : prepared[r] # None}

CountedRequests ==
    /\ IsFiniteSet(Asked) /\ IsFiniteSet(PreparedFor)
    /\ context.asked = Cardinality(Asked) + Cardinality(PreparedFor)

\* A live grant's request is answered, and a request has one operation.
RequestInv ==
    /\ CountedRequests /\ OnePerRequest
    /\ \A g \in LiveGrants : grants[g].request \in Requests /\ asked[grants[g].request] # NotAsked

\* Only a preparation and a request answer a request id.
LEMMA OthersAnswerNothing ==
    ASSUME ConsentAssumption, IInv, NEW c \in Clients, Quiet(c) \/ Renew(c) \/ Commits(c),
           ~PrepareCommit(c), ~RequestCommit(c)
    PROVE  UNCHANGED <<asked, prepared>> /\ context'.asked = context.asked
<1>1. context \in ContextType
  BY DEF IInv, TypeOK, ContextType
<1>2. CASE Quiet(c)
  BY <1>2, QuietKeeps DEF store
<1>3. CASE Renew(c)
  <2>1. UNCHANGED <<asked, prepared>>
    BY <1>3 DEF Renew
  <2>2. CASE context' = context
    BY <2>1, <2>2
  <2>3. CASE context' # context
    <3>1. PICK m, n, k : context' = [context EXCEPT !.generation = m, !.permission = n, !.contract = k]
      BY <1>3, <2>3 DEF Renew
    <3> QED BY <1>1, <2>1, <3>1 DEF ContextType
  <2> QED BY <2>2, <2>3
<1>4. CASE ReserveCommit(c) \/ EnterCommit(c) \/ FinishCommit(c) \/ CancelCommit(c) \/ DiscardCommit(c)
  BY <1>4 DEF ReserveCommit, EnterCommit, FinishCommit, CancelCommit, DiscardCommit
<1>5. ASSUME NEW o \in Operations, DropCommit(c, o)
      PROVE  UNCHANGED <<asked, prepared>> /\ context'.asked = context.asked
  BY <1>1, <1>5 DEF DropCommit, ContextType
<1>6. CASE ReduceCommit(c)
  <2>1. PICK reduced, n : context' = [context EXCEPT !.reduced = reduced, !.granted = n]
    BY <1>6 DEF ReduceCommit
  <2> QED BY <1>1, <1>6, <2>1 DEF ReduceCommit, ContextType
<1> QED BY <1>2, <1>3, <1>4, <1>5, <1>6 DEF Commits

\* The request that is answered was not answered before.
LEMMA PrepareAnswers ==
    ASSUME ConsentAssumption, IInv, NEW c \in Clients, PrepareCommit(c)
    PROVE  /\ call[c].request \in Requests /\ prepared[call[c].request] = None
           /\ prepared' = [prepared EXCEPT ![call[c].request] = call[c].operation]
           /\ call[c].operation \in Operations /\ asked' = asked /\ grants' = grants
           /\ context'.asked = context.asked + 1
<1>1. context \in ContextType
  BY DEF IInv, TypeOK, ContextType
<1>2. context'.asked = context.asked + 1
  BY <1>1 DEF PrepareCommit, ContextType
<1> QED BY <1>2 DEF PrepareCommit, MayPrepare, Committing, IInv, FreshHeld

LEMMA RequestAnswers ==
    ASSUME ConsentAssumption, IInv, NEW c \in Clients, RequestCommit(c)
    PROVE  /\ call[c].request \in Requests /\ asked[call[c].request] = NotAsked
           /\ \E g : asked' = [asked EXCEPT ![call[c].request] = Tombstone(c, g)]
           /\ \A g : Tombstone(c, g) # NotAsked
           /\ prepared' = prepared /\ context'.asked = context.asked + 1
<1>1. context \in ContextType
  BY DEF IInv, TypeOK, ContextType
<1>2. context'.asked = context.asked + 1
  <2>1. CASE Reuse(c)
    BY <1>1, <2>1 DEF Reuse, ContextType
  <2>2. CASE Authorise(c)
    BY <1>1, <2>2 DEF Authorise, ContextType
  <2> QED BY <2>1, <2>2 DEF RequestCommit
<1>3. \A g : Tombstone(c, g) # NotAsked
  <2>1. \A g : Tombstone(c, g).scope \in {"operation", "command"}
    BY DEF Tombstone, Scope
  <2>2. NotAsked.scope = "none"
    BY DEF NotAsked
  <2> QED BY <2>1, <2>2
<1>4. \E g : asked' = [asked EXCEPT ![call[c].request] = Tombstone(c, g)]
  BY DEF RequestCommit, Reuse, Authorise
<1> QED BY <1>2, <1>3, <1>4 DEF RequestCommit, MayRequest, Committing, IInv, FreshHeld

LEMMA CountedRequestsStep ==
    ASSUME ConsentAssumption, IInv, CountedRequests, NEW c \in Clients,
           Quiet(c) \/ Renew(c) \/ Commits(c)
    PROVE  CountedRequests'
<1>1. asked \in [Requests -> {asked[r] : r \in Requests}] /\ prepared \in [Requests -> Operations \cup {None}]
  BY DEF IInv, TypeOK
<1>2. CASE PrepareCommit(c)
  <2> DEFINE r == call[c].request
  <2>1. r \in Requests /\ r \notin PreparedFor
    BY <1>2, PrepareAnswers DEF PreparedFor
  <2>2. call[c].operation # None
    BY <1>2, PrepareAnswers DEF ConsentAssumption
  <2>3. PreparedFor' = PreparedFor \cup {r}
    BY <1>1, <1>2, <2>2, PrepareAnswers DEF PreparedFor
  <2>4. Asked' = Asked
    BY <1>2, PrepareAnswers DEF Asked
  <2>5. context'.asked = context.asked + 1
    BY <1>2, PrepareAnswers
  <2> HIDE DEF r
  <2>6. IsFiniteSet(PreparedFor') /\ Cardinality(PreparedFor') = Cardinality(PreparedFor) + 1
    BY <2>1, <2>3, FS_AddElement DEF CountedRequests
  <2>7. Cardinality(Asked) \in Nat /\ Cardinality(PreparedFor) \in Nat
    BY FS_CardinalityType DEF CountedRequests
  <2> QED BY <2>4, <2>5, <2>6, <2>7 DEF CountedRequests
<1>3. CASE RequestCommit(c)
  <2> DEFINE r == call[c].request
  <2>1. r \in Requests /\ r \notin Asked
    BY <1>3, RequestAnswers DEF Asked
  <2>2. PICK g : asked' = [asked EXCEPT ![r] = Tombstone(c, g)] /\ Tombstone(c, g) # NotAsked
    BY <1>3, RequestAnswers
  <2>3. Asked' = Asked \cup {r}
    BY <1>1, <2>1, <2>2 DEF Asked
  <2>4. PreparedFor' = PreparedFor /\ context'.asked = context.asked + 1
    BY <1>3, RequestAnswers DEF PreparedFor
  <2> HIDE DEF r
  <2>5. IsFiniteSet(Asked') /\ Cardinality(Asked') = Cardinality(Asked) + 1
    BY <2>1, <2>3, FS_AddElement DEF CountedRequests
  <2>6. Cardinality(Asked) \in Nat /\ Cardinality(PreparedFor) \in Nat
    BY FS_CardinalityType DEF CountedRequests
  <2> QED BY <2>4, <2>5, <2>6 DEF CountedRequests
<1>4. CASE ~PrepareCommit(c) /\ ~RequestCommit(c)
  BY <1>4, OthersAnswerNothing DEF CountedRequests, Asked, PreparedFor
<1> QED BY <1>2, <1>3, <1>4

LEMMA OnePerRequestStep ==
    ASSUME ConsentAssumption, IInv, RequestInv, NEW c \in Clients, Quiet(c) \/ Renew(c) \/ Commits(c)
    PROVE  /\ OnePerRequest'
           /\ \A g \in LiveGrants' : grants'[g].request \in Requests /\ asked'[grants'[g].request] # NotAsked
<1>0. /\ TypeOK /\ RecordInv /\ CallInv /\ FreshHeld /\ Evolves(c)
      /\ asked \in [Requests -> {asked[r] : r \in Requests}]
      /\ prepared \in [Requests -> Operations \cup {None}]
  <2>1. asked \in [Requests -> {asked[r] : r \in Requests}] /\ prepared \in [Requests -> Operations \cup {None}]
    BY DEF IInv, TypeOK
  <2> QED BY <2>1, StepEvolves DEF IInv, RecordInv
\* What is answered stays so.
<1>1. \A r \in Requests : asked[r] # NotAsked => asked'[r] = asked[r]
  <2>1. CASE RequestCommit(c)
    BY <1>0, <2>1, RequestAnswers
  <2>2. CASE ~RequestCommit(c)
    BY <2>2, PrepareAnswers, OthersAnswerNothing
  <2> QED BY <2>1, <2>2
\* A grant that was live has its request and its operation still.
<1>2. \A g \in LiveGrants' : g \in LiveGrants =>
        grants'[g].request = grants[g].request /\ grants'[g].operation = grants[g].operation
  BY <1>0 DEF Evolves, GrantEndures, LiveGrants, Unwritten
\* A grant that was not is the one that the call has in hand.
<1>3. ASSUME NEW g \in LiveGrants', g \notin LiveGrants
      PROVE  /\ grants'[g].request \in Requests /\ asked'[grants'[g].request] # NotAsked
             /\ g = call[c].fresh
             /\ \A h \in LiveGrants :
                  /\ grants[h].request # grants'[g].request
                  /\ grants'[g].operation # None => grants[h].operation # grants'[g].operation
  <2>1. RequestCommit(c) /\ g = call[c].fresh /\ g \in Grants
    BY <1>0, <1>3 DEF Evolves, GrantEndures, LiveGrants, Unwritten
  <2>2. Authorise(c)
    BY <1>3, <2>1 DEF RequestCommit, Reuse, LiveGrants
  <2>3. Authorises(c, g, call[c].operation)
    BY <1>0, <2>1, <2>2, AuthoriseMoves
  <2>4. /\ grants'[g].request = call[c].request /\ grants'[g].operation = call[c].operation
        /\ call[c].request \in Requests /\ asked[call[c].request] = NotAsked
        /\ asked'[call[c].request] # NotAsked
    BY <1>0, <2>1, <2>3, RequestAnswers DEF Authorises
  <2>5. \A h \in LiveGrants : grants[h].request # call[c].request
    BY <2>4 DEF RequestInv
  <2>6. ASSUME call[c].operation # None PROVE \A h \in LiveGrants : grants[h].operation # call[c].operation
    <3>1. call[c].operation \in Operations /\ operations[call[c].operation].state = "prepared"
      BY <1>0, <2>1, <2>2, <2>6, NewForPrepared DEF TypeOK, CallType
    <3> QED BY <1>0, <3>1, Ungranted
  <2> QED BY <2>1, <2>4, <2>5, <2>6
<1>4. \A g \in LiveGrants' : grants'[g].request \in Requests /\ asked'[grants'[g].request] # NotAsked
  <2>1. ASSUME NEW g \in LiveGrants', g \in LiveGrants
        PROVE  grants'[g].request \in Requests /\ asked'[grants'[g].request] # NotAsked
    BY <1>1, <1>2, <2>1 DEF RequestInv
  <2> QED BY <1>3, <2>1
<1>5. \A g, h \in LiveGrants' : g # h =>
        /\ grants'[g].request # grants'[h].request
        /\ grants'[g].operation # None => grants'[g].operation # grants'[h].operation
  <2>1. ASSUME NEW g \in LiveGrants', NEW h \in LiveGrants', g # h
        PROVE  /\ grants'[g].request # grants'[h].request
               /\ grants'[g].operation # None => grants'[g].operation # grants'[h].operation
    <3>1. CASE g \in LiveGrants /\ h \in LiveGrants
      BY <1>2, <2>1, <3>1 DEF RequestInv, OnePerRequest
    <3>2. CASE g \notin LiveGrants /\ h \in LiveGrants
      BY <1>2, <1>3, <3>2
    <3>3. CASE g \in LiveGrants /\ h \notin LiveGrants
      BY <1>2, <1>3, <3>3
    <3>4. CASE g \notin LiveGrants /\ h \notin LiveGrants
      BY <1>3, <2>1, <3>4
    <3> QED BY <3>1, <3>2, <3>3, <3>4
  <2> QED BY <2>1
<1> DEFINE Written == {o \in Operations : operations[o].state # "absent"}
           Named == {prepared[r] : r \in Requests} \ {None}
<1>6. Written = Named
  BY DEF RequestInv, OnePerRequest
<1>7. Written' = Named'
  <2>1. CASE PrepareCommit(c)
    <3>1. /\ call[c].request \in Requests /\ call[c].operation \in Operations
          /\ prepared[call[c].request] = None
          /\ prepared' = [prepared EXCEPT ![call[c].request] = call[c].operation]
      BY <2>1, PrepareAnswers
    <3>2. Prepares(call[c].operation)
      BY <1>0, <2>1, PrepareMoves
    <3>3. Written' = Written \cup {call[c].operation}
      BY <3>1, <3>2 DEF Prepares, OthersKeptOperations
    <3>4. Named' = Named \cup {call[c].operation}
      BY <1>0, <3>1 DEF ConsentAssumption
    <3> QED BY <1>6, <3>3, <3>4
  <2>2. CASE ~PrepareCommit(c)
    <3>1. Written' = Written
      BY <1>0, <2>2 DEF Evolves, Endures
    <3>2. prepared' = prepared
      BY <2>2, RequestAnswers, OthersAnswerNothing
    <3> QED BY <1>6, <3>1, <3>2
  <2> QED BY <2>1, <2>2
<1> QED BY <1>4, <1>5, <1>7 DEF OnePerRequest

LEMMA RequestInit ==
    ASSUME ConsentAssumption, Init
    PROVE  RequestInv
<1>1. Asked = {} /\ PreparedFor = {} /\ LiveGrants = {}
  BY DEF Init, Asked, PreparedFor, LiveGrants, NoGrant, Unwritten
<1>2. CountedRequests
  BY <1>1, FS_EmptySet DEF CountedRequests, Init
<1>3. {o \in Operations : operations[o].state # "absent"} = {}
  BY DEF Init, NoOperation
<1>4. {prepared[r] : r \in Requests} \ {None} = {}
  BY DEF Init
<1> QED BY <1>1, <1>2, <1>3, <1>4 DEF RequestInv, OnePerRequest

LEMMA RequestStep ==
    ASSUME ConsentAssumption, IInv, RequestInv, [Next]_vars
    PROVE  RequestInv'
<1>1. CASE UNCHANGED store
  BY <1>1 DEF store, RequestInv, CountedRequests, Asked, PreparedFor, OnePerRequest, LiveGrants
<1>2. ASSUME NEW c \in Clients, Quiet(c) \/ Renew(c) \/ Commits(c) PROVE RequestInv'
  BY <1>2, CountedRequestsStep, OnePerRequestStep DEF RequestInv
<1> QED BY <1>1, <1>2, NextSplit DEF ChangeConfig, vars

\* What is answered or deleted stays as it is.
LEMMA StepKeepsAnswers ==
    ASSUME ConsentAssumption, IInv, [Next]_vars
    PROVE  /\ \A r \in Requests : /\ asked[r] # NotAsked => asked'[r] = asked[r]
                                  /\ prepared[r] # None => prepared'[r] = prepared[r]
           /\ \A g \in Grants : grants[g].state = "gone" => grants'[g] = grants[g]
           /\ \A o \in Operations : operations[o].state = "gone" => operations'[o] = operations[o]
<1>1. CASE UNCHANGED store
  BY <1>1 DEF store
<1>2. ASSUME NEW c \in Clients, Quiet(c) \/ Renew(c) \/ Commits(c)
      PROVE  /\ \A r \in Requests : /\ asked[r] # NotAsked => asked'[r] = asked[r]
                                    /\ prepared[r] # None => prepared'[r] = prepared[r]
             /\ Evolves(c)
  <2>1. Evolves(c)
    BY <1>2, StepEvolves
  <2>2. CASE PrepareCommit(c)
    BY <2>1, <2>2, PrepareAnswers DEF IInv, TypeOK
  <2>3. CASE RequestCommit(c)
    BY <2>1, <2>3, RequestAnswers DEF IInv, TypeOK
  <2>4. CASE ~PrepareCommit(c) /\ ~RequestCommit(c)
    BY <1>2, <2>1, <2>4, OthersAnswerNothing
  <2> QED BY <2>2, <2>3, <2>4
<1> QED BY <1>1, <1>2, NextSplit DEF Evolves, Endures, GrantEndures, ChangeConfig, vars

-----------------------------------------------------------------------------
(* Authority at the entry                                                  *)

\* What a reserved call knows of the authority it was given under: the command
\* is its operation's, and the configuration that its service has refreshed to
\* is not older than the reservation.
Authorised(c) ==
    /\ view[c] <= config
    /\ call[c].does = "enter" =>
         /\ call[c].basis # None
         /\ call[c].basis = "operation" => call[c].command = CommandOf[call[c].operation]
         /\ call[c].since <= config
         /\ call[c].stage \in {"renew", "commit"} => call[c].since <= view[c]
AuthorityInv == \A c \in Clients : Authorised(c)

\* A call comes to renew by a refresh and to its transaction by a renewal.
LEMMA StageMoves ==
    ASSUME TypeOK, CallInv, NEW c \in Clients, Quiet(c) \/ Renew(c) \/ Commits(c)
    PROVE  /\ call'[c].stage \in {"renew", "commit"} => Refresh(c) \/ Renew(c)
           /\ config' = config /\ (view' = view \/ Refresh(c))
<1>1. call \in [Clients -> CallType]
  BY RecordsFunctions
<1>2. CASE Start(c)
  <2>1. call'[c].stage = "refresh"
    BY <1>2, StartMoves DEF Starts
  <2>2. config' = config /\ view' = view
    BY <1>2 DEF Start, Begin, StartObserve, StartPrepare, StartRequest, StartInvoke,
                StartDiscard, StartReduce
  <2> QED BY <2>1, <2>2
<1>3. CASE Refresh(c) \/ Renew(c)
  BY <1>3 DEF Refresh, Renew
<1>4. Return(c) => call'[c].stage = "ready"
  BY <1>1 DEF Return, Ready
<1>5. CASE \/ PrepareCommit(c) \/ RequestCommit(c) \/ Answer(c) \/ FinishCommit(c) \/ Report(c)
           \/ ReduceCommit(c) \/ Crash(c)
  BY <1>4, <1>5 DEF PrepareCommit, RequestCommit, Answer, FinishCommit, Report, ReduceCommit, Crash
<1>6. ASSUME NEW k, call' = [call EXCEPT ![c] = k], k.stage \notin {"renew", "commit"}
      PROVE  call'[c].stage \notin {"renew", "commit"}
  BY <1>1, <1>6
<1>7. CASE Outdated(c) \/ RecordIntent(c) \/ EnterCommit(c) \/ CancelCommit(c)
  <2>1. call'[c].stage \in {"refresh", "running", "refused"}
    <3>1. Outdated(c) \/ RecordIntent(c) => call'[c].stage = "refresh"
      BY <1>1 DEF Outdated, RecordIntent, CallType
    <3>2. EnterCommit(c) => call'[c].stage = "running"
      BY <1>1 DEF EnterCommit, CallType
    <3>3. CancelCommit(c) => call'[c].stage = "refused"
      BY <1>1 DEF CancelCommit, CallType
    <3> QED BY <1>7, <3>1, <3>2, <3>3
  <2> QED BY <1>7, <2>1 DEF Outdated, RecordIntent, EnterCommit, CancelCommit
<1>8. Withdrawn(c).stage \notin {"renew", "commit"}
  BY <1>1 DEF Withdrawn, Ready, CallType
<1>9. CASE IntentFails(c) \/ EnterRefused(c)
  BY <1>6, <1>8, <1>9 DEF IntentFails, EnterRefused
<1>10. CASE ReserveCommit(c)
  <2> DEFINE stage == IF call[c].command \in Effectful THEN "intent" ELSE "refresh"
  <2>1. call' = [call EXCEPT ![c] = [call[c] EXCEPT !.does = "enter", !.basis = Basis(c),
                   !.stage = stage, !.generation = context.generation, !.since = config]]
    BY <1>10 DEF ReserveCommit
  <2>2. stage \notin {"renew", "commit"}
    OBVIOUS
  <2> HIDE DEF stage
  <2>3. call'[c].stage = stage
    BY <1>1, <2>1 DEF CallType
  <2> QED BY <1>10, <2>2, <2>3 DEF ReserveCommit
<1>11. CASE DiscardCommit(c)
  <2>1. CASE Closing(c) = {}
    BY <1>1, <1>11, <2>1 DEF DiscardCommit, Ready
  <2>2. CASE Closing(c) # {}
    <3>1. PICK targets : call' = [call EXCEPT ![c] = [call[c] EXCEPT !.does = "drop",
                                               !.stage = "refresh", !.targets = targets]]
      BY <1>11, <2>2 DEF DiscardCommit
    <3>2. call'[c].stage = "refresh"
      BY <1>1, <3>1 DEF CallType
    <3> QED BY <1>11, <3>2 DEF DiscardCommit
  <2> QED BY <1>11, <2>1, <2>2 DEF DiscardCommit
<1>12. ASSUME NEW o \in Operations, DropCommit(c, o)
       PROVE  /\ call'[c].stage \notin {"renew", "commit"}
              /\ config' = config /\ view' = view
  <2>1. CASE call[c].targets = {o} \/ Active(o)
    BY <1>1, <1>12, <2>1 DEF DropCommit, Ready
  <2>2. CASE ~(call[c].targets = {o} \/ Active(o))
    <3>1. PICK targets : call' = [call EXCEPT ![c] = [call[c] EXCEPT
                                               !.stage = "refresh", !.targets = targets]]
      BY <1>12, <2>2 DEF DropCommit
    <3>2. call'[c].stage = "refresh"
      BY <1>1, <3>1 DEF CallType
    <3> QED BY <1>12, <3>2 DEF DropCommit
  <2> QED BY <2>1, <2>2
<1>13. CASE Complete(c)
  <2>1. call'[c].stage \notin {"renew", "commit"}
    BY <1>1, <1>13 DEF Complete, Ready, CallType
  <2> QED BY <1>13, <2>1 DEF Complete
<1>14. CASE GiveUp(c)
  <2>1. CASE call[c].does = "enter"
    BY <1>6, <1>8, <1>14, <2>1 DEF GiveUp
  <2>2. CASE call[c].does # "enter"
    BY <1>1, <1>14, <2>2 DEF GiveUp, Ready, CallType
  <2> QED BY <1>14, <2>1, <2>2 DEF GiveUp
<1> QED BY <1>2, <1>3, <1>5, <1>7, <1>9, <1>10, <1>11, <1>12, <1>13, <1>14 DEF Quiet, Commits

LEMMA AuthorityStep ==
    ASSUME ConsentAssumption, IInv, AuthorityInv, [Next]_vars
    PROVE  AuthorityInv'
<1>0. /\ TypeOK /\ CallInv /\ call \in [Clients -> CallType]
      /\ config \in Nat /\ view \in [Clients -> Nat]
  BY RecordsFunctions DEF IInv, TypeOK, ConsentAssumption
<1>1. CASE ChangeConfig
  <2>1. config' = config + 1 /\ call' = call /\ view' = view
    BY <1>1 DEF ChangeConfig
  <2> QED BY <1>0, <2>1 DEF AuthorityInv, Authorised, CallType
<1>2. ASSUME NEW c \in Clients, Quiet(c) \/ Renew(c) \/ Commits(c) PROVE AuthorityInv'
  <2>1. /\ CallStep(c) /\ config' = config /\ (view' = view \/ Refresh(c))
        /\ call'[c].stage \in {"renew", "commit"} => Refresh(c) \/ Renew(c)
    BY <1>0, <1>2, CallStepLemma, StageMoves
  <2>2. ASSUME NEW d \in Clients \ {c} PROVE Authorised(d)'
    <3>1. call'[d] = call[d] /\ view'[d] = view[d]
      BY <1>0, <2>1 DEF CallStep, Others, Refresh
    <3> QED BY <2>1, <3>1 DEF AuthorityInv, Authorised
  <2>3. view'[c] <= config'
    BY <1>0, <2>1 DEF AuthorityInv, Authorised, Refresh
  <2>4. ASSUME call'[c].does = "enter"
        PROVE  /\ call'[c].basis # None
               /\ call'[c].basis = "operation" => call'[c].command = CommandOf[call'[c].operation]
               /\ call'[c].since <= config'
               /\ call'[c].stage \in {"renew", "commit"} => call'[c].since <= view'[c]
    <3>1. CASE Reserves(c)
      <4>1. MayReserve(c) /\ call[c].does = "reserve"
        BY <3>1 DEF Reserves, ReserveCommit, Committing
      <4>2. Basis(c) # None
        BY <4>1 DEF MayReserve
      <4>3. Basis(c) = "operation" => call[c].operation # None
        BY <4>1 DEF MayReserve, Basis, Scope
      <4>4. call[c].operation # None => call[c].command = CommandOf[call[c].operation]
        BY <1>0, <4>1 DEF CallInv
      <4>5. call'[c].stage \notin {"renew", "commit"}
        BY <3>1 DEF Reserves
      <4> QED BY <1>0, <2>1, <3>1, <4>2, <4>3, <4>4, <4>5 DEF Reserves, Carries
    <3>2. CASE GoesOn(c)
      <4>1. /\ call[c].does = "enter" /\ call'[c].since = call[c].since
            /\ call'[c].basis = call[c].basis /\ call'[c].command = call[c].command
            /\ call'[c].operation = call[c].operation
        BY <2>4, <3>2 DEF GoesOn, Carries, KeepsProof
      <4>2. Refresh(c) => view'[c] = config
        BY <1>0 DEF Refresh
      <4>3. Renew(c) => view' = view /\ call[c].stage = "renew"
        BY DEF Renew
      <4> QED BY <1>0, <2>1, <4>1, <4>2, <4>3 DEF AuthorityInv, Authorised
    <3>3. CASE Starts(c) \/ call'[c] = Ready \/ Cancels(c) \/ EntersNow(c) \/ Disposes(c)
      BY <2>4, <3>3 DEF Starts, Ready, Cancels, EntersNow, Disposes, Calls
    <3> QED BY <2>1, <3>1, <3>2, <3>3 DEF CallStep
  <2>5. Authorised(c)'
    BY <2>3, <2>4 DEF Authorised
  <2> QED BY <2>2, <2>5 DEF AuthorityInv
<1>3. CASE UNCHANGED vars
  BY <1>3 DEF vars, AuthorityInv, Authorised
<1> QED BY <1>1, <1>2, <1>3, NextSplit

LEMMA AuthorityInit ==
    ASSUME Init
    PROVE  AuthorityInv
BY DEF Init, AuthorityInv, Authorised, Ready

\* Who enters has just passed the last look at authority (_enter).
LEMMA EntersByCommit ==
    ASSUME TypeOK, CallInv, [Next]_vars, NEW c \in Clients, Enters(c)
    PROVE  EnterCommit(c)
<1>1. ASSUME NEW d \in Clients, Quiet(d) \/ Renew(d) \/ Commits(d) PROVE EnterCommit(c)
  <2>1. CallStep(d)
    BY <1>1, CallStepLemma
  <2>2. d = c
    BY <2>1 DEF CallStep, Others, Enters
  <2> QED BY <2>1, <2>2
          DEF CallStep, Enters, Starts, Ready, GoesOn, Cancels, Reserves, EntersNow, Disposes
<1>2. call' # call
  BY DEF Enters
<1> QED BY <1>1, <1>2, NextSplit DEF ChangeConfig, vars

LEMMA EntersAuthorised ==
    ASSUME ConsentAssumption, IInv, AuthorityInv, NEW c \in Clients, EnterCommit(c)
    PROVE  /\ context.generation = call[c].generation
           /\ call[c].basis = "initial" => call[c].command \notin context.reduced
           /\ call[c].basis # "initial" =>
                /\ grants[call[c].grant].state \in {"authorised", "reserved"}
                /\ grants[call[c].grant].command = call[c].command
                /\ grants[call[c].grant].generation = context.generation
                /\ ~grants[call[c].grant].revoked
           /\ \E n \in call[c].since .. config : call[c].command \in Policy[n].permissions
<1>1. /\ MayEnter(c) /\ Committing(c, "enter") /\ Authorised(c)
      /\ TypeOK /\ CallInv /\ GrantInv /\ call[c] \in CallType
  BY DEF EnterCommit, IInv, AuthorityInv, TypeOK
<1>2. call[c].basis \in {"initial", "command", "operation"} /\ call[c].does = "enter" /\ call[c].stage = "commit"
  BY <1>1 DEF Authorised, Committing, CallType, Bases
<1>3. context.generation = call[c].generation
  BY <1>1 DEF MayEnter, SameGeneration
<1>4. call[c].basis = "initial" => call[c].command \notin context.reduced
  BY <1>1 DEF MayEnter, Initial
<1>5. call[c].basis = "command" =>
        /\ grants[call[c].grant].state = "authorised" /\ ~grants[call[c].grant].revoked
        /\ grants[call[c].grant].command = call[c].command
        /\ grants[call[c].grant].generation = context.generation
  BY <1>1 DEF MayEnter, ValidGrant
<1>6. ASSUME call[c].basis = "operation"
      PROVE  /\ grants[call[c].grant].state = "reserved" /\ ~grants[call[c].grant].revoked
             /\ grants[call[c].grant].command = call[c].command
             /\ grants[call[c].grant].generation = context.generation
  <2> DEFINE g == call[c].grant
             o == call[c].operation
  <2>1. Holds(c) /\ StillReserved(c) /\ call[c].command = CommandOf[o]
    BY <1>1, <1>2, <1>6 DEF CallInv, Admitted, MayEnter, Authorised
  <2>2. /\ g \in Grants /\ grants[g].state = "reserved" /\ ~grants[g].revoked
        /\ o \in Operations /\ grants[g].operation = o /\ o # None
        /\ operations[o].state # "gone" /\ operations[o].generation = call[c].generation
    BY <2>1 DEF Holds, StillReserved, Unwritten, ConsentAssumption
  <2> HIDE DEF g
  <2>3. grants[g].command = CommandOf[o] /\ operations[o].generation = grants[g].generation
    BY <1>1, <2>2 DEF GrantInv, Unwritten
  <2> QED BY <1>3, <2>1, <2>2, <2>3 DEF g
<1>7. \E n \in call[c].since .. config : call[c].command \in Policy[n].permissions
  <2>1. call[c].command \in Policy[view[c]].permissions
    BY <1>1 DEF MayEnter, Permitted
  <2>2. call[c].since <= view[c] /\ view[c] <= config
    BY <1>1, <1>2 DEF Authorised
  <2>3. call[c].since \in Nat /\ view[c] \in Nat /\ config \in Nat
    BY <1>1 DEF TypeOK, CallType, ConsentAssumption
  <2> QED BY <2>1, <2>2, <2>3
<1> QED BY <1>2, <1>3, <1>4, <1>5, <1>6, <1>7

-----------------------------------------------------------------------------
(* Theorems                                                                *)

\* In every reachable state, for all values of the constants.
THEOREM Invariance == Spec => []IInv
<1>1. Init => IInv
  BY InvInit, ConsentAssumption
<1>2. IInv /\ [Next]_vars => IInv'
  BY InvStep, InvStutter, ConsentAssumption
<1> QED BY <1>1, <1>2, PTL DEF Spec

\* Every record stays well formed; no counter of consent.py drops below zero.
THEOREM TypeCorrect == Spec => []TypeOK
<1>1. IInv => TypeOK
  BY DEF IInv
<1> QED BY <1>1, Invariance, PTL

\* The counters of consent.py count the records, and a request id yields one
\* grant and one prepared operation at most.
THEOREM RecordsCounted == Spec => []RecordsSound
<1>1. Init => RequestInv
  BY RequestInit, ConsentAssumption
<1>2. IInv /\ RequestInv /\ [Next]_vars => RequestInv'
  BY RequestStep, ConsentAssumption
<1>3. IInv /\ RequestInv => RecordsSound
  BY DEF IInv, RequestInv, Counted, CountedRequests, Asked, PreparedFor, RecordsSound, CountsExact
<1> QED BY <1>1, <1>2, <1>3, Invariance, PTL DEF Spec

\* consent.py keeps a specific grant and its operation in step.
THEOREM Coupling == Spec => []GrantMatchesOperation
<1>1. IInv => GrantMatchesOperation
  BY DEF IInv
<1> QED BY <1>1, Invariance, PTL

\* authorisation.py records the intent first, and one effect at most follows.
THEOREM IntentFirst == Spec => []EffectFollowsIntent
<1>1. IInv => EffectFollowsIntent
  BY DEF IInv, EffectInv
<1> QED BY <1>1, Invariance, PTL

\* _enter looks again: no effect is entered under consent that was withdrawn or
\* under a permission that had ended when consent was reserved.
THEOREM EntryAuthorised == Spec => EntersUnderAuthority
<1>1. Init => AuthorityInv
  BY AuthorityInit
<1>2. IInv /\ AuthorityInv /\ [Next]_vars => AuthorityInv'
  BY AuthorityStep, ConsentAssumption
<1>3. IInv /\ AuthorityInv /\ [Next]_vars =>
        [\A c \in Clients : Enters(c) =>
           /\ context.generation = call[c].generation
           /\ call[c].basis = "initial" => call[c].command \notin context.reduced
           /\ call[c].basis # "initial" =>
                /\ grants[call[c].grant].state \in {"authorised", "reserved"}
                /\ grants[call[c].grant].command = call[c].command
                /\ grants[call[c].grant].generation = context.generation
                /\ ~grants[call[c].grant].revoked]_vars
  BY EntersByCommit, EntersAuthorised, ConsentAssumption DEF IInv
<1>4. IInv /\ AuthorityInv /\ [Next]_vars =>
        [\A c \in Clients : Enters(c) =>
           \E n \in call[c].since .. config : call[c].command \in Policy[n].permissions]_vars
  BY EntersByCommit, EntersAuthorised, ConsentAssumption DEF IInv
<1> QED BY <1>1, <1>2, <1>3, <1>4, Invariance, PTL
        DEF Spec, EntersUnderAuthority, RevokedNeverEnters, EntersUnderPermission

\* consent.py answers a retry as the first time: what a request id has been
\* given is not changed, and what was deleted is never written again.
THEOREM AnswersStand == Spec => ReplayProtectionKept
<1>1. IInv /\ [Next]_vars =>
        [/\ \A r \in Requests : /\ asked[r] # NotAsked => asked'[r] = asked[r]
                                /\ prepared[r] # None => prepared'[r] = prepared[r]
         /\ \A g \in Grants : grants[g].state = "gone" => grants'[g] = grants[g]
         /\ \A o \in Operations : operations[o].state = "gone" => operations'[o] = operations[o]
        ]_vars
  BY StepKeepsAnswers, ConsentAssumption
<1> QED BY <1>1, Invariance, PTL DEF Spec, ReplayProtectionKept

-----------------------------------------------------------------------------
(***************************************************************************)
(* Specific consent is one-shot: Consent implements PreparedOnce.  A new   *)
(* grant for a prepared operation is Grant, an entry under specific        *)
(* consent is Use.  Every other step leaves each ticket as it is or closes *)
(* it, and closes none that was used: CloseStep.                           *)
(***************************************************************************)

IsOpen(o) ==
    \/ operations[o].state = "absent"
    \/ operations[o].state = "prepared" /\ operations[o].generation = context.generation

IsGranted(o) ==
    /\ operations[o].state \in {"authorised", "reserved"}
    /\ operations[o].generation = context.generation
    /\ ~grants[operations[o].grant].revoked

Worth(o) ==
    IF uses[o] > 0 THEN "used" ELSE IF IsOpen(o) THEN "open"
    ELSE IF IsGranted(o) THEN "granted" ELSE "closed"

LEMMA TicketWorth ==
    ASSUME NEW o \in Operations, uses[o] \in Nat
    PROVE  Ticket(o) = Worth(o)
<1>1. uses[o] > 0 \/ uses[o] = 0
  OBVIOUS
<1>2. CASE uses[o] > 0
  <2>1. ~(uses[o] = 0)
    BY <1>2
  <2> QED BY <1>2, <2>1 DEF Ticket, Worth
<1>3. CASE uses[o] = 0
  <2>1. ~(uses[o] > 0)
    BY <1>3
  <2> QED BY <1>3, <2>1 DEF Ticket, Worth, IsOpen, IsGranted
<1> QED BY <1>1, <1>2, <1>3

LEMMA TicketsWorth ==
    ASSUME TypeOK, TypeOK'
    PROVE  \A o \in Operations : Ticket(o) = Worth(o) /\ Ticket(o)' = Worth(o)'
<1>1. \A o \in Operations : uses[o] \in Nat /\ uses'[o] \in Nat
  BY DEF TypeOK
<1>2. ASSUME NEW o \in Operations, uses'[o] \in Nat PROVE Ticket(o)' = Worth(o)'
  <2>1. CASE uses'[o] > 0
    <3>1. ~(uses'[o] = 0)
      BY <2>1
    <3> QED BY <2>1, <3>1 DEF Ticket, Worth
  <2>2. CASE uses'[o] = 0
    <3>1. ~(uses'[o] > 0)
      BY <2>2
    <3> QED BY <2>2, <3>1 DEF Ticket, Worth, IsOpen, IsGranted
  <2> QED BY <1>2, <2>1, <2>2
<1> QED BY <1>1, <1>2, TicketWorth

tickets == [o \in Operations |-> Ticket(o)]

\* A step that closes some tickets, none of them used, and leaves the others.
LEMMA CloseStep ==
    ASSUME TypeOK, TypeOK', uses' = uses,
           \A o \in Operations : uses[o] = 0 => Worth(o)' \in {Worth(o), "closed"}
    PROVE  Prepared!Next
<1> DEFINE closing == {o \in Operations : Worth(o)' = "closed" /\ Worth(o) # "used"}
<1>1. ASSUME NEW o \in Operations
      PROVE  Ticket(o)' = IF o \in closing /\ Ticket(o) # "used" THEN "closed" ELSE Ticket(o)
  <2>1. uses[o] \in Nat /\ uses[o] = uses'[o]
    BY DEF TypeOK
  <2>2. CASE uses[o] > 0
    BY <2>1, <2>2, TicketsWorth DEF Worth
  <2>3. CASE uses[o] = 0
    <3>1. Worth(o) # "used"
      BY <2>3 DEF Worth
    <3>2. Worth(o)' \in {Worth(o), "closed"}
      BY <2>3
    <3> QED BY <3>1, <3>2, TicketsWorth
  <2> QED BY <2>1, <2>2, <2>3
<1>2. closing \in SUBSET Operations
  OBVIOUS
<1> HIDE DEF closing
<1>3. Prepared!Close(closing)
  BY <1>1 DEF Prepared!Close
<1> QED BY <1>2, <1>3 DEF Prepared!Next
-----------------------------------------------------------------------------
(* The steps that leave or close                                           *)

\* A ticket stays or closes when its operation does not begin a new life.
Fades(o) == uses[o] = 0 => Worth(o)' \in {Worth(o), "closed"}

\* The operation and what is known of its grant are unchanged.
LEMMA KeptFades ==
    ASSUME NEW o \in Operations, operations'[o] = operations[o], uses'[o] = uses[o],
           context'.generation = context.generation,
           operations[o].state \in {"authorised", "reserved"} =>
              (grants[operations[o].grant].revoked => grants'[operations[o].grant].revoked)
    PROVE  Fades(o)
BY DEF Fades, Worth, IsOpen, IsGranted

LEMMA SameGrantFades ==
    ASSUME TypeOK, OperationInv, UNCHANGED uses, SameContext, operations' = operations,
           \A g \in Grants : grants[g].state # "absent" => grants'[g] = grants[g]
    PROVE  \A o \in Operations : Fades(o)
<1>1. ASSUME NEW o \in Operations, operations[o].state \in {"authorised", "reserved"}
      PROVE  grants'[operations[o].grant] = grants[operations[o].grant]
  BY <1>1 DEF OperationInv
<1> QED BY <1>1, KeptFades DEF SameContext

\* An operation that ends, in whatever way.
LEMMA EndFades ==
    ASSUME NEW o \in Operations, uses'[o] = uses[o],
           operations'[o].state \notin {"absent", "prepared", "authorised", "reserved"}
    PROVE  Fades(o)
BY DEF Fades, Worth, IsOpen, IsGranted

\* The records of specific consent move to a state that is worth no more.
LEMMA MovesFade ==
    ASSUME TypeOK, OperationInv, NEW c \in Clients,
           NEW state \in {"authorised", "reserved", "spent", "revoked"},
           MovesBoth(c, state), UNCHANGED uses, SameContext,
           operations[call[c].operation].state # "absent",
           operations[call[c].operation].grant = call[c].grant
             \/ operations[call[c].operation].state = "gone",
           state \in {"authorised", "reserved"} =>
              operations[call[c].operation].state \in {"authorised", "reserved"}
    PROVE  \A o \in Operations : Fades(o)
<1>1. PICK g \in Grants, o \in Operations :
        /\ g = call[c].grant /\ o = call[c].operation
        /\ MovesGrant(g, state)
        /\ \A h \in Grants \ {g} : grants'[h] = grants[h]
        /\ \A p \in Operations \ {o} : operations'[p] = operations[p]
        /\ operations[o].state \in Unwritten => operations'[o] = operations[o]
        /\ operations[o].state \notin Unwritten => MovesOperation(o, state)
  BY DEF MovesBoth, OthersKeptGrants, OthersKeptOperations
<1>2. ASSUME NEW p \in Operations \ {o} PROVE Fades(p)
  <2>1. operations[p].state \in {"authorised", "reserved"} =>
          grants'[operations[p].grant].revoked = grants[operations[p].grant].revoked
    BY <1>1 DEF OperationInv, MovesGrant
  <2> QED BY <1>1, <2>1, KeptFades DEF SameContext
<1>3. Fades(o)
  <2>1. CASE state \in {"authorised", "reserved"}
    <3>1. /\ operations[o].state \in {"authorised", "reserved"} /\ operations[o].grant = g
          /\ MovesOperation(o, state)
      BY <1>1, <2>1 DEF Unwritten
    <3> QED BY <1>1, <2>1, <3>1
            DEF MovesOperation, MovesGrant, SameContext, Fades, Worth, IsOpen, IsGranted
  <2>2. CASE state \in {"spent", "revoked"}
    <3>1. operations'[o].state \notin {"absent", "prepared", "authorised", "reserved"}
      BY <1>1, <2>2 DEF MovesOperation, Unwritten
    <3> QED BY <3>1, EndFades
  <2> QED BY <2>1, <2>2
<1> QED BY <1>2, <1>3

LEMMA RenewFades ==
    ASSUME ConsentAssumption, TypeOK, OperationInv, NEW c \in Clients, Renew(c)
    PROVE  \A o \in Operations : Fades(o)
<1>1. UNCHANGED <<operations, grants, uses>>
  BY DEF Renew, history
<1>2. context' = context \/ context'.generation = context.generation + 1
  BY RenewStep
<1>3. \A o \in Operations : operations[o].generation \in Nat
  BY RecordsFunctions DEF OperationType
<1>4. context.generation \in Nat
  BY RecordsFunctions
<1> QED BY <1>1, <1>2, <1>3, <1>4 DEF OperationInv, Fades, Worth, IsOpen, IsGranted

LEMMA ReduceFades ==
    ASSUME TypeOK, OperationInv, NEW removed, NEW marked, Reduces(removed, marked),
           UNCHANGED uses, SameContext
    PROVE  \A o \in Operations : Fades(o)
<1> DEFINE S == {o \in LiveOperations : operations[o].grant \in removed}
<1>1. \A o \in Operations :
        IF o \in S THEN operations'[o].state = "revoked" ELSE operations'[o] = operations[o]
  BY DEF Reduces, Sets, MovesOperation
<1>2. ASSUME NEW o \in Operations, o \in S PROVE Fades(o)
  BY <1>1, <1>2, EndFades
<1>3. ASSUME NEW o \in Operations, o \notin S PROVE Fades(o)
  <2>1. operations[o].state \in {"authorised", "reserved"} =>
          /\ operations[o].grant \in Grants \ removed
    BY <1>3 DEF OperationInv, LiveOperations, Unwritten
  <2>2. ASSUME NEW g \in Grants \ removed PROVE grants[g].revoked => grants'[g].revoked
    BY <2>2 DEF Reduces
  <2> QED BY <1>1, <1>3, <2>1, <2>2, KeptFades DEF SameContext
<1> QED BY <1>2, <1>3

LEMMA CommitsFade ==
    ASSUME ConsentAssumption, IInv, NEW c \in Clients, Commits(c),
           ~(EnterCommit(c) /\ call[c].basis = "operation"),
           ~(RequestCommit(c) /\ Authorise(c) /\ call[c].operation # None)
    PROVE  uses' = uses /\ \A o \in Operations : Fades(o)
<1>0. /\ TypeOK /\ RecordInv /\ OperationInv /\ CallInv /\ FreshHeld /\ SameContext
  BY CommitsSameContext DEF IInv, RecordInv
<1> DEFINE g == call[c].grant
           o == call[c].operation
\* Consent that is held: its grant is the one that the operation names.
<1>1. g \in LiveGrants /\ o \in Operations /\ grants[g].operation = o =>
        /\ operations[o].state # "absent"
        /\ operations[o].grant = g \/ operations[o].state = "gone"
        /\ grants[g].state \in ActiveOperation => operations[o].state = grants[g].state
  <2>1. None \notin Operations
    BY DEF ConsentAssumption
  <2> QED BY <1>0, <2>1, Ungranted DEF RecordInv, GrantMatchesOperation
<1>2. CASE PrepareCommit(c)
  <2>1. uses' = uses /\ Prepares(o)
    BY <1>0, <1>2, PrepareMoves DEF PrepareCommit, history
  <2>2. PICK p \in Operations : p = o
    BY <2>1 DEF Prepares
  <2>3. Prepares(p)
    BY <2>1, <2>2
  <2>4. IsOpen(p) /\ IsOpen(p)'
    BY <1>0, <2>3 DEF Prepares, SameContext, IsOpen
  <2>5. Fades(p)
    BY <2>1, <2>4 DEF Fades, Worth
  <2>6. \A q \in Operations \ {p} : Fades(q)
    BY <1>0, <2>1, <2>3, KeptFades DEF Prepares, OthersKeptOperations, SameContext
  <2> QED BY <2>1, <2>5, <2>6
<1>3. CASE RequestCommit(c)
  <2>1. uses' = uses
    BY <1>3 DEF RequestCommit, history
  <2>2. CASE Reuse(c)
    BY <1>0, <2>1, <2>2, SameGrantFades DEF Reuse
  <2>3. CASE Authorise(c)
    <3>1. o = None
      BY <1>3, <2>3
    <3>2. Authorises(c, call[c].fresh, o)
      BY <1>0, <1>3, <2>3, AuthoriseMoves
    <3>3. operations' = operations /\ \A h \in Grants : grants[h].state # "absent" => grants'[h] = grants[h]
      BY <3>1, <3>2 DEF Authorises, OthersKeptGrants
    <3> QED BY <1>0, <2>1, <3>3, SameGrantFades
  <2> QED BY <1>3, <2>2, <2>3 DEF RequestCommit
<1>4. CASE ReserveCommit(c)
  <2>1. uses' = uses
    BY <1>4 DEF ReserveCommit, history
  <2>2. CASE Basis(c) = "operation"
    <3>1. /\ MovesBoth(c, "reserved") /\ operations[o].grant = g
          /\ operations[o].state = "authorised"
      BY <1>0, <1>4, <2>2, ReserveMoves
    <3> QED BY <1>0, <2>1, <3>1, MovesFade
  <2>3. CASE Basis(c) # "operation"
    BY <1>0, <1>4, <2>1, <2>3, ReserveMoves, SameGrantFades DEF RecordsKept
  <2> QED BY <2>2, <2>3
<1>5. CASE EnterCommit(c)
  <2>1. call[c].basis # "operation" /\ uses' = uses
    BY <1>5 DEF EnterCommit
  <2> QED BY <1>0, <1>5, <2>1, EnterMoves, SameGrantFades DEF RecordsKept
<1>6. CASE FinishCommit(c)
  <2>1. uses' = uses
    BY <1>6 DEF FinishCommit, history
  <2>2. CASE RecordsKept
    BY <1>0, <2>1, <2>2, SameGrantFades DEF RecordsKept
  <2>3. CASE ~RecordsKept
    <3>1. MovesBoth(c, "spent") /\ Holds(c) /\ grants[g].state \in {"entered", "spent"}
      BY <1>0, <1>6, <2>3, FinishMoves
    <3>2. g \in LiveGrants /\ o \in Operations /\ grants[g].operation = o
      BY <3>1 DEF Holds, LiveGrants, Unwritten
    <3> QED BY <1>0, <1>1, <2>1, <3>1, <3>2, MovesFade
  <2> QED BY <2>2, <2>3
<1>7. CASE CancelCommit(c)
  <2>1. uses' = uses
    BY <1>7 DEF CancelCommit, history
  <2>2. CASE RecordsKept
    BY <1>0, <2>1, <2>2, SameGrantFades DEF RecordsKept
  <2>3. CASE ~RecordsKept
    <3>1. PICK state \in {"authorised", "revoked"} :
            MovesBoth(c, state) /\ Holds(c) /\ grants[g].state = "reserved"
      BY <1>0, <1>7, <2>3, CancelMoves
    <3>2. g \in LiveGrants /\ o \in Operations /\ grants[g].operation = o
      BY <3>1 DEF Holds, LiveGrants, Unwritten
    <3>3. operations[o].state = "reserved"
      BY <1>1, <3>1, <3>2 DEF ActiveOperation
    <3> QED BY <1>0, <1>1, <2>1, <3>1, <3>2, <3>3, MovesFade
  <2> QED BY <2>2, <2>3
<1>8. CASE DiscardCommit(c)
  <2>1. uses' = uses /\ Sets(Closing(c), "discarding") /\ grants' = grants
    BY <1>0, <1>8, DiscardMoves DEF DiscardCommit, history
  <2>2. ASSUME NEW p \in Operations PROVE Fades(p)
    <3>1. CASE p \in Closing(c)
      BY <2>1, <3>1, EndFades DEF Sets, MovesOperation
    <3>2. CASE p \notin Closing(c)
      BY <1>0, <2>1, <3>2, KeptFades DEF Sets, SameContext
    <3> QED BY <3>1, <3>2
  <2> QED BY <2>1, <2>2
<1>9. ASSUME NEW p \in Operations, DropCommit(c, p)
      PROVE  uses' = uses /\ \A q \in Operations : Fades(q)
  <2>1. uses' = uses
    BY <1>9 DEF DropCommit, history
  <2>2. CASE RecordsKept
    BY <1>0, <2>1, <2>2, SameGrantFades DEF RecordsKept
  <2>3. CASE Drops(p)
    <3>1. Fades(p)
      BY <2>1, <2>3, EndFades DEF Drops
    <3>2. \A q \in Operations \ {p} : Fades(q)
      BY <1>0, <2>1, <2>3, KeptFades DEF Drops, OthersKeptOperations, SameContext
    <3> QED BY <2>1, <3>1, <3>2
  <2> QED BY <1>0, <1>9, <2>2, <2>3, DropMoves
<1>10. CASE ReduceCommit(c)
  <2>1. uses' = uses
    BY <1>10 DEF ReduceCommit, history
  <2> QED BY <1>0, <1>10, <2>1, ReduceMoves, ReduceFades
<1> QED BY <1>2, <1>3, <1>4, <1>5, <1>6, <1>7, <1>8, <1>9, <1>10 DEF Commits

-----------------------------------------------------------------------------
(* The steps that grant and use, and the theorem                           *)

LEMMA GrantStep ==
    ASSUME ConsentAssumption, IInv, IInv', NEW c \in Clients, RequestCommit(c), Authorise(c),
           call[c].operation # None
    PROVE  Prepared!Next
<1>0. /\ TypeOK /\ TypeOK' /\ RecordInv /\ OperationInv /\ CallInv /\ FreshHeld /\ Commits(c)
      /\ uses \in [Operations -> Nat] /\ SameContext
  BY RecordsFunctions, CommitsSameContext DEF IInv, RecordInv, Commits
<1>1. uses' = uses
  BY DEF RequestCommit, history
<1>2. PICK o \in Operations :
        /\ Authorises(c, call[c].fresh, o) /\ operations[o].state = "prepared" /\ o # None
  <2>1. /\ Authorises(c, call[c].fresh, call[c].operation)
        /\ operations[call[c].operation].state = "prepared"
    BY <1>0, AuthoriseMoves, NewForPrepared
  <2> QED BY <2>1 DEF Authorises
<1>3. o \in Operations /\ uses[o] = 0
  <2>1. uses[o] \in Nat
    BY <1>0
  <2>2. ~(uses[o] > 0)
    BY <1>0, <1>2 DEF OperationInv
  <2> QED BY <2>1, <2>2
<1>4. Worth(o) = "open"
  BY <1>2, <1>3 DEF Authorises, Worth, IsOpen
<1>5. Worth(o)' = "granted"
  BY <1>0, <1>1, <1>2, <1>3 DEF Authorises, SameContext, Worth, IsOpen, IsGranted
<1>6. ASSUME NEW p \in Operations \ {o} PROVE Worth(p)' = Worth(p)
  <2>1. operations'[p] = operations[p] /\ uses'[p] = uses[p]
    BY <1>1, <1>2 DEF Authorises, OthersKeptOperations
  <2>2. operations[p].state \in {"authorised", "reserved"} =>
          grants'[operations[p].grant] = grants[operations[p].grant]
    BY <1>0, <1>2 DEF OperationInv, Authorises, OthersKeptGrants
  <2> QED BY <1>0, <2>1, <2>2 DEF SameContext, Worth, IsOpen, IsGranted
<1>7. Ticket(o) = "open" /\ \A p \in Operations : Ticket(p)' = IF p = o THEN "granted" ELSE Ticket(p)
  BY <1>0, <1>3, <1>4, <1>5, <1>6, TicketsWorth
<1>8. Prepared!Grant(o)
  BY <1>1, <1>3, <1>7 DEF Prepared!Grant
<1> QED BY <1>3, <1>8 DEF Prepared!Next

LEMMA UseStep ==
    ASSUME ConsentAssumption, IInv, IInv', NEW c \in Clients, EnterCommit(c),
           call[c].basis = "operation"
    PROVE  Prepared!Next
<1>0. /\ TypeOK /\ TypeOK' /\ RecordInv /\ OperationInv /\ GrantMatchesOperation /\ CallInv
      /\ Commits(c) /\ uses \in [Operations -> Nat] /\ SameContext /\ None \notin Operations
  BY RecordsFunctions, CommitsSameContext DEF IInv, RecordInv, Commits, ConsentAssumption
<1>1. MovesBoth(c, "entered") /\ Holds(c) /\ StillReserved(c)
  BY <1>0, EnterMoves
<1> PICK o \in Operations, g \in Grants : o = call[c].operation /\ g = call[c].grant
  BY <1>1 DEF Holds
<1>2. uses' = [uses EXCEPT ![o] = @ + 1] /\ SameGeneration(c)
  BY DEF EnterCommit, MayEnter
<1>3. /\ o \in Operations /\ g \in Grants /\ grants[g].operation = o /\ o # None
      /\ g \in LiveGrants /\ grants[g].state = "reserved" /\ ~grants[g].revoked
      /\ operations[o].state \notin Unwritten
      /\ operations[o].generation = context.generation
  BY <1>0, <1>1, <1>2 DEF Holds, StillReserved, SameGeneration, LiveGrants, Unwritten
<1>4. operations[o].state = "reserved" /\ operations[o].grant = g
  BY <1>0, <1>3 DEF GrantMatchesOperation, ActiveOperation, Unwritten
<1>5. uses[o] = 0
  <2>1. uses[o] \in Nat
    BY <1>0
  <2>2. ~(uses[o] > 0)
    BY <1>0, <1>4 DEF OperationInv
  <2> QED BY <2>1, <2>2
<1>6. Worth(o) = "granted"
  BY <1>3, <1>4, <1>5 DEF Worth, IsOpen, IsGranted
<1>7. uses'[o] = 1 /\ \A p \in Operations \ {o} : uses'[p] = uses[p]
  BY <1>0, <1>2, <1>3, <1>5
<1>8. Worth(o)' = "used"
  BY <1>7 DEF Worth
<1>9. ASSUME NEW p \in Operations \ {o} PROVE Worth(p)' = Worth(p)
  <2>1. operations'[p] = operations[p] /\ uses'[p] = uses[p]
    BY <1>1, <1>7 DEF MovesBoth, OthersKeptOperations
  <2>2. operations[p].state \in {"authorised", "reserved"} =>
          operations[p].grant \in Grants \ {g}
    BY <1>0, <1>3 DEF OperationInv
  <2>3. \A h \in Grants \ {g} : grants'[h] = grants[h]
    BY <1>1 DEF MovesBoth, OthersKeptGrants
  <2> QED BY <1>0, <2>1, <2>2, <2>3 DEF SameContext, Worth, IsOpen, IsGranted
<1>10. Ticket(o) = "granted" /\ \A p \in Operations : Ticket(p)' = IF p = o THEN "used" ELSE Ticket(p)
  BY <1>0, <1>3, <1>6, <1>8, <1>9, TicketsWorth
<1>11. Prepared!Use(o)
  BY <1>2, <1>3, <1>10 DEF Prepared!Use
<1> QED BY <1>3, <1>11 DEF Prepared!Next

LEMMA RefinementStep ==
    ASSUME ConsentAssumption, IInv, IInv', Next
    PROVE  Prepared!Next
<1>0. TypeOK /\ TypeOK' /\ OperationInv
  BY DEF IInv
<1>1. uses' = uses /\ (\A o \in Operations : Fades(o)) => Prepared!Next
  BY <1>0, CloseStep DEF Fades
<1>2. CASE ChangeConfig
  BY <1>0, <1>1, <1>2, SameGrantFades DEF ChangeConfig, store, history, SameContext
<1>3. ASSUME NEW c \in Clients, Quiet(c) PROVE Prepared!Next
  BY <1>0, <1>1, <1>3, QuietKeeps, SameGrantFades DEF store, history, SameContext
<1>4. ASSUME NEW c \in Clients, Renew(c) PROVE Prepared!Next
  <2>1. uses' = uses
    BY <1>4 DEF Renew, history
  <2> QED BY <1>0, <1>1, <1>4, <2>1, RenewFades
<1>5. ASSUME NEW c \in Clients, Commits(c) PROVE Prepared!Next
  BY <1>1, <1>5, CommitsFade, GrantStep, UseStep
<1> QED BY <1>2, <1>3, <1>4, <1>5, NextSplit

\* DD-073: consent.py admits a prepared operation at most once, only while it is
\* granted, and never after it was closed.
THEOREM Refinement == Spec => ImplementsPreparedOnce
<1>1. Init => Prepared!Init
  <2>1. ASSUME Init, NEW o \in Operations PROVE Ticket(o) = "open"
    <3>1. uses[o] = 0 /\ uses[o] \in Nat /\ operations[o].state = "absent"
      BY <2>1 DEF Init, NoOperation
    <3> QED BY <3>1, TicketWorth DEF Worth, IsOpen
  <2> QED BY <2>1 DEF Prepared!Init, Init
<1>2. IInv /\ IInv' /\ [Next]_vars => [Prepared!Next]_<<tickets, uses>>
  <2>1. CASE Next
    BY <2>1, RefinementStep, ConsentAssumption
  <2>2. CASE UNCHANGED vars
    BY <2>2 DEF vars, store, history, tickets, Ticket
  <2> QED BY <2>1, <2>2
<1> QED BY <1>1, <1>2, Invariance, PTL DEF Spec, ImplementsPreparedOnce, Prepared!Spec, tickets

=============================================================================
