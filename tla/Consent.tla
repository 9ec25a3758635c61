------------------------------ MODULE Consent ------------------------------
(***************************************************************************)
(* Instance-owned consent (_application/consent.py) and the admission of   *)
(* invocations through it (_application/authorisation.py, application.py). *)
(*                                                                         *)
(* Several clients (the MCP server's requests, the processes of a CLI job) *)
(* share one owner's state store.  Each has its own ConsentService, hence  *)
(* its own view of the authorisation configuration, refreshed at the start *)
(* of every transaction.  A transaction of the service is one step here:   *)
(* StateStore shows that snapshot, change and compare-exchange amount to   *)
(* that.  What the service does between transactions is not atomic: the    *)
(* refresh of the view, the renewal of the context, the reading of a       *)
(* pointer before the transaction that uses it, the recording of an intent *)
(* between reservation and entry, the execution, a crash.                  *)
(*                                                                         *)
(* Identifiers are model values.  A permission or interface generation is  *)
(* an index into Policy, the successive configurations: a digest that      *)
(* covers the sources' change times never comes back.  A context           *)
(* generation (uuid4) is a fresh number.                                   *)
(***************************************************************************)
EXTENDS Integers, FiniteSets, Sequences

CONSTANTS
    Clients,        \* holders of a ConsentService on the same owner
    Commands,       \* command ids
    Operations,     \* operation ids (uuid4), each with its binding
    Grants,         \* grant ids (uuid4)
    Requests,       \* request ids of access.prepare and access.request
    Invocations,    \* invocation ids
    None,           \* an absent reference
    CommandOf,      \* CommandOf[o]: the command that o binds
    Effectful,      \* commands whose effect class is not NONE
    Contract,       \* Contract[c]: the command versions installed where c runs
    Policy,         \* successive configurations [permissions, initial, requests]
    MaxPrepared,    \* MAX_PREPARED_OPERATIONS
    MaxGrants,      \* MAX_GRANTS
    MaxRequests,    \* MAX_REQUEST_IDENTITIES
    MaxGeneration,  \* bound: context generations explored; the code has none
    Workload,       \* Workload[c]: the calls that c makes
    Faults          \* what may go wrong: "io", "crash", "contention"

Calls == {"observe", "prepare", "request", "invoke", "discard", "reduce"}

ASSUME ConsentAssumption ==
    /\ None \notin Operations \cup Grants \cup Requests \cup Invocations \cup Commands
    /\ CommandOf \in [Operations -> Commands]
    /\ Effectful \subseteq Commands
    /\ Contract \in [Clients -> Nat]
    /\ Policy \in Seq([permissions : SUBSET Commands, initial : SUBSET Commands,
                       requests : BOOLEAN])
    /\ Len(Policy) > 0
    /\ \A n \in 1 .. Len(Policy) : Policy[n].initial \subseteq Policy[n].permissions
    /\ MaxPrepared \in Nat /\ MaxGrants \in Nat /\ MaxRequests \in Nat
    /\ MaxGeneration \in Nat
    /\ Workload \in [Clients -> SUBSET Calls]
    /\ Faults \subseteq {"io", "crash", "contention"}

VARIABLES
    config,     \* index in Policy of the configuration on disk
    context,    \* the "consent/context" record
    operations, \* operations[o]: the prepared-operation record
    grants,     \* grants[g]: the grant record
    blanket,    \* blanket[m]: the "consent/command" pointer of command m
    prepared,   \* prepared[r]: the operation named by the preparation retry record
    asked,      \* asked[r]: the request tombstone
    intents,    \* invocations with an admission intent in the receipt ledger (see Receipts)
    view,       \* view[c]: the configuration that c's service last refreshed to
    call,       \* call[c]: the call that c is making
    uses,       \* history: uses[o], the entries of o that the owner granted
    effects     \* history: effects[i], the effectful entries granted to i

store == <<context, operations, grants, blanket, prepared, asked>>
history == <<uses, effects>>
vars == <<config, store, intents, view, call, history>>

-----------------------------------------------------------------------------
(* Records                                                                 *)

\* "absent": never written.  "gone": deleted; uuids are not used again.
OperationStates == {"absent", "prepared", "authorised", "reserved", "entered", "spent",
                    "revoked", "discarding", "gone"}
GrantStates == {"absent", "authorised", "reserved", "entered", "spent", "revoked", "gone"}
Unwritten == {"absent", "gone"}

NoOperation == [state |-> "absent", generation |-> 0, grant |-> None, invocation |-> None]
NoGrant == [state |-> "absent", command |-> None, version |-> 0, operation |-> None,
            generation |-> 0, request |-> None, invocation |-> None, revoked |-> FALSE]
NotAsked == [scope |-> "none", command |-> None, operation |-> None, grant |-> None,
             generation |-> 0]

LiveOperations == {o \in Operations : operations[o].state \notin Unwritten}
LiveGrants == {g \in Grants : grants[g].state \notin Unwritten}

\* A grant with an operation has scope "operation", one without "command".
Scope(operation) == IF operation = None THEN "command" ELSE "operation"

\* A call: what it does next, and where it is.  The service's transaction goes
\* refresh (read the configuration), renew (the context, if its generations
\* differ), commit.  basis and generation are those of the AdmissionProof; since
\* is history, the configuration on disk when the reservation was committed.
Ready == [does |-> "nothing", stage |-> "ready", command |-> None, operation |-> None,
          grant |-> None, fresh |-> None, request |-> None, invocation |-> None,
          same |-> TRUE, basis |-> None, generation |-> 0, since |-> 0,
          targets |-> {}, commands |-> {}]
Stages == {"ready", "refresh", "renew", "commit", "intent", "running", "refused"}
Bases == {None, "initial", "command", "operation"}

Init ==
    /\ config = 1
    /\ context = [generation |-> 0, permission |-> 0, contract |-> 0, reduced |-> {},
                  prepared |-> 0, granted |-> 0, asked |-> 0]
    /\ operations = [o \in Operations |-> NoOperation]
    /\ grants = [g \in Grants |-> NoGrant]
    /\ blanket = [m \in Commands |-> None]
    /\ prepared = [r \in Requests |-> None]
    /\ asked = [r \in Requests |-> NotAsked]
    /\ intents = {}
    /\ view = [c \in Clients |-> 1]
    /\ call = [c \in Clients |-> Ready]
    /\ uses = [o \in Operations |-> 0]
    /\ effects = [i \in Invocations |-> 0]

-----------------------------------------------------------------------------
(* Guards shared by the transactions                                       *)

\* _permission: the command is within the credential's permissions, and for
\* exceptional consent the policy accepts requests.
Permitted(c, m) == m \in Policy[view[c]].permissions
Requestable(c, m) == Permitted(c, m) /\ Policy[view[c]].requests

\* _initial (mutant: what the user reduced is forgotten).
Initial_IgnoresReduction(c, m) == m \in Policy[view[c]].initial
Initial(c, m) == m \in Policy[view[c]].initial /\ m \notin context.reduced

\* _valid_grant
ValidGrant(c, g, m) ==
    /\ g # None
    /\ grants[g].state = "authorised"
    /\ grants[g].command = m
    /\ grants[g].generation = context.generation
    /\ grants[g].version = Contract[c]
    /\ ~grants[g].revoked

\* The grant that an operation or a command points to now.
Pointer(m, o) == IF o # None THEN operations[o].grant ELSE blanket[m]

\* The pointer that was read before the transaction still stands (mutant: only
\* a command's is compared).
PointerStands_BlanketOnly(c) ==
    call[c].operation = None => Pointer(call[c].command, None) = call[c].grant
PointerStands(c) == Pointer(call[c].command, call[c].operation) = call[c].grant

SameGeneration(c) == context.generation = call[c].generation

\* The context carries the generations of c's view: the transaction goes on.
Current(c) == context.permission = view[c] /\ context.contract = Contract[c]

Committing(c, what) == call[c].stage = "commit" /\ call[c].does = what /\ Current(c)

\* An identifier nobody has used: never written, and in no one's hands.
FreshOperation(o) ==
    operations[o].state = "absent" /\ \A d \in Clients : call[d].operation # o
FreshGrant(g) ==
    grants[g].state = "absent" /\ \A d \in Clients : call[d].fresh # g

Return(c) == call' = [call EXCEPT ![c] = Ready]

-----------------------------------------------------------------------------
(* A client starts a call                                                  *)

Begin(c, kind, task) ==
    /\ call[c].stage = "ready"
    /\ kind \in Workload[c]
    /\ call' = [call EXCEPT ![c] = task]
    /\ UNCHANGED <<config, store, intents, view, history>>

\* check_permission, state, generation and the like: only _context().
StartObserve(c) ==
    Begin(c, "observe", [Ready EXCEPT !.does = "observe", !.stage = "refresh"])

\* access.prepare: a new operation id for the binding it has computed.
StartPrepare(c, r, o) ==
    /\ FreshOperation(o)
    /\ Begin(c, "prepare", [Ready EXCEPT !.does = "prepare", !.stage = "refresh",
                                         !.request = r, !.operation = o,
                                         !.command = CommandOf[o]])

\* access.request for an operation it has inspected or for a whole command: the
\* candidate grant is read here and used in the transaction.
StartRequest(c, r, m, o, g) ==
    /\ o # None => m = CommandOf[o] /\ operations[o].state \notin Unwritten
    /\ FreshGrant(g)
    /\ Begin(c, "request",
             [Ready EXCEPT !.does = "request", !.stage = "refresh", !.request = r,
                           !.command = m, !.operation = o, !.fresh = g,
                           !.grant = IF asked[r] # NotAsked THEN asked[r].grant
                                     ELSE Pointer(m, o)])

\* An invocation that has reached its admission, of a command or of a prepared
\* operation.  same: its inputs still have the digest that was prepared.
StartInvoke(c, i, m, o, same) ==
    /\ o # None => m = CommandOf[o] /\ operations[o].state \notin Unwritten
    /\ o = None => same
    /\ Begin(c, "invoke",
             [Ready EXCEPT !.does = "reserve", !.stage = "refresh", !.invocation = i,
                           !.command = m, !.operation = o, !.same = same,
                           !.grant = Pointer(m, o)])

\* access.reduce of operations (PreparationCoordinator.discard).
StartDiscard(c, targets) ==
    /\ targets # {}
    /\ Begin(c, "discard", [Ready EXCEPT !.does = "discard", !.stage = "refresh",
                                         !.targets = targets])

\* access.reduce of grants, all those listed now or some, or of commands.
StartReduce(c, targets, commands) ==
    /\ targets \subseteq LiveGrants
    /\ targets = {} \/ commands = {}
    /\ Begin(c, "reduce", [Ready EXCEPT !.does = "reduce", !.stage = "refresh",
                                        !.targets = targets, !.commands = commands])

-----------------------------------------------------------------------------
(* _context and the transaction loop                                       *)

Refresh(c) ==
    /\ call[c].stage = "refresh"
    /\ view' = [view EXCEPT ![c] = config]
    /\ call' = [call EXCEPT ![c] = [@ EXCEPT !.stage = "renew"]]
    /\ UNCHANGED <<config, store, intents, history>>

\* A context with other generations gets a new generation of its own.  The
\* first context of an owner is created in the same way.
Renew(c) ==
    /\ call[c].stage = "renew"
    /\ \/ Current(c) /\ UNCHANGED context
       \/ /\ ~Current(c) /\ context.generation < MaxGeneration
          /\ context' = [context EXCEPT !.generation = @ + 1, !.permission = view[c],
                                        !.contract = Contract[c]]
    /\ call' = [call EXCEPT ![c] = [@ EXCEPT !.stage = "commit"]]
    /\ UNCHANGED <<config, operations, grants, blanket, prepared, asked, intents, view, history>>

\* The context was renewed for somebody else's view meanwhile: start again.
Outdated(c) ==
    /\ call[c].stage = "commit" /\ ~Current(c)
    /\ call' = [call EXCEPT ![c] = [@ EXCEPT !.stage = "refresh"]]
    /\ UNCHANGED <<config, store, intents, view, history>>

-----------------------------------------------------------------------------
(* Preparation and request of consent                                      *)

\* create in prepare(): a request id not seen before, and room.
MayPrepare(c) ==
    /\ Requestable(c, call[c].command)
    /\ prepared[call[c].request] = None
    /\ context.prepared < MaxPrepared
    /\ context.asked < MaxRequests

PrepareCommit(c) ==
    /\ Committing(c, "prepare") /\ MayPrepare(c)
    /\ operations' = [operations EXCEPT ![call[c].operation] =
                        [NoOperation EXCEPT !.state = "prepared",
                                            !.generation = context.generation]]
    /\ prepared' = [prepared EXCEPT ![call[c].request] = call[c].operation]
    /\ context' = [context EXCEPT !.prepared = @ + 1, !.asked = @ + 1]
    /\ Return(c)
    /\ UNCHANGED <<config, grants, blanket, asked, intents, view, history>>

\* Mutant: a request id that has been answered is not looked up.
MayRequest_Again(c) ==
    /\ Requestable(c, call[c].command)
    /\ PointerStands(c)
    /\ context.asked < MaxRequests
    /\ call[c].operation # None =>
         /\ operations[call[c].operation].generation = context.generation
         /\ operations[call[c].operation].state \in {"prepared", "authorised"}

\* grant in request(): the pointer read before the transaction still stands,
\* and an operation is not yet entered.
MayRequest(c) ==
    /\ Requestable(c, call[c].command)
    /\ asked[call[c].request] = NotAsked
    /\ PointerStands(c)
    /\ context.asked < MaxRequests
    /\ call[c].operation # None =>
         /\ operations[call[c].operation].generation = context.generation
         /\ operations[call[c].operation].state \in {"prepared", "authorised"}

\* The grant that the pointer names is still good for exactly this scope.
Reusable(c) ==
    /\ ValidGrant(c, call[c].grant, call[c].command)
    /\ grants[call[c].grant].operation = call[c].operation

Tombstone(c, g) == [scope |-> Scope(call[c].operation), command |-> call[c].command,
                    operation |-> call[c].operation, grant |-> g,
                    generation |-> context.generation]

\* The consent is there already: only the tombstone is written.
Reuse(c) ==
    /\ Reusable(c)
    /\ asked' = [asked EXCEPT ![call[c].request] = Tombstone(c, call[c].grant)]
    /\ context' = [context EXCEPT !.asked = @ + 1]
    /\ UNCHANGED <<operations, grants, blanket>>

\* A new grant, and the pointer to it.
Authorise(c) ==
    /\ ~Reusable(c) /\ context.granted < MaxGrants
    /\ grants' = [grants EXCEPT ![call[c].fresh] =
                    [state |-> "authorised", command |-> call[c].command,
                     version |-> Contract[c], operation |-> call[c].operation,
                     generation |-> context.generation, request |-> call[c].request,
                     invocation |-> None, revoked |-> FALSE]]
    /\ IF call[c].operation = None
       THEN /\ blanket' = [blanket EXCEPT ![call[c].command] = call[c].fresh]
            /\ UNCHANGED operations
       ELSE /\ operations' = [operations EXCEPT ![call[c].operation] =
                               [@ EXCEPT !.state = "authorised", !.grant = call[c].fresh]]
            /\ UNCHANGED blanket
    /\ asked' = [asked EXCEPT ![call[c].request] = Tombstone(c, call[c].fresh)]
    /\ context' = [context EXCEPT !.asked = @ + 1, !.granted = @ + 1]

RequestCommit(c) ==
    /\ Committing(c, "request") /\ MayRequest(c)
    /\ Reuse(c) \/ Authorise(c)
    /\ Return(c)
    /\ UNCHANGED <<config, prepared, intents, view, history>>

-----------------------------------------------------------------------------
(* Admission: reservation, intent, entry, completion                       *)

\* The basis of the admission; None when there is none.
Basis(c) ==
    IF call[c].operation = None /\ Initial(c, call[c].command) THEN "initial"
    ELSE IF ValidGrant(c, call[c].grant, call[c].command)
    THEN Scope(grants[call[c].grant].operation) ELSE None

\* reserve in admit()
MayReserve(c) ==
    /\ Permitted(c, call[c].command)
    /\ PointerStands(c)
    /\ call[c].operation # None =>
         /\ operations[call[c].operation].generation = context.generation
         /\ operations[call[c].operation].state = "authorised"
         /\ call[c].same
    /\ Basis(c) # None
    /\ Basis(c) = "operation" => grants[call[c].grant].operation = call[c].operation

Mark(state, c) ==
    /\ grants' = [grants EXCEPT ![call[c].grant] =
                     [@ EXCEPT !.state = state, !.invocation = call[c].invocation]]
    /\ operations' = [operations EXCEPT ![call[c].operation] =
                         [@ EXCEPT !.state = state, !.invocation = call[c].invocation]]

\* Only specific consent is reserved.  An effectful command then records its
\* intent (before_enter); the others enter at once.
ReserveCommit(c) ==
    /\ Committing(c, "reserve") /\ MayReserve(c)
    /\ IF Basis(c) = "operation" THEN Mark("reserved", c) ELSE UNCHANGED <<grants, operations>>
    /\ call' = [call EXCEPT ![c] =
         [call[c] EXCEPT !.does = "enter", !.basis = Basis(c),
                         !.stage = IF call[c].command \in Effectful THEN "intent" ELSE "refresh",
                         !.generation = context.generation, !.since = config]]
    /\ UNCHANGED <<config, context, blanket, prepared, asked, intents, view, history>>

\* receipts.begin publishes the intent of an invocation at most once (mutant:
\* a published one is taken for this call's).
RecordIntent_Again(c) ==
    /\ call[c].stage = "intent"
    /\ intents' = intents \cup {call[c].invocation}
    /\ call' = [call EXCEPT ![c] = [call[c] EXCEPT !.stage = "refresh"]]
    /\ UNCHANGED <<config, store, view, history>>
RecordIntent(c) ==
    /\ call[c].stage = "intent" /\ call[c].invocation \notin intents
    /\ intents' = intents \cup {call[c].invocation}
    /\ call' = [call EXCEPT ![c] = [call[c] EXCEPT !.stage = "refresh"]]
    /\ UNCHANGED <<config, store, view, history>>

\* What follows a reservation that does not enter: specific consent is released
\* (mutant: it is not).
Withdrawn_Kept(c) == Ready
Withdrawn(c) ==
    IF call[c].basis = "operation" THEN [call[c] EXCEPT !.does = "cancel", !.stage = "refresh"]
    ELSE Ready

\* An intent exists already, or the ledger fails before or after publishing it.
IntentFails(c) ==
    /\ call[c].stage = "intent"
    /\ \/ call[c].invocation \in intents /\ UNCHANGED intents
       \/ "io" \in Faults /\ intents' \in {intents, intents \cup {call[c].invocation}}
    /\ call' = [call EXCEPT ![c] = Withdrawn(c)]
    /\ UNCHANGED <<config, store, view, history>>

\* The reservation is still this invocation's, and not revoked (mutant: or it
\* is).
StillReserved_Revoked(c) ==
    LET g == call[c].grant
        o == call[c].operation IN
    /\ grants[g].state = "reserved" /\ grants[g].invocation = call[c].invocation
    /\ operations[o].state \notin Unwritten
    /\ operations[o].invocation = call[c].invocation
StillReserved(c) ==
    LET g == call[c].grant
        o == call[c].operation IN
    /\ grants[g].state = "reserved" /\ ~grants[g].revoked
    /\ grants[g].invocation = call[c].invocation
    /\ operations[o].state \notin Unwritten
    /\ operations[o].invocation = call[c].invocation

\* enter in _enter(): the last look at authority.
MayEnter(c) ==
    /\ Permitted(c, call[c].command) /\ SameGeneration(c)
    /\ call[c].basis = "initial" => Initial(c, call[c].command)
    /\ call[c].basis = "command" => ValidGrant(c, call[c].grant, call[c].command)
    /\ call[c].basis = "operation" => StillReserved(c)

EnterCommit(c) ==
    /\ Committing(c, "enter") /\ MayEnter(c)
    /\ IF call[c].basis = "operation"
       THEN /\ Mark("entered", c)
            /\ uses' = [uses EXCEPT ![call[c].operation] = @ + 1]
       ELSE UNCHANGED <<grants, operations, uses>>
    /\ effects' = IF call[c].command \in Effectful
                  THEN [effects EXCEPT ![call[c].invocation] = @ + 1] ELSE effects
    /\ call' = [call EXCEPT ![c] = [call[c] EXCEPT !.does = "finish", !.stage = "running"]]
    /\ UNCHANGED <<config, context, blanket, prepared, asked, intents, view>>

\* The operation has run.  Only specific consent is marked spent (finish).
Complete(c) ==
    /\ call[c].stage = "running"
    /\ call' = [call EXCEPT ![c] =
                  IF call[c].basis = "operation" THEN [call[c] EXCEPT !.stage = "refresh"]
                  ELSE Ready]
    /\ UNCHANGED <<config, store, intents, view, history>>

\* The operation's record follows its grant's, unless it has been deleted.
Follow(o, state, invocation) ==
    operations' = [operations EXCEPT ![o] =
                     IF @.state \in Unwritten THEN @
                     ELSE [@ EXCEPT !.state = state, !.invocation = invocation]]

\* finish
FinishCommit(c) ==
    LET g == call[c].grant IN
    /\ Committing(c, "finish")
    /\ IF grants[g].invocation = call[c].invocation /\ grants[g].state \in {"entered", "spent"}
       THEN /\ grants' = [grants EXCEPT ![g] = [@ EXCEPT !.state = "spent"]]
            /\ Follow(call[c].operation, "spent", operations[call[c].operation].invocation)
       ELSE UNCHANGED <<grants, operations>>
    /\ Return(c)
    /\ UNCHANGED <<config, context, blanket, prepared, asked, intents, view, history>>

\* _cancel_admission: what is still reserved for this invocation can be used
\* again, unless it was revoked or its generation has ended.
CancelCommit(c) ==
    LET g == call[c].grant
        state == IF SameGeneration(c) /\ ~grants[g].revoked
                 THEN "authorised" ELSE "revoked" IN
    /\ Committing(c, "cancel")
    /\ IF grants[g].state = "reserved" /\ grants[g].invocation = call[c].invocation
       THEN /\ grants' = [grants EXCEPT ![g] = [@ EXCEPT !.state = state,
                                                         !.invocation = None]]
            /\ Follow(call[c].operation, state, None)
       ELSE UNCHANGED <<grants, operations>>
    /\ call' = [call EXCEPT ![c] = [call[c] EXCEPT !.stage = "refused"]]
    /\ UNCHANGED <<config, context, blanket, prepared, asked, intents, view, history>>

\* The caller is told that its invocation was refused.
Report(c) ==
    /\ call[c].stage = "refused"
    /\ Return(c)
    /\ UNCHANGED <<config, store, intents, view, history>>

-----------------------------------------------------------------------------
(* Reduction                                                               *)

ActiveOperation == {"authorised", "reserved", "entered"}

Closing(c) == call[c].targets \cap LiveOperations

\* close in begin_discard: all of the batch or nothing (mutant: consent that
\* nobody has used yet does not count).
MayDiscard_Authorised(c) ==
    \A o \in Closing(c) : operations[o].state \notin {"reserved", "entered"}
MayDiscard(c) == \A o \in Closing(c) : operations[o].state \notin ActiveOperation

DiscardCommit(c) ==
    /\ Committing(c, "discard") /\ MayDiscard(c)
    /\ operations' = [o \in Operations |->
                        IF o \in Closing(c) THEN [operations[o] EXCEPT !.state = "discarding"]
                        ELSE operations[o]]
    /\ call' = [call EXCEPT ![c] =
                  IF Closing(c) = {} THEN Ready
                  ELSE [call[c] EXCEPT !.does = "drop", !.stage = "refresh",
                                       !.targets = Closing(c)]]
    /\ UNCHANGED <<config, context, grants, blanket, prepared, asked, intents, view, history>>

\* reduce(operation_ids) of one of the closed descriptors, after its private
\* inputs are released; then the next.
Active(o) == operations[o].state \in ActiveOperation

DropCommit(c, o) ==
    /\ Committing(c, "drop") /\ o \in call[c].targets
    /\ IF o \in LiveOperations /\ ~Active(o)
       THEN /\ operations' = [operations EXCEPT ![o] = [NoOperation EXCEPT !.state = "gone"]]
            /\ context' = [context EXCEPT !.prepared = @ - 1]
       ELSE UNCHANGED <<operations, context>>
    /\ call' = [call EXCEPT ![c] =
                  IF call[c].targets = {o} \/ Active(o) THEN Ready
                  ELSE [call[c] EXCEPT !.stage = "refresh", !.targets = @ \ {o}]]
    /\ UNCHANGED <<config, grants, blanket, prepared, asked, intents, view, history>>

\* reduce(grant_ids, commands): a grant in use is marked, any other deleted.
InUse == {g \in LiveGrants : grants[g].state \in {"reserved", "entered"}}
Removed(c) == (call[c].targets \cap LiveGrants) \ InUse
GrantRemains == [NoGrant EXCEPT !.state = "gone"]

ReduceCommit(c) ==
    /\ Committing(c, "reduce")
    /\ grants' = [g \in Grants |->
                    IF g \in Removed(c) THEN GrantRemains
                    ELSE IF g \in call[c].targets \cap InUse
                    THEN [grants[g] EXCEPT !.revoked = TRUE] ELSE grants[g]]
    /\ operations' = [o \in Operations |->
                        IF o \in LiveOperations /\ operations[o].grant \in Removed(c)
                        THEN [operations[o] EXCEPT !.state = "revoked"] ELSE operations[o]]
    /\ context' = [context EXCEPT !.reduced = @ \cup call[c].commands,
                                  !.granted = @ - Cardinality(Removed(c))]
    /\ Return(c)
    /\ UNCHANGED <<config, blanket, prepared, asked, intents, view, history>>

-----------------------------------------------------------------------------
(* Refusals and failures                                                   *)

\* A transaction that writes nothing: an observation, or a ConsentError.
Answer(c) ==
    /\ \/ Committing(c, "observe")
       \/ Committing(c, "prepare") /\ ~MayPrepare(c)
       \/ Committing(c, "request") /\ (MayRequest(c) => ~Reusable(c) /\ context.granted >= MaxGrants)
       \/ Committing(c, "reserve") /\ ~MayReserve(c)
       \/ Committing(c, "discard") /\ ~MayDiscard(c)
    /\ Return(c)
    /\ UNCHANGED <<config, store, intents, view, history>>

EnterRefused(c) ==
    /\ Committing(c, "enter") /\ ~MayEnter(c)
    /\ call' = [call EXCEPT ![c] = Withdrawn(c)]
    /\ UNCHANGED <<config, store, intents, view, history>>

\* A transaction that lost eight times raises ConsentError "conflict".  A
\* cancellation that does leaves the reservation; a completion only reports.
GiveUp(c) ==
    /\ "contention" \in Faults /\ \E d \in Clients : d # c
    /\ call[c].stage = "commit"
    /\ call' = [call EXCEPT ![c] =
                  IF call[c].does = "enter" THEN Withdrawn(c)
                  ELSE IF call[c].does = "cancel" THEN [call[c] EXCEPT !.stage = "refused"]
                  ELSE Ready]
    /\ UNCHANGED <<config, store, intents, view, history>>

\* The client or its connection is lost.  A transaction may have been committed.
Crash(c) ==
    /\ "crash" \in Faults /\ call[c].stage \notin {"ready", "refused"}
    /\ Return(c)
    /\ UNCHANGED <<config, store, intents, view, history>>

\* An administrator replaces the authorisation configuration.
ChangeConfig ==
    /\ config < Len(Policy)
    /\ config' = config + 1
    /\ UNCHANGED <<store, intents, view, call, history>>

Start(c) ==
    \/ StartObserve(c)
    \/ \E r \in Requests, o \in Operations : StartPrepare(c, r, o)
    \/ \E r \in Requests, m \in Commands, o \in Operations \cup {None}, g \in Grants :
         StartRequest(c, r, m, o, g)
    \/ \E i \in Invocations, m \in Commands, o \in Operations \cup {None}, same \in BOOLEAN :
         StartInvoke(c, i, m, o, same)
    \/ \E targets \in SUBSET Operations : StartDiscard(c, targets)
    \/ \E targets \in SUBSET Grants, commands \in SUBSET Commands :
         StartReduce(c, targets, commands)

\* What c does without being asked, once it has started a call.
Proceed(c) ==
    \/ Refresh(c) \/ Renew(c) \/ Outdated(c)
    \/ PrepareCommit(c) \/ RequestCommit(c) \/ Answer(c)
    \/ ReserveCommit(c) \/ RecordIntent(c) \/ IntentFails(c)
    \/ EnterCommit(c) \/ EnterRefused(c)
    \/ Complete(c) \/ FinishCommit(c) \/ CancelCommit(c) \/ Report(c)
    \/ DiscardCommit(c) \/ (\E o \in Operations : DropCommit(c, o)) \/ ReduceCommit(c)

Next ==
    \/ ChangeConfig
    \/ \E c \in Clients : Start(c) \/ Proceed(c) \/ GiveUp(c) \/ Crash(c)

Spec == Init /\ [][Next]_vars

\* A client that has started a call goes on with it.
FairSpec == Spec /\ \A c \in Clients : WF_vars(Proceed(c))

-----------------------------------------------------------------------------
(* Properties                                                              *)

CallType ==
    [does : Calls \cup {"nothing", "reserve", "enter", "finish", "cancel", "drop"},
     stage : Stages, command : Commands \cup {None}, operation : Operations \cup {None},
     grant : Grants \cup {None}, fresh : Grants \cup {None}, request : Requests \cup {None},
     invocation : Invocations \cup {None}, same : BOOLEAN, basis : Bases,
     generation : Nat, since : Nat,
     targets : SUBSET (Operations \cup Grants), commands : SUBSET Commands]

\* Every record is well formed: in particular, no transaction writes a field of
\* another record's kind or drives a counter below zero.
TypeOK ==
    /\ config \in 1 .. Len(Policy)
    /\ context \in [generation : Nat, permission : Nat, contract : Nat,
                    reduced : SUBSET Commands, prepared : Nat, granted : Nat, asked : Nat]
    /\ operations \in [Operations -> [state : OperationStates, generation : Nat,
                                      grant : Grants \cup {None},
                                      invocation : Invocations \cup {None}]]
    /\ grants \in [Grants -> [state : GrantStates, command : Commands \cup {None},
                              version : Nat, operation : Operations \cup {None},
                              generation : Nat, request : Requests \cup {None},
                              invocation : Invocations \cup {None}, revoked : BOOLEAN]]
    /\ blanket \in [Commands -> Grants \cup {None}]
    /\ prepared \in [Requests -> Operations \cup {None}]
    /\ asked \in [Requests -> [scope : {"none", "operation", "command"},
                               command : Commands \cup {None},
                               operation : Operations \cup {None},
                               grant : Grants \cup {None}, generation : Nat]]
    /\ intents \subseteq Invocations
    /\ view \in [Clients -> 1 .. Len(Policy)]
    /\ call \in [Clients -> CallType]
    /\ uses \in [Operations -> Nat]
    /\ effects \in [Invocations -> Nat]

\* What a prepared operation is worth to its owner.  An operation of an ended
\* generation is closed although its record has not been touched.
Ticket(o) ==
    CASE uses[o] > 0 -> "used"
      [] uses[o] = 0 /\ operations[o].state = "absent" -> "open"
      [] uses[o] = 0 /\ operations[o].state = "prepared"
                     /\ operations[o].generation = context.generation -> "open"
      [] uses[o] = 0 /\ operations[o].state \in {"authorised", "reserved"}
                     /\ operations[o].generation = context.generation
                     /\ ~grants[operations[o].grant].revoked -> "granted"
      [] OTHER -> "closed"

Prepared == INSTANCE PreparedOnce WITH ticket <- [o \in Operations |-> Ticket(o)]

\* Specific consent is one-shot: whatever clients race, fail or crash between
\* reservation, intent, entry and completion, and however grants are reduced or
\* authority changes meanwhile, an operation is entered at most once, only
\* while granted, and never after it was closed.
ImplementsPreparedOnce == Prepared!Spec

\* The counters that enforce the capacities (128, 128 and 4096) count exactly
\* the records there are, through reuse, disposal, revocation and renewal.
CountsExact ==
    /\ context.prepared = Cardinality(LiveOperations)
    /\ context.granted = Cardinality(LiveGrants)
    /\ context.asked = Cardinality({r \in Requests : asked[r] # NotAsked})
                       + Cardinality({r \in Requests : prepared[r] # None})

\* A specific grant and its operation are two records of one fact: they are
\* reserved, entered and spent together and for the same invocation, and an
\* operation is disposed of only when its grant can admit nobody.
GrantMatchesOperation ==
    \A g \in LiveGrants : grants[g].operation # None =>
        LET o == grants[g].operation IN
        /\ operations[o].grant = g \/ operations[o].state = "gone"
        /\ grants[g].state \in ActiveOperation =>
             /\ operations[o].state = grants[g].state
             /\ operations[o].invocation = grants[g].invocation
        /\ operations[o].state \in ActiveOperation => grants[g].state = operations[o].state

\* An effectful entry is preceded by its intent in the ledger, and an
\* invocation id that is presented again never enters a second effect.
EffectFollowsIntent ==
    \A i \in Invocations : effects[i] <= IF i \in intents THEN 1 ELSE 0

\* Requests are retried; a request id yields one grant and one prepared
\* operation at most, and no operation is ever granted twice.
OnePerRequest ==
    /\ \A g, h \in LiveGrants : g # h =>
         /\ grants[g].request # grants[h].request
         /\ grants[g].operation # None => grants[g].operation # grants[h].operation
    /\ {o \in Operations : operations[o].state # "absent"} =
         {prepared[r] : r \in Requests} \ {None}

\* The step by which c's invocation enters its operation.
Enters(c) == call[c].stage # "running" /\ call'[c].stage = "running"

\* Consent that was reduced, revoked or outlived by its generation after the
\* reservation is not acted on: entry looks again.
RevokedNeverEnters ==
    [][\A c \in Clients : Enters(c) =>
         /\ context.generation = call[c].generation
         /\ call[c].basis = "initial" => call[c].command \notin context.reduced
         /\ call[c].basis # "initial" =>
              /\ grants[call[c].grant].state \in {"authorised", "reserved"}
              /\ grants[call[c].grant].command = call[c].command
              /\ grants[call[c].grant].generation = context.generation
              /\ ~grants[call[c].grant].revoked]_vars

\* Permission is judged by a configuration that was on disk when or after the
\* reservation was committed, although every service keeps its own view and any
\* of them may put the context back to an older one.
EntersUnderPermission ==
    [][\A c \in Clients : Enters(c) =>
         \E n \in call[c].since .. config : call[c].command \in Policy[n].permissions]_vars

\* A retry is answered as the first time for as long as its context lives: its
\* tombstone is never changed or removed, and a deleted grant or operation is
\* never written again.
ReplayProtectionKept ==
    [][/\ \A r \in Requests : /\ asked[r] # NotAsked => asked'[r] = asked[r]
                              /\ prepared[r] # None => prepared'[r] = prepared[r]
       /\ \A g \in Grants : grants[g].state = "gone" => grants'[g] = grants[g]
       /\ \A o \in Operations : operations[o].state = "gone" => operations'[o] = operations[o]
      ]_vars

\* Without a crash or an exhausted transaction, a reservation ends: it enters
\* and is spent, or it is released.
ReservationEnds ==
    \A g \in Grants : grants[g].state \in {"reserved", "entered"}
                        ~> grants[g].state \notin {"reserved", "entered"}

\* Every call returns.
CallsReturn == \A c \in Clients : call[c].stage # "ready" ~> call[c].stage = "ready"

\* An invocation enters only under consent and permission that still hold (_enter).
EntersUnderAuthority == RevokedNeverEnters /\ EntersUnderPermission

\* The records are well formed, counted, and one for each request (authorise, prepare).
RecordsSound == TypeOK /\ CountsExact /\ OnePerRequest

\* Calls return and the reservations they made end (admit, finish).
CallsSettle == ReservationEnds /\ CallsReturn
=============================================================================
