# A TLA+ verification of obsidian-brain

obsidian-brain ("the Brain") is a vault of Markdown files with a command
application in front of it.  Clients (an MCP server behind a proxy, a local
command line) invoke commands; commands that have effects need the user's
consent; results and outcomes are kept so that a caller who lost an answer can
find out what happened.  Several processes share the vault and the private
state, any of them may die at any moment, and calls are retried.

The project models the parts of this in which several actors, failures or
deaths meet: **who may enter an effect, and how often** (the consent store,
consent itself, the receipt ledger, the inputs of prepared operations), and
**what survives when something dies half way** (the upgrade and its journal, file
transactions and the registration migration, the relay that restarts its server,
results, relationship records).  The commands themselves are opaque.

All paths below are relative to `src/src/brain-core/scripts/` unless they start
with `src/`, `cli/` (`src/cli/`) or `brain_mcp/` (`src/src/brain-core/brain_mcp/`).

## 1. The modules

| module | models | kind |
|---|---|---|
| `AtomicStore` | what the consent owner's store promises | abstract specification |
| `StateStore` | `_bootstrap/consent_state.py`, `consent_owner.py`, the transaction and listing loops of `ConsentService` | detailed, implements `AtomicStore` |
| `PreparedOnce` | what specific consent promises | abstract specification |
| `Consent` | `_application/consent.py`, `authorisation.py`, the admission part of `application.py`, `access/reduce.py` | detailed, implements `PreparedOnce` |
| `Receipts` | the owned ledger in `_command_interface/receipts.py` | detailed |
| `Pins` | `_command_interface/consent_staging.py`, the preparation and disposal of `_application/authorisation.py`, lost calls of `consent_owner.py` | detailed |
| `AllOrNothing` | what an upgrade promises | abstract specification |
| `Upgrade` | `upgrade.py`, `_bootstrap/upgrade_journal.py` | detailed, implements `AllOrNothing` |
| `FileTransaction` | `_bootstrap/file_transaction.py` | component, a part of `Migration` |
| `Migration` | `_bootstrap/mcp_migration.py`, `execute_migrate` of `cli/_launcher/mcp.py` | detailed, extends `FileTransaction` |
| `Proxy` | `brain_mcp/proxy.py` | detailed |
| `ResultAccounting` | `_command_interface/result_accounting.py` | detailed |
| `ResultStore` | `_command_interface/result_store.py`: admission, publication, views, clearing, revocation | detailed |
| `ResultReads` | `_command_interface/result_delivery.py`: the rereading of live lists | detailed |
| `Relationships` | `_relationships/storage.py`, `_application/relationship/` | detailed |
| `StoreAndUpgradeProofs`, `ConsentProofs`, `ReceiptsProofs`, `PinsProofs`, `MigrationProofs`, `ProxyProofs`, `ResultProofs`, `RelationshipsProofs` | theorems | proofs |
| `MC*` | instances for TLC | model checking |

How they compose.  `Consent` takes a transaction of `ConsentService` (snapshot,
change, compare-exchange, retried) to be one step.  `StateStore` justifies it:
it models the snapshot, the compare-exchange and the paged listing as the
separate calls they are, and is shown to implement `AtomicStore`, in which they
happen at one instant.  `Pins` sends single calls to that store, any of which may
lose its caller.  `Consent` keeps the ledger as a set of `intents`, added
to atomically; `Receipts` justifies that an invocation is admitted at most once
for as long as its record is kept, and says what it takes for a record to be
given up (age, or being the oldest of a full ledger).  So `EffectFollowsIntent`
holds of the program for invocation ids presented again within that time: seven
days, or ten thousand later invocations (`_application/receipts.py:97`).
`Migration` runs the file transactions of `FileTransaction`, step by step, with
the journal around them.  `ResultStore` takes the byte accounting to be a refusal
or a failure of any durable step; `ResultAccounting` says what the accounting
computes.  `ResultReads` takes an operation of the store to be one step.

### 1.1 StateStore

`MemoryStateStore` keeps versioned records (`_records`), a running byte total
(`_bytes`), a revision that binds the pages of a listing (`_revision`), and a
closed flag.  A deletion leaves a tombstone that keeps its version, which is
what rules out ABA.

| code | action or definition |
|---|---|
| `snapshot` | `Snapshot`, in `Begin` and `Reread` |
| `compare_exchange` | `Apply` (it matched) and `Lose` (a version had moved; eight losses are a `conflict` error); `Matches`, `Replaced`, `UsedAfter`, `Overflow` are its parts |
| `list_keys`, `_all_keys` | `BeginListing`, `ContinueListing`; `ListingConflict` when the revision moved |
| `close`, use after close | `Close`, `FindClosed` |
| a client's death, or an answer lost by `RemoteStateStore._call` | `Vanish` |

A record's content is a model value with a weight; what the service writes is
any function of what it read, so every transaction the service could ever run
is among those explored.

### 1.2 Consent

State: the records in the owner's store (`context`, `operations`, `grants`,
the per-command pointers `blanket`, the retry records `prepared` and `asked`),
the configuration on disk (`config`), the ledger (`intents`), each service's
own view of the configuration, and what each client is doing.  `uses` and
`effects` are history: how often an operation was entered, and how often an
invocation entered an effect.

A call of a client goes through these stages; others may step in between.

1. `refresh`: read the configuration into the client's own view.
2. `renew`: if the generations in the context differ, write a new context.  An
   older view can overwrite a newer context; the next commit of the other
   client finds out (`Outdated`) and starts again.
3. `commit`: the transaction proper.
4. For an invocation: `reserve`, then `intent` (the ledger, outside any
   transaction), then `enter` (a second transaction, that looks at everything
   again), `running`, `finish`.  If the intent or the entry fails, `cancel`.

| code | action |
|---|---|
| `PreparationCoordinator.prepare`, `ConsentService.prepare` | `StartPrepare`, `PrepareCommit` |
| `request`: retry, reuse, authorise | `StartRequest`, `RequestCommit` (`Tombstone`, `Reuse`, `Authorise`) |
| `state` | `StartObserve` |
| `admit`, `_enter`, `_cancel_admission`, `finish` | `StartInvoke`, `ReserveCommit`, `RecordIntent`/`IntentFails`, `EnterCommit`/`EnterRefused`, `CancelCommit`, `FinishCommit` |
| `BrainApplication.invoke` | `Report`, `Complete` |
| `begin_discard`, `drop` | `StartDiscard`, `DiscardCommit`, `DropCommit` |
| `reduce` | `StartReduce`, `ReduceCommit` |
| eight lost compare-exchanges | `GiveUp` |
| a process dies | `Crash` |
| an administrator edits the configuration | `ChangeConfig` |

A generation of permissions is a digest over the sources including their change
times, so a configuration never comes back with an old generation: `Policy` is
a sequence.  Operation, grant and context identifiers are uuids: fresh ones are
drawn among identifiers never used.

Left out, because no property depends on it: the text of reviews and bindings,
the digest comparison of a binding (a prepared operation has one), inventory
paging (see StateStore), the `delivery_generation` stamp, the session controls,
and the standalone kind of context (which has one client).

### 1.3 Receipts

An intent file and an outcome file per invocation, and an index of the intents
with their times.  A writer holds the directory's file lock; a reader does not.
Between any two file operations of a writer the process may die, readers read,
time passes, and the index may be lost or damaged.

| code | action |
|---|---|
| `_locked_directory`, `_load_index_locked`, `_rebuild_index_locked` | `Open` |
| `_expire_index_locked`, `_trim_index_locked`, `_remove_record` | `doomed`, `Oldest`, and `Unlink`: one file at a time, the outcome first |
| `begin` | `StartBegin`, `Open`, `Unlink`..., `Refuse` or `Enrol`, `Unlink`..., `WriteIndex`, `Publish` |
| `finalise` | `Finalise` (a single atomic write under the lock) |
| `read` | `ReadIntent`, `ReadOutcome`, `Deliver` |
| `cleanup` | `StartCleanup`, `Open`, `Unlink`..., `EndCleanup` |
| the process dies; the lock is released by the system | `Crash` |

Left out: receipts of other owners and of the legacy format (both refuse the
call before it changes anything), and what an outcome says (an identical second
outcome is accepted, another one refused; here there is one outcome).
The superclass's own `write` is the legacy format and is not modelled.  The
clock does not go backwards.

### 1.4 Pins

State: the bytes on disk (`files`), the references in the owner's store (`pin`,
with versions), the descriptors of operations (`desc`), the coordination file
lock, the calls on their way to the owner (`wire`).  A process that dies releases
the lock; its last call may be served any time later.  An attempt ends `done`, or
`failed` when it could not discard what it had retained.

| code | action |
|---|---|
| `retain_content` | `Lock`, `Sweep` (collects what nothing refers to), `Write`, `SendPin`, `Pinned`, `Unlock` |
| `discard` | `Lock`, `Own`, `Others`, `SendUnpin`, `Unpinned`, `Sweep`, `Unlock` |
| `PreparationCoordinator.prepare` and its disposal on failure | `Start`, `SendPrepare`, `Prepared` (with the look at the operation, which may be refused) |
| a look at the references, a write or a removal that fails | `Break`; `Ended` says where it leaves the caller |
| `PreparationCoordinator.discard` | `BeginDiscard`, `Reduce` |
| the owner's thread for a connection | `Serve` (`ServePin`, `ServePrepare`) |
| a death, or an answer that is lost | `Die` |

### 1.5 Upgrade

On disk: `version`, the core's files, the vault's files with the migration ledger
among them, the journal (`head`, `lines`, `blobs`) and the recovery store
(`kept`).  In memory: `job`, lost by a kill.  What a file holds is the user's
last edit in it and the migrations that have transformed it.

| code | action |
|---|---|
| `upgrade`, the lock, `_recover_leftover_journal` | `Start`, `Recover` (closes a journal whose run has committed, restores another one) |
| the plan's guards | `Guard`, `Refuse` |
| `UpgradeJournal.capture`, `_append` | `Prepare`, `Capture`, `WriteBlob`, `WriteLine` |
| `_copy_core_except_version`, the migrations of each stage, the ledger | `Copy`, `Migrate`, `RecordResult`, `EndStage`, `Seed` |
| `_commit`, `_commit_version`, `discard` | `Cutover`, `WriteVersion`, `Discard`, `Sweep` |
| `_rollback`, `restore_journal`, `restore_snapshots` | `Fail`, `PlanRestore`, `RestoreFile`, `Verify`, `NextPass`, `RestoreCore`, `EndRollback` |
| an error of the file system | `RestoreFails`, `DiscardFails`, `VersionFails` |
| the process is killed; the user edits a file | `Kill`, `Edit` |

Left out: the compile between the stages, backups, dry runs, file modes and links,
and the managed runtime.  An edit that falls between a restore's look at a file
and its write is lost (`edited` says so): see section 5.

### 1.6 FileTransaction and Migration

A plan compares files with what it read and replaces them one after another;
on a failure it undoes what it has done, unless somebody has changed it since.
The migration journals the plan first, and a later run takes it up.

| code | action |
|---|---|
| `FilePlan.validate`, `apply_file_changes` | `Begin`, `Verify`, then per file `Look`, `Write`; `Commit` |
| its way back | `Failing`, per file `Unlook`, `Unwrite`, `Reread`; `RemoveFolder`, `Report` |
| `execute_migrate` | `Start`, `Resume`, `VerifyTransition`, `MakePlan`, `Record`, `Apply`, `Finish`, `End` |
| edits; a death | `OwnerEdits`, `Crash` |
| brains and workspaces registered or removed, directories that vanish | `Registry` (external) |

`Resume` refuses a content conflict, and, for as long as the registry does not know
the recorded targets or destinations (`~known`), the whole resumption: both leave the
journal pending.  A write may fail before or after its effect.  Left out: symbolic links, modes, a
signal between two statements of the way back, which registrations a plan
contains, and the other commands of `mcp.py`.  What a transaction has still to do
and what it has tried are sets of paths; the order of the names (`Rank`) says which
is next, and the way back goes through them in the reverse order.  An edit between
a look and the write that follows is lost, and one that makes a file hold just what
the transaction wants of it is taken for the transaction's own (`raced` keeps both).

### 1.7 Proxy

The relay's three threads: `main` takes requests of the client (`Take`) and
serves them (`Serve`), the reader forwards answers (`Read`, `Forward`) and claims
a loss (`Eof`, `Hang`), the recovery thread replaces the child (`Wake`,
`VersionReset`, `Decide`, `Attempt`, `Prepare`, `StartChild`, `Publish`, `Replay`,
`Resume`, `GiveUp`).
The shared state is the object's own, under its names.  `Signal`-ling a recovery
(`_signal_recovery`) drains what is in flight: protocol requests are kept to be
replayed, commands are answered as unknown.  Children answer, exit and are
installed anew as they like.

Where the code leaves the lock, the model has several steps.  The admission of a
refresh (`_admit_lifecycle`) is `Admit`, its checks, and `Hold`, which holds the
request; in between the main thread keeps `_restart_lock`, and the steps of others
that take it wait (`Free`).  The recovery thread tests for a held refresh (`Wake`), looks
at the disk and resets (`VersionReset`), and goes on with a recovery or not (`Decide`);
a refresh may be admitted between any two of them.  The death of the recovery thread
is `Crash` (the locked part of its handler), `Flag` (the flag the admission checks, set
without the lock) and `Crashed` (the look for a held refresh).

Left out: the initial negotiation, subscriptions and notifications, requests of
the server to its host, cancellation of a held refresh, and the replacement of
the relay's own process image.  Putting a replayed request in the table and
sending it is one step; the recovery thread dies, if at all, while it starts a child.

### 1.8 Results

`ResultAccounting`: a directory's bytes and its subtotal on disk, one marker for
the whole, a transaction under the lock with its operations (`StartWrite`,
`Flush`, `EndWrite`, `Mkdir`, `Remove`, `Move`), and how it ends (`Close`,
`Saving`, `SaveTotal`, or `Raise`, `Abort`); a transaction that finds the marker dirty
recounts (`Recount`, `Recounted`).  Left out: the overwriting and the removal of a
single file, which change one directory's bytes as a write and its undo do.

`ResultStore`: each operation takes the lock and goes through its durable steps:
`admit` (`TakeSlot`, `Supersede`), `publish` (`Stage`, `Install`, `Announce`,
or `Undo`), `save_view` (`StageView`, `InstallView`, `Point`, `DropView`, or
`UndoView`), `clear`, `revoke` (`ClearSlots`, `Entomb`, `Empty`).  Any durable
step may fail, and the process may die between two.

`ResultReads`: `_read` is `Begin`, `Look`, `Query`, `Recheck`, `Save`, `Select`,
`LastCheck`, `Commit`; what is between two of them happens without a lock while
the source changes, permission is withdrawn or given, or the result ends.  `Save` and
`Commit` may fail before or after their effect (the pointer, or the observation, has
been replaced, and then a directory cannot be synchronised or a subtotal not be
saved): the read is refused either way.  `lost` keeps the notices that were
committed and not answered.

### 1.9 Relationships

Records on disk (`rec`), the document that a native operation changes (`doc`),
a journal and an event per operation, the index and whether it counts as fresh
(`stale`, `incomplete`); `bound` says whether the endpoints that events mention can be
told apart.

| code | action |
|---|---|
| `Store.publish` | `Begin`, `AdmitNative`, `NativeWrite`, `WriteRecord`, `RecordsWritten`, `WriteEvent`, `Project`, `Reconcile`, `Complete` |
| `Store.repair` | `Repair`, `Verify`, then as `publish`, except that `WriteEvent` brings the locators of the event's endpoints up to date first (`Locates`, `Located`) or refuses (`Refusable`) |
| `Store.abandon`, `Service.cleanup` | `Abandon`, `Cleanup` |
| `Store.refresh` | `Refresh`, `Scan` |
| a failing write, a death, an edit outside | `Fail`, `Crash`, `Edit` |
| bindings become ambiguous, or unique again | `Rebind` (external) |

Left out: removal of records, several events of one operation, operations that write
an event and no record, which node a binding names, pages of a refresh, a cleanup
whose own publication fails.  Every write is taken to change the stamp of its
directory, from which the code tells that the index is stale.

## 2. What is checked

Each run checks a few invariants that are conjunctions of named parts, the
module's type invariant among them (`StoreSound == TypeOK /\ UsedExact /\ ...`):
the parts are stated and explained one by one in the modules.

| run | bounds | distinct states | shows |
|---|---|---|---|
| `store` | 2 clients, 2 records, values of two sizes (two small ones fit the capacity, a small and a large one do not), pages of 1 key, 2 attempts, 3 updates | 331 000 | `StoreSound` (types, the byte total, a conflict error means others were served), `SnapshotCurrent` (no ABA), refinement of `AtomicStore`, `Finishes` |
| `consent` | 1 operation, 1 grant, 1 request, 2 invocations, 2 configurations, capacity 1; failures of the ledger, crashes, exhausted retries | 2 230 000 | `GrantMatchesOperation`, `EffectFollowsIntent`, refinement of `PreparedOnce`, `EntersUnderAuthority` (revoked or reduced consent never enters; entry under a permission that was on disk) |
| `consent_requests` | 2 grants, 2 request ids, at the capacities, ledger failures | 342 000 | `RecordsSound` (types, exact counters, one grant per request), `ReplayProtectionKept`, `CallsSettle` (calls return, reservations end) |
| `receipts` | 2 processes, 3 invocations in a ledger for 2, retention 1, clock to 2 | 113 000 | `LedgerSound` (types, no unindexed intent, capacity, no outcome without intent), `OneClaim`, `ReadOfOneInstant`, `EvictsOldest` |
| `pins` | 3 attempts (two of them of one request, with the same input), room for 1 input, 1 disposer, 1 death, lost owner or failing step | 505 000 | `InputsKept` (an operation has its input, a returned reference stays, an attempt that reports no failed discard leaves nothing behind), `DisposedIsReleased`, `DiscardsReturn` |
| `upgrade` | 2 versions, 2 migrations (one of each stage; one declares its effects), 2 pages, 2 kills, 1 failure, 1 edit, 3 of them together | 1 360 000 | `JournalSound` (the journal is readable, VERSION and ledger never claim what is not there), `NoEditLost`, refinement of `AllOrNothing`, `Completes` |
| `migration` | 2 files, one in a directory that has to be made, and one read as evidence; 2 transitions, 2 failing writes, 1 kill, 1 edit (which may make what the plan wants, too), refusals by the registry | 2 146 000 | `JournalTellsTruth` (originals kept, complete means applied, a conflict means an edit), `ReportsTellTruth`, `EditsKept`, `TransitionSettles` |
| `proxy` | a command, a replayed request and a refresh, any two of them asked; 3 children, 2 versions, 1 backoff slot, replay depth 1, the recovery thread may die | 516 000 | `OwedIsHeld` (nothing owed is forgotten, an outage has an owner), `SentOnce` (no command twice, no retry invited, replays bounded), `RefreshLosesNothing`, `RelayServes` (every request is answered, losses are claimed) |
| `accounting` | root, owner, a directory in preparation and a result; 2 units each, 1 failure, 1 death | 1 750 000 | `AccountsExact` (a clean marker means exact subtotals, charges are exact), `LimitsHold` |
| `result_store` | 2 instances, 2 commands, 2 results each, 2 generations of views, 2 failures, 1 death | 807 000 | `ResultsWhole` (what can be read is whole, nothing left over), `EndedStaysEnded` |
| `reads` | 2 readers, 2 pages, 2 changes of the source, 1 withdrawal of the permission, any save or commit may fail | 14 815 000 | `AnswersTrue` (a page is of its revision and was permitted), `NoticesKept` (a change is announced unless its commit fails, and once) |
| `relationships` | 3 operations (one with a document) on 2 records, 1 failing write, 1 death, 1 edit, repairs that are refused | 432 000 | `EventsSound`, `IndexServes`, `NothingRevived`, `CommittedIsTold` |

Bounds.  Two clients suffice for the races of the store and of consent: every
conflict is between one call and the rest of the world, and what the rest does in
between is any sequence of the other client's calls.  Symmetry is used for
identifiers, processes, readers and instances, and only where no liveness is
checked.  `MaxRevision` ends the exploration of `StateStore` (the code has no
such bound; the run does not check for deadlock, and the proofs hold for every
value).  `MaxGeneration` bounds context generations.  In `consent_requests` there
is one configuration, so the context is renewed once.  `MaxTime` in `receipts` is
2 with a retention of 1: records expire (age 2) and records of different ages
compete; one record fewer than invocations makes every second claim evict.  Two
kills let a recovery be killed as well; one failure and one edit, at any of their
places, meet either.  Two failing writes let the way back of a file transaction fail,
too.  Three children let a replacement be lost while it is being prepared.  The
runs of `pins`, `proxy`, `result_store` and `relationships` end when their
bounds are used up, and so do not check for deadlock; the liveness properties
say that nobody is stuck before.

Fairness.  A client, a thread or a call that is at work goes on: the code is
straight-line Python between waits.  Nothing is assumed of new calls, of
failures, deaths, edits or changes, which may happen or not.  In particular:
`StateStore` and `Consent`, each client that is in a call; `Pins`, each process
and the owner; `Upgrade`, the running one (`WF(Step)`), and that an upgrade to the
newest version is tried again and again (`SF(Start)`: the lock is busy only while
another one runs); `Migration`, the run, and that it is run again, while nothing is
assumed of the registry; `Proxy`, each thread by itself, because no loop of it waits
for another without a timeout, and the handler of a dead recovery thread
(`WF(Flag \/ Crashed)`), which is straight-line code; `Relationships`, the call, that
the operator asks for each repair (`WF(Repair(o))`), and for a refresh whenever a
repair has asked for one (`SF(Refresh)`: the refusal says "refresh required"; strong,
because other calls come in between).  `consent_requests` excludes crashes and exhausted retries,
after which a reservation does stand for ever: that is what the code does (see
section 5).

Each property has a mutant of the code, defined beside the original in the module
(`..._Revoked`, `..._Again`), that breaks it; for a conjunction it breaks the
leading part.

## 3. What is proved

For every value of the constants under the named assumptions of the modules
(`StoreAssumption`, `ConsentAssumption`, `ReceiptAssumption`, `PinsAssumption`,
`TransactionAssumption`, `MigrationAssumption`, `ReadsAssumption`,
`RelationshipsAssumption`, `AccountingAssumption`, `ProxyAssumption`, `UpgradeAssumption`, and the `StoreAssumption` of `ResultStore`: identifiers
are distinct from the absent one, the sets of keys, receipt ids, inputs, paths and
migrations are finite, no two paths have the same place in the order, directories are a tree,
an operation writes at least one record, capacities, retention and bounds are natural numbers, positive
where the code's are):

* `StoreAndUpgradeProofs`, the store: `TypeCorrect`, `NoABA` (`SnapshotCurrent`),
  `ConflictIsProgress` (`ConflictMeansProgress`), `StoreIsSound` (`StoreSound`) and
  `StoreImplementsAtomicStore`.  The inductive invariant adds that no client
  holds a version the store has not reached, and that the pages gathered so far
  are the first keys of the listing of the revision they are bound to.  Then a
  compare-exchange that matches has read what is there, and the linearisation
  point of a listing is its last page.  That the byte total is the sum of the
  records' sizes (`UsedExact`) would take an induction over the keys if the sum
  were a fold; it is the cardinality of the set of units (`Volume`), which a
  compare-exchange takes apart into what it replaces and the rest
  (`VolumeSplits`, `ApplyExact`).
* `StoreAndUpgradeProofs`, the upgrade (in the same module, and sharing nothing with
  the store): `JournalIsSound` (`JournalSound`) and `EditsSurvive` (`NoEditLost`), for
  any migrations, in whichever order and whatever they declare.  `JournalSound` is not
  inductive: it speaks of what is on disk now, and a kill exposes what a restore
  will make of it.  The invariant `UpgradeInv` therefore says of every path what a
  restore would leave there (`RestoredIn`): at least what the installed version and
  the migrations that stay recorded did to it (`Base`, `Safe`).  That this is kept by the
  line that a capture adds is the heart of the proof (`WriteLineKeeps`): the line has
  the file as it is (`Owed`), and the first line of a path wins.  `LedgerAhead` (the
  ledger is captured before it is changed), `Headway` (which migrations are recorded in
  which phase) and `LedgerRestored` (a restore starts with the ledger, and only a failure
  leaves it) give the rest; `Journalled` says that bytes precede the lines that name
  them.  For the edits, `Saved` says that what a restore is about to write over is in
  the recovery store, or has been edited since it looked.
  `UpgradeIsAllOrNothing` is the refinement of `AllOrNothing`, for any migrations
  that are `Orderly`: in a stage no undeclared one that may still be due comes before, or
  with, a declared one of the same file (section 5 says what happens otherwise).  It is
  a hypothesis because the registered migrations are not modelled one by one.  For vaults
  from 0.62.9 on, whose later migrations all declare their effects, it holds: no version
  in `Versions` is below that of an undeclared migration.  The mapping takes
  for the content of a file what the next run will make of it (`Original`).  `UpgradeInv`
  bounds that from below; `ExactInv` bounds it from above (`Exact`), and needs for it that
  whatever a migration changes has been captured before (`Due`), that what it creates
  under a captured root is not captured afterwards (`Listed`, where `Orderly` is used),
  that no line of the second stage precedes the end of the first (`FirstStage`), that
  a run goes forward (`Newer`) and how far a restore has come (`Undone`).  Then every
  step leaves all originals alone (`SameOriginals`) except the two that may commit
  (`DiscardExact`, `WriteVersionExact`), which do all of it at once (`CommitIs`).
* `ConsentProofs`: `TypeCorrect`,
  `Coupling` (`GrantMatchesOperation`), `IntentFirst` (`EffectFollowsIntent`),
  `RecordsCounted` (`RecordsSound`), `EntryAuthorised` (`EntersUnderAuthority`),
  `AnswersStand` (`ReplayProtectionKept`).
  `GrantMatchesOperation` is not inductive: a stale client may commit a step
  that was right when it began.  The invariant `IInv` therefore says, besides
  what grants and operations say of each other (`OperationInv`, `GrantInv`),
  what a call in each stage may rely on, in particular that fresh identifiers
  stay unwritten and belong to one call, and that no two calls hold the same
  invocation past its intent.  One lemma per kind of transaction states what
  the records do (`ReserveMoves`, `EnterMoves`, ...), a second layer that these
  moves keep the invariant.  On top of it, `RequestInv` says that the request of
  a live grant is answered, and `AuthorityInv` that a call which has refreshed
  since its reservation has a view no older than that: so the permission it
  enters under was on disk in the meantime, although another service may have
  put the context back to an older view.
* `ConsentProofs`, the refinement: `Refinement`.  Every step of `Consent` is a
  `Grant`, a `Use`, a `Close` of some operations, or nothing.  The difficult
  step is the renewal of the context: it closes every open operation at once,
  without touching their records, and generations are never used again.
* `ReceiptsProofs`: all the safety of the ledger (`LedgerIsSound`,
  `AdmittedOnce`, `ReadsConsistent`, `OldestEvicted`, and the parts of
  `LedgerSound` one by one).  `NoUnindexedIntent` is not inductive,
  since a writer replaces the index by the copy it has in memory; `Sound` says
  of the lock's holder that every intent is in its copy or about to be removed,
  that its copy is within the capacity, and that an intent about to be written
  is in the index file.  `Reading` says of a reader that if the intent it saw
  has gone since, the ledger has said "unknown" in the meantime: an eviction
  removes the outcome first.

* `PinsProofs`: `InputsAreKept` (`InputsKept`) and `DisposalReleases`
  (`DisposedIsReleased`).  That an operation has its input is not inductive,
  because what the input is kept for may still be on its way.  `Relied` is what
  has to be there: the input of an attempt that is preparing, or whose prepare
  call has not been served, or whose operation is open.  What a discard releases
  is not relied on (`ReleasedNotRelied`).  A sweep keeps what was relied on when
  it counted the references (`Place`), since the holder of the lock is the only
  one who removes files, and nothing becomes relied on without a file and a
  reference of its own.  `Sent` says what a call on its way may still do when
  its process has died.  That nothing is left behind is said of attempts that ended
  `done`; a failed discard or a refused look makes them `failed` (section 5).
* `ResultProofs`, the store: `WholeResults` (`ResultsWhole`) and `EndedStays`
  (`EndedStaysEnded`).  `Reached` says what the holder of the lock has made sure
  of at each durable step, and `Tidy` what it still has to take away as long as
  nothing has failed.  A slot's number only grows, and what ended has a smaller
  number, or a slot that is cleared.
* `ResultProofs`, the reads: `PagesTrue` (`AnswersTrue`) and `Announced`
  (`NoticesKept`).  `Reading` says what a read may rely on at each of its steps
  whatever the others do; while no view went back, what was observed or selected
  is no newer than the current view.  What has been observed was announced, or its
  commit has failed after its effect (`lost`).
* `ResultProofs`, the accounting: `AccountsAreExact` (`AccountsExact`) and
  `LimitsAreHeld` (`LimitsHold`).  A subtotal is a cardinality too: one lemma for
  each thing that happens to a tree (`CountChanges`, `CountAdds`, `CountWithout`,
  `CountMoves`) says what it does to the subtotal of any directory.  In the middle
  of a call the subtotals in memory are not what the directories hold: they differ
  by what the call still owes (`Owing`), a charge for a directory not yet made or
  not yet moved (`MemoryExact`); a directory that was charged for stays in its
  limits until it is there (`CallSound`).  While a transaction saves, deepest
  first, it is done with the directories it has no work on (`WorkLeft`), and
  nothing is ever changed under a clean marker (`MarkedFirst`).  The proof needs
  that directories are a tree: of a directory's ancestors one is above the other,
  or a subtree would be given back to directories it was not in.
* `MigrationProofs`: `JournalTrue` (`JournalTellsTruth`), `ReportsTrue`
  (`ReportsTellTruth`) and `EditsAreKept` (`EditsKept`).  None of the reports is
  inductive: they are made after the transaction has forgotten what it did.
  `Progress` says where the transaction is (what is tried is what is done, and on
  the way back what is left to undo is a part of it), `Progressing` what the files
  hold meanwhile: a file of ours that is not as it was read has been tried, and as
  long as the way back has met no error it is still to be undone.  `Kept` relates
  the files to the journal: while a transition is not released, what the owner last
  had in a file is in the journal or still on disk.  `Telling` says that what a run
  has changed is what it has committed, or what its transaction has tried.
  What the registry allows plays no part in any of them.
  `FirstLast`, that the next path exists, is the one lemma that needs the paths to
  be finite.
* `ProxyProofs`: `CareHolds` (`OwedIsHeld`), `SentOnceHolds` (`SentOnce`) and
  `RefreshHolds` (`RefreshLosesNothing`).  `RecInv` gives each place of the
  recovery thread its meaning for the flags the other threads read; from it, no
  child is published while nobody recovers one, and a refresh finds nothing in
  flight.  Between the checks of an admission and its end the main thread has the
  lock: `MainInv` says that what the checks found still holds there.  That an outage
  has an owner leaves out a refresh that has overtaken a version reset (`Overtaken`).  `MainInv` says what remains true of the child that the main thread
  has read when the reader claims its loss in between: it is the published one,
  or it is not up.  `CallInv` adds to "sent once" who may still send (a command
  in the main thread's hands, or held, has not been sent), `ReplayInv` bounds
  what is sent by the replay depth.  `ClaimFacts` is the lemma on the claim, which
  all three threads make.
* `RelationshipsProofs`: `RecordsHold`, `EventsTrue` (`EventsSound`),
  `NothingComesBack` (`NothingRevived`) and `IndexBelieved` (`IndexServes`).
  `JournalInv` says what the state of a journal proves of its operation, `RunInv`
  what the running call has reached, and `SeenInv` that whatever was on disk at one
  time, before or after a roll back, is noted as having happened.  With at most one
  interruption at most one operation is left open (`LeftInv`), and a fresh index
  differs from the files by what the running call has still to bring up to date
  (`IndexInv`).

Only model-checked: the liveness properties (`Finishes`, `CallsSettle`,
`DiscardsReturn`, `Completes`, `TransitionSettles`, `RelayServes`,
`CommittedIsTold`), which are beyond the prover.

## 4. Inventory of the system

Components, the state they keep, what is hard about them, and what makes them
correct.  *modelled* means in this project.

| component | state and operations | interactions | hard behaviour | correct when |
|---|---|---|---|---|
| consent state store, *modelled* (`_bootstrap/consent_state.py`, `consent_owner.py`) | versioned records, byte total, revision; snapshot, compare-exchange, list, close | served in memory, or over a private channel to the processes of one owner | concurrent clients, lost answers, capacity, deletion and re-creation | transactions and listings are atomic |
| consent and admission, *modelled* (`_application/consent.py`, `authorisation.py`, `application.py`) | context, prepared operations, grants, retry records; prepare, request, reduce, discard, admit, finish | the store, the ledger, the configuration; brackets every command | reservation, intent and entry are three steps; views of the configuration differ; retries at every level | consent is used as given: once, under the authority it was given under, never after it was withdrawn |
| receipt ledger, *modelled* (`_command_interface/receipts.py`) | intent and outcome files, index; begin, finalise, read, cleanup | admission writes, callers who lost an answer read | several files per call, crashes, lock-free readers, eviction | admitted once; an outcome is never seen without its intent; bounded |
| prepared-content pins, *modelled* (`_command_interface/consent_staging.py`) | bytes in a directory, references in the store; retain, discard, read | preparation of large inputs | two stores, one of which may give an uncertain answer; shared bytes | a reference has its bytes; bytes without a reference are collected |
| MCP proxy, *partly modelled* (`brain_mcp/proxy.py` and its `_proxy_*` modules) | child process, calls in flight, recovery state | between the client's stdio and a restartable server | child loss during recovery, replay, give-up and version change, drain | every call is answered; an accepted call is never replayed; recovery ends |
| MCP server (`brain_mcp/server.py`, `_command_adapter.py`) | session | proxy and application | little: one request at a time | requests map to commands |
| upgrade and its journal, *partly modelled* (`upgrade.py`, `_bootstrap/upgrade_journal.py`) | snapshots per stage, blobs, header; snapshot, commit, recover, discard | rewrites the vault's own files | crash at any write, interrupted recovery, torn journal | all or nothing, and recovery is repeatable |
| file transactions, *modelled* (`_bootstrap/file_transaction.py`) | none between calls; apply a plan of file changes | used by registration, relationships, skills | failure in the middle, edits by others | undone unless somebody else has changed it |
| MCP registration migration, *partly modelled* (`_bootstrap/mcp_migration.py`, `cli/_launcher/mcp.py`) | a journal of the last transition | file transactions on the clients' configuration | deaths between journal, writes and verification; edits | originals are kept; a transition is completed, or refused with its conflict or for the registry |
| file locks and owned paths (`_bootstrap/file_lock.py`, `owned_paths.py`) | a lock file | everybody | platforms | one holder; the other modules assume it |
| result accounting, *modelled* (`_command_interface/result_accounting.py`) | subtotals with one dirty marker | the result store | interrupted transactions | subtotals that are believed are exact |
| result store and delivery, *partly modelled* (`result_store.py`, `result_delivery.py`) | slots, tickets, result files, views | admission of large results, paging through them | superseded tickets, revocation, changes between calls | a stale ticket publishes nothing; a page is what it says |
| relationship records, *partly modelled* (`_relationships/`) | record files, event journal, SQLite index | commands, edits by hand | publication in several steps, repair, stale index | an event tells the truth; the index is only a locator |
| machine maintenance (`_machine/maintenance.py`, `_bootstrap/maintenance_decisions.py`) | claims and dismissals of findings, with expiry | several operators | expiry against renewal | a live claim is held by one actor |
| MCP registration (`_bootstrap/mcp_*.py`) | entries in the clients' configuration files | file transactions | files edited by others | only own entries are touched |
| vault and workspace registries (`vault_registry.py`, `workspace_registry.py`, `_bootstrap/workspace_*.py`) | registry files, workspace manifests | launcher, commands | read-modify-write, stale bindings | aliases are unique; a binding is confirmed before it is used |
| context attachment, owner authentication (`_bootstrap/owner_attachment.py`, `_command_interface/owner_authentication.py`) | none that lasts | before consent | handshake | a context has one owner |
| authorisation policy and migration (`_command_interface/profiles.py`, `*_migration.py`, `permission_admin.py`) | policy files | read by consent | versions of the format | a migration never widens a permission |
| command catalogue and application (`_application/`) | none | dispatch | wide | each command does what it says |
| document editing (`edit.py`, `create.py`, `rename.py`, `fix_links.py`, `_common/`) | the vault | commands | text | wording and layout are kept |
| router, checks, session, definitions (`compile_router.py`, `check.py`, `session.py`, `sync_definitions.py`) | derived files | start of a session | wide | derived files agree with their sources |
| search and semantic index (`_search/`, `_semantic/`) | an index that can be rebuilt | retrieval commands | numerical | ranking |
| skill library (`_skill_library/`) | installed packages and their provenance | Git, file transactions | partial installation | local changes are not overwritten |
| operational log (`_common/_operational_log.py`) | log files | everybody writes | rotation | nothing depends on it |
| managed runtimes (`_common/_venv.py`, `_repair_runtime.py`) | Python environments | external tools | interrupted builds | a broken runtime is rebuilt |
| launcher and local CLI (`src/cli/`) | caches | starts the application | versions | the right Brain is started |
| release promotion (`src/src/scripts/_promotion/`) | a recovery plan | Git, maintainers only | interrupted promotion | can be resumed |
| laboratory, tests, templates, documentation | | | | |

`PROJECT.json` lists the hazards of this code line by line, with the properties
that cover each, or the module planned for it.

## 5. Known deviations

Where the code does something else than its comments, its tests or its documents
say.  The models behave as the code does; the properties are stated with the
exception named, and hold outside of it.

* **A refusal that is not released** (`application.py:84`).  The handler of
  `ConsentError` is said to be for "known refusals, including a positively
  cancelled reservation".  `_cancel_admission` (`consent.py:646`) is itself an
  optimistic transaction and raises the same error after it has lost eight times:
  the caller is told of a refusal while grant and operation stay reserved for its
  invocation, and no later step releases them.  Nothing unsafe follows (`consent`
  includes exhausted retries); `consent_requests` leaves them out.
* **A record hidden by the index** (`_relationships/storage.py:430`).
  `reconcile` stores the stamps of all directories after it has brought the rows
  of one operation up to date.  When two operations are open at the same time, the
  index counts as fresh without the other's records and its journal.  A cleanup
  that believes it removes the event of an unresolved publication, which "cannot be
  cleaned up" (`src/src/brain-core/standards/semantic-relationships.md:242`).  `IndexServes` and `CommittedIsTold` therefore have the
  premise or escape `OneInterruption`.
* **A notice that is not true** (`result_delivery.py:435`, text at `:288`).  A
  delayed older refresh may replace a newer view; the notice "this page reflects
  current data" then comes with a page older than the revision the read observed.
  An observation accepted before is then overwritten by one of an earlier view,
  against the docstring at `result_store.py:582`.  `AcceptedWins` excludes
  histories in which the view went back (`regressed`).
* **A refresh that overtakes a version reset** (`brain_mcp/proxy.py:2412`).  The
  recovery thread tests for a held refresh, looks at the disk without the lock
  (`:2274`-`:2296`) and then resets: `_gave_up` is cleared and a recovery asked for
  (`:2297`-`:2302`), also when a refresh has been admitted meanwhile.  It then goes on to
  the refresh (`:2433`), and when that fails to start a child, `_restart_in_progress`
  is cleared (`:2147`-`:2150`): there is no child, nobody recovers one, and the relay
  has not given up, so requests are refused until another refresh is asked for.
  `OutageIsOwned` excepts this state (`Overtaken`).
* **A refresh that nobody answers** (`brain_mcp/proxy.py:2386`).  The handler of a dead
  recovery thread sets the flag and tests for a held refresh without
  `_restart_lock`.  When an admission has tested the flag before (`:2112`) and holds its
  request only after the test (`:2390`, `:2117`), the request stays held for ever, and
  what comes after it is refused as long as the relay runs.  `EveryRequestAnswered`
  excepts this request (`Overlooked`).
* **A copy that its attempt leaves behind** (`_application/authorisation.py:106`).  When
  another attempt's operation was returned and the look at it is refused for
  another reason than that it is missing, the error is raised again without a discard.
  A discard that fails is only noted on the error (`:117`-`:122`).  In both cases the copy
  stays referenced in the owner's store, and takes up its room there and on disk, until
  the owner ends.  `NothingLeftBehind` is
  said of attempts that have not ended in this way.
* **A migration that waits for the registry** (`_bootstrap/mcp_migration.py:189`).
  Resumption refuses recorded targets that are no longer admitted (`:189`-`:197`) and a
  destination outside the registered layouts ("Recovery destination requires registry
  recovery first", `:211`).  The transition then stays pending, and every run is
  refused, until the registry is put right.  `TransitionSettles` is therefore
  said of a registry that allows the destinations in the end.
* **A notice that is lost** (`_command_interface/result_store.py:586`).
  `commit_page_observation` replaces the observation
  (`result_accounting.py:401`), and may then still fail: to synchronise the directory
  (`:402`) or to save a subtotal (`:251`).  The read is refused, and the next one finds the
  change observed and says nothing of it.  A process that dies between the commit and the
  answer loses the notice as well.  `ChangesAnnounced` excepts such notices (`lost`).
* **A repair that waits for a refresh** (`_relationships/storage.py:412`).  Before a repair
  tells a missing event it looks up the endpoints it mentions (`:436`-`:450`), and refuses
  when the index row is older than the file ("refresh required", `:266`), which it is when
  the interrupted operation itself changed the endpoint; or when the binding is
  ambiguous (`:444`) or would change the event (`:449`).  Repairing alone does not get
  further.  `CommittedIsTold` assumes a refresh after a
  refusal, and bindings that can be told apart (`bound`).
* **A second answer** (`brain_mcp/proxy.py:2746`).  A request whose answer the
  reader has taken off the pipe when its child is drained can be answered by both.
  The models' `RelayServes` asks for an answer, not for one only; what does hold is
  `SentOnce`.
* **One replay more** (`brain_mcp/proxy.py:2746`).  The depth of replays is
  reset by every answer that is forwarded, also by one that the reader took from
  a child before it was lost, and which is forwarded after its requests have been
  saved.  Between two answers a request is therefore sent up to
  `1 + _MAX_REPLAY_DEPTH` times by replays alone, not counting that it was sent
  before the first.  `ReplayBounded` counts from the last answer.
* **An undo that refuses** (`file_transaction.py:216`).  The way back validates
  what the plan depends on as well: a changed evidence file makes every undo refuse,
  although that file was not written.  The report then says so (`ReportsTellTruth`).
* **A created file that rollback keeps** (`upgrade_journal.py:307`).  A migration
  without a declaration has its tree captured, and restoring removes what the
  listing does not know.  When it creates a file that a later migration of the same
  stage declares, the file is captured as well, with the bytes of the first
  migration, and the restore puts those back instead of removing it, against "so
  restore can remove what the run creates" (`:288`).  The rollback is then reported as
  verified.  `ImplementsAllOrNothing`
  fails with such migrations, and is proved of all others (`Orderly`, which `MCUpgrade`
  assumes); `JournalSound` and `NoEditLost` hold (they are proved of every order).  The
  instance of `upgrade` has its undeclared migration alone in its stage.
* **A cutover that is rolled back** (`upgrade.py:3103`, "from here nothing rolls
  back").  When the journal cannot be discarded and the process is killed, or
  fails, before VERSION is written, the next run finds the journal of a run that
  did not commit, and restores it.  `AllOrNothing` counts the upgrade as done when
  the journal is closed, so this is the roll back of an upgrade not yet done.
* **An edit lost between a look and its write** (`upgrade_journal.py:618`, and in
  `file_transaction.py` between `:207` and `:210`).  A restore compares and then
  writes, without a lock that an editor would respect.  `NoEditLost` and
  `EditsKept` except such edits (`raced`).

## 6. The plan

Done: the admission of effects, the inputs of prepared operations, and the
storing and reading of results, with their proofs (`StateStore`, `Consent`,
`Receipts`, `Pins`, `ResultStore`, `ResultReads`), file transactions with the
migration, and relationship records (`Migration`, `Relationships`), and the
relay's supervision of its server (`Proxy`); the accounting (`ResultAccounting`);
`Upgrade` with `AllOrNothing` and the theorem of the refinement.

Next, in this order:

1. The maintenance claims with their expiry (`_bootstrap/maintenance_decisions.py`),
   the registries' read-modify-write.
2. In `Proxy`: initial negotiation and requests to the host.

### Not modelled

The commands, text transformation, router compilation, search, protocol formats,
catalogues, migrations of formats and process start: they are sequential, and
their properties are about wording, layout, numbers or external tools, none of
which a state machine tells apart.  They are most of the repository's lines.
Machine maintenance, the registries and the skill library keep files that several
operators may change; they stand behind the same lock and file transaction that
are modelled, and come after the theorems above.

## 7. Running it

    tlc -workers 2 -config MCConsent.cfg MCConsent.tla
    tlapm ConsentProofs.tla

Every configuration takes less than three minutes; the proofs take a few minutes
each.
