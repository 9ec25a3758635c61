----------------------------- MODULE StateStore -----------------------------
(***************************************************************************)
(* The consent owner's state: MemoryStateStore (_bootstrap/consent_state)  *)
(* and the way ConsentService uses it (_application/consent.py): read a    *)
(* snapshot of some records with their versions, compute writes from the   *)
(* values read, and submit a compare-exchange that the store applies only  *)
(* if none of the versions moved; eight attempts, then a "conflict" error. *)
(* Listings are paged, each page bound to the revision of the first one.   *)
(*                                                                         *)
(* A record's content is a member of Values.  Its size (key, version text  *)
(* and JSON) is Weight; a deleted record leaves a tombstone that keeps its *)
(* version and still weighs Weight[None].                                  *)
(***************************************************************************)
EXTENDS Integers, FiniteSets, FiniteSetsExt

CONSTANTS Clients,      \* services sharing the store, in one process or through RemoteStateStore
          Keys,         \* record keys, numbered in the order in which listings sort them
          Values,       \* record contents
          None,         \* no content: never written, or deleted
          Nothing,      \* a client that has had no result yet
          Weight,       \* bytes that a record of each content takes
          MaxBytes,     \* capacity of the store (MAX_STATE_BYTES)
          MaxAttempts,  \* compare-exchange attempts of a transaction (range(8))
          PageLimit,    \* keys in a page (MAX_PAGE_KEYS)
          MaxRevision   \* bound: updates explored; the code has none

Contents == Values \cup {None}

ASSUME StoreAssumption ==
    /\ Keys \subseteq Nat /\ IsFiniteSet(Keys)
    /\ None \notin Values
    /\ Weight \in [Contents -> Nat]
    /\ MaxBytes \in Nat
    /\ MaxAttempts \in Nat \ {0}
    /\ PageLimit \in Nat \ {0}
    /\ MaxRevision \in Nat

VARIABLES
    records,    \* records[k] = [version, content]: MemoryStateStore._records
    used,       \* MemoryStateStore._bytes
    revision,   \* MemoryStateStore._revision
    closed,     \* MemoryStateStore._closed
    tx,         \* tx[c]: c's transaction or listing
    result      \* result[c]: what c's last transaction read, or its last listing returned

vars == <<records, used, revision, closed, tx, result>>

NoRecord == [version |-> 0, content |-> None]

\* A client's call.  keys, seen: the records a transaction reads and their last
\* snapshot; begun: the revision when it began (history); pages, bound: what a
\* listing has gathered, and the revision its pages are bound to.
Between(stage) == [stage |-> stage, keys |-> {}, seen |-> [k \in Keys |-> NoRecord],
                   attempts |-> 0, begun |-> 0, pages |-> {}, bound |-> 0]
Idle == Between("idle")
Gone == Between("gone")

Stages == {"idle", "submit", "reread", "paging", "gone"}

Live == {k \in Keys : records[k].content # None}

Init ==
    /\ records = [k \in Keys |-> NoRecord]
    /\ used = 0
    /\ revision = 0
    /\ closed = FALSE
    /\ tx = [c \in Clients |-> Idle]
    /\ result = [c \in Clients |-> Nothing]

-----------------------------------------------------------------------------
(* snapshot() and compare_exchange()                                       *)

Snapshot(K) == [k \in Keys |-> IF k \in K THEN records[k] ELSE NoRecord]

\* The first snapshot of a transaction over the keys K.
Begin(c, K) ==
    /\ tx[c].stage = "idle" /\ ~closed
    /\ tx' = [tx EXCEPT ![c] = [stage |-> "submit", keys |-> K, seen |-> Snapshot(K),
                               attempts |-> 0, begun |-> revision, pages |-> {}, bound |-> 0]]
    /\ result' = [result EXCEPT ![c] = Nothing]
    /\ UNCHANGED <<records, used, revision, closed>>

\* The snapshot of a further attempt.
Reread(c) ==
    /\ tx[c].stage = "reread" /\ ~closed
    /\ tx' = [tx EXCEPT ![c] = [tx[c] EXCEPT !.stage = "submit", !.seen = Snapshot(tx[c].keys)]]
    /\ UNCHANGED <<records, used, revision, closed, result>>

\* Mutant: Only the least key, the context record, has its version compared.
Matches_ContextOnly(c) ==
    LET first == Min(tx[c].keys)
    IN  records[first].version = tx[c].seen[first].version

\* Every expected version is still the record's.
Matches(c) == \A k \in tx[c].keys : records[k].version = tx[c].seen[k].version

\* Mutant: Deleting a record forgets its version.
Replaced_ForgetsDeleted(new) ==
    [k \in Keys |-> IF k \in DOMAIN new
                    THEN IF new[k] = None THEN NoRecord
                         ELSE [version |-> records[k].version + 1, content |-> new[k]]
                    ELSE records[k]]

Replaced(new) ==
    [k \in Keys |-> IF k \in DOMAIN new
                    THEN [version |-> records[k].version + 1, content |-> new[k]]
                    ELSE records[k]]

\* A record never written takes no space, a tombstone does.
Size(record) == IF record.version = 0 THEN 0 ELSE Weight[record.content]

\* The sum of f, a function to the naturals: its units, counted one by one.
Volume(f) == Cardinality(UNION {{k} \X (1 .. f[k]) : k \in DOMAIN f})

Written(new) == Volume([k \in DOMAIN new |-> Weight[new[k]]])

\* Mutant: The size of a replaced record is not given back.
UsedAfter_NeverReturns(new) == used + Written(new)

\* The running total after the writes: each replaced record's size is
\* subtracted and its replacement's added.
UsedAfter(new) == used + Written(new) - Volume([k \in DOMAIN new |-> Size(records[k])])

\* The transaction's writes: any change to some of the records it read.
Writes(c) == UNION {[W -> Contents] : W \in SUBSET tx[c].keys}

\* The compare-exchange applies.  Over RemoteStateStore the answer may be lost
\* after that: OwnerConnectionError, the caller does not know and does not retry.
Apply(c) ==
    /\ tx[c].stage = "submit" /\ ~closed /\ Matches(c)
    /\ \E new \in Writes(c) :
         /\ UsedAfter(new) <= MaxBytes
         /\ DOMAIN new # {} => revision < MaxRevision
         /\ records' = Replaced(new)
         /\ used' = UsedAfter(new)
         /\ revision' = IF DOMAIN new # {} THEN revision + 1 ELSE revision
    /\ result' = [result EXCEPT ![c] = [read |-> [k \in tx[c].keys |-> tx[c].seen[k].content]]]
    /\ \E answered \in BOOLEAN :
         tx' = [tx EXCEPT ![c] = IF answered THEN Idle ELSE Gone]
    /\ UNCHANGED closed

\* The compare-exchange finds a moved version; the transaction takes another
\* snapshot, or after MaxAttempts raises ConsentError("conflict").
Lose(c) ==
    /\ tx[c].stage = "submit" /\ ~closed /\ ~Matches(c)
    /\ tx' = [tx EXCEPT ![c] = IF tx[c].attempts + 1 = MaxAttempts THEN Idle
                               ELSE [tx[c] EXCEPT !.stage = "reread",
                                                  !.attempts = tx[c].attempts + 1]]
    /\ UNCHANGED <<records, used, revision, closed, result>>

\* The writes would exceed the capacity: StoreCapacityError, nothing written.
Overflow(c) ==
    /\ tx[c].stage = "submit" /\ ~closed /\ Matches(c)
    /\ \E new \in Writes(c) : UsedAfter(new) > MaxBytes
    /\ tx' = [tx EXCEPT ![c] = Idle]
    /\ UNCHANGED <<records, used, revision, closed, result>>

-----------------------------------------------------------------------------
(* list_keys(), driven by ConsentService._all_keys                         *)

\* Live keys above every key already gathered, and the least PageLimit of them.
RestAfter(gathered) == {k \in Live : \A g \in gathered : g < k}
PageAfter(gathered) ==
    {k \in RestAfter(gathered) :
        Cardinality({j \in RestAfter(gathered) : j < k}) < PageLimit}

\* Take a page; it is the last one when it holds all the rest.
TakePage(c, gathered) ==
    LET all == gathered \cup PageAfter(gathered)
    IN  IF Cardinality(RestAfter(gathered)) <= PageLimit
        THEN /\ result' = [result EXCEPT ![c] = [keys |-> all]]
             /\ tx' = [tx EXCEPT ![c] = Idle]
        ELSE /\ tx' = [tx EXCEPT ![c] = [tx[c] EXCEPT !.stage = "paging", !.pages = all,
                                                       !.bound = revision]]
             /\ result' = [result EXCEPT ![c] = Nothing]

BeginListing(c) ==
    /\ tx[c].stage = "idle" /\ ~closed
    /\ TakePage(c, {})
    /\ UNCHANGED <<records, used, revision, closed>>

ContinueListing(c) ==
    /\ tx[c].stage = "paging" /\ ~closed
    /\ tx[c].bound = revision
    /\ TakePage(c, tx[c].pages)
    /\ UNCHANGED <<records, used, revision, closed>>

\* Mutant: A listing only notices a revision that moved backwards.
ListingConflict_Backwards(c) ==
    /\ tx[c].stage = "paging" /\ ~closed
    /\ tx[c].bound > revision
    /\ tx' = [tx EXCEPT ![c] = Idle]
    /\ UNCHANGED <<records, used, revision, closed, result>>

\* StoreConflictError: the caller restarts or reports.
ListingConflict(c) ==
    /\ tx[c].stage = "paging" /\ ~closed
    /\ tx[c].bound # revision
    /\ tx' = [tx EXCEPT ![c] = Idle]
    /\ UNCHANGED <<records, used, revision, closed, result>>

-----------------------------------------------------------------------------
(* The owner's lifetime                                                    *)

\* MemoryStateStore.close(): admission ends for good, the records are cleared.
Close ==
    /\ ~closed
    /\ closed' = TRUE
    /\ records' = [k \in Keys |-> NoRecord]
    /\ used' = 0
    /\ UNCHANGED <<revision, tx, result>>

\* Any call on a closed store raises StoreClosedError.
FindClosed(c) ==
    /\ closed /\ tx[c].stage # "gone"
    /\ tx' = [tx EXCEPT ![c] = Gone]
    /\ result' = [result EXCEPT ![c] = Nothing]
    /\ UNCHANGED <<records, used, revision, closed>>

\* A client process dies, or loses its channel before the update arrived.
Vanish(c) ==
    /\ ~closed /\ tx[c].stage # "gone"
    /\ tx' = [tx EXCEPT ![c] = Gone]
    /\ result' = [result EXCEPT ![c] = Nothing]
    /\ UNCHANGED <<records, used, revision, closed>>

Next ==
    \/ \E c \in Clients :
         \/ \E K \in (SUBSET Keys) \ {{}} : Begin(c, K)
         \/ Reread(c) \/ Apply(c) \/ Lose(c) \/ Overflow(c)
         \/ BeginListing(c) \/ ContinueListing(c) \/ ListingConflict(c)
         \/ FindClosed(c) \/ Vanish(c)
    \/ Close

Spec == Init /\ [][Next]_vars

\* A started transaction or listing is run by a live thread until it returns.
Progress(c) ==
    Reread(c) \/ Apply(c) \/ Lose(c) \/ Overflow(c) \/ ContinueListing(c)
      \/ ListingConflict(c) \/ (tx[c].stage \notin {"idle", "gone"} /\ FindClosed(c))

FairSpec == Spec /\ \A c \in Clients : WF_vars(Progress(c))

-----------------------------------------------------------------------------
(* Properties                                                              *)

Record == [version : Nat, content : Contents]

\* The store, every client's snapshot and every result are well formed, and an
\* unfinished transaction has attempts left (used: see UsedExact).
TypeOK ==
    /\ records \in [Keys -> Record]
    /\ revision \in Nat /\ closed \in BOOLEAN
    /\ tx \in [Clients -> [stage : Stages, keys : SUBSET Keys, seen : [Keys -> Record],
                           attempts : 0 .. MaxAttempts - 1,
                           begun : Nat, pages : SUBSET Keys, bound : Nat]]
    /\ DOMAIN result = Clients

\* A version that has not moved stands for a content that has not changed:
\* deletion keeps the version, so a record deleted and written again is never
\* mistaken for the one that was read (compare_exchange, "to prevent ABA").
SnapshotCurrent ==
    \A c \in Clients : (~closed /\ tx[c].stage = "submit") =>
        \A k \in tx[c].keys :
            tx[c].seen[k].version = records[k].version => tx[c].seen[k] = records[k]

\* The incremental byte count is the size of what is held, tombstones included,
\* and never passes the capacity, over any sequence of writes and deletions.
UsedExact ==
    /\ used = Volume([k \in Keys |-> Size(records[k])])
    /\ used <= MaxBytes

\* A transaction loses an attempt only to another client's update: k attempts
\* lost mean that at least k updates were applied since it began, so the store
\* as a whole advances whenever someone is told "conflict".
ConflictMeansProgress ==
    \A c \in Clients : ~closed =>
        /\ tx[c].stage = "reread" => tx[c].attempts <= revision - tx[c].begun
        /\ tx[c].stage = "submit" =>
             tx[c].attempts + (IF Matches(c) THEN 0 ELSE 1) <= revision - tx[c].begun

\* The store keeps the promise of AtomicStore: a committed transaction read and
\* replaced records at one instant (no lost update, no write skew, whatever the
\* other clients did between its snapshot and its compare-exchange), and a paged
\* listing is the live keys of one instant.
Atomic == INSTANCE AtomicStore WITH store <- [k \in Keys |-> records[k].content]
ImplementsAtomicStore == Atomic!Spec

\* Every transaction and listing of a running client returns: with a result,
\* "conflict", capacity, or the end of the owner.
Finishes ==
    \A c \in Clients : (tx[c].stage \in {"submit", "reread", "paging"})
                          ~> (tx[c].stage \in {"idle", "gone"})

\* What the store counts is so: records, bytes and revisions (compare_exchange).
StoreSound == TypeOK /\ UsedExact /\ ConflictMeansProgress
=============================================================================
