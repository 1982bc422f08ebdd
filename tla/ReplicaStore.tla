---------------------------- MODULE ReplicaStore ----------------------------
(***************************************************************************)
(* store::fs::Store for one namespace: the redb tables, the transaction    *)
(* that batches writes, and the operations of the store and of Replica     *)
(* that change them.                                                       *)
(*                                                                         *)
(*   vis   what the current transaction sees                               *)
(*   com   what is committed, which a crash falls back to                  *)
(*   txn   the variant of CurrentTransaction, dirty its flag               *)
(*   view  what a held read transaction sees                               *)
(*   info  the capability in ReplicaInfo while the replica is open         *)
(*   ops   how many writing operations have run (bounded by MaxOps)        *)
(*                                                                         *)
(* The store runs on one thread and no operation yields between its table  *)
(* accesses, so an operation is one action.  What can happen in between is *)
(* that the write transaction outlives MAX_COMMIT_DELAY and is committed   *)
(* before the next access: "aged" (before the operation) and "split"       *)
(* (between the two writes of put) are those choices.                      *)
(***************************************************************************)
EXTENDS Entries, FiniteSets

CONSTANTS
    Peers,          \* peers registered as useful, as integers
    MaxNanos,       \* clock readings 1..MaxNanos; the system clock may step back
    PeerCacheSize,  \* PEERS_PER_DOC_CACHE_SIZE
    MaxOps          \* bound on the number of writing operations

ASSUME StoreAssumption ==
    /\ Peers \subseteq Nat
    /\ MaxNanos \in Nat
    /\ PeerCacheSize \in Nat \ {0}
    /\ MaxOps \in Nat

VARIABLES vis, com, txn, dirty, view, info, ops

vars == <<vis, com, txn, dirty, view, info, ops>>

Capabilities == {"read", "write"}

\* The rows of the namespace in every table; latest holds 0 for no row.
Tables == [records   : RecordTables,
           by_key    : SUBSET Ids,
           latest    : [Authors -> 0 .. MaxTime],
           namespace : Capabilities \cup {"none"},
           peers     : SUBSET ((1 .. MaxNanos) \X Peers),
           policy    : {"default", "set"}]

EmptyTables == [records   |-> [i \in Ids |-> NoRecord],
                by_key    |-> {},
                latest    |-> [a \in Authors |-> 0],
                namespace |-> "none",
                peers     |-> {},
                policy    |-> "default"]

NoView == EmptyTables

TypeOK == /\ vis \in Tables
          /\ com \in Tables
          /\ txn \in {"none", "read", "write"}
          /\ dirty \in BOOLEAN
          /\ view \in Tables
          /\ info \in Capabilities \cup {"closed"}
          /\ ops \in 0 .. MaxOps

Init == /\ vis = EmptyTables
        /\ com = EmptyTables
        /\ txn = "none"
        /\ dirty = FALSE
        /\ view = NoView
        /\ info = "closed"
        /\ ops = 0

-----------------------------------------------------------------------------
(* Transactions                                                            *)

\* What is committed once the current write transaction is finished: a clean
\* one is dropped.
finish_write == IF dirty THEN vis ELSE com

\* The tables current_write_transaction hands out.
WriteBase(aged) ==
    IF aged THEN finish_write ELSE IF txn = "write" THEN vis ELSE com

current_write_transaction(aged) ==
    /\ aged => txn = "write"
    /\ txn' = "write"
    /\ view' = NoView

\* Reading through Store::tables: no write, but the transaction is a write one.
tables(aged) ==
    /\ current_write_transaction(aged)
    /\ com' = IF aged THEN finish_write ELSE com
    /\ vis' = WriteBase(aged)
    /\ dirty' = (txn = "write" /\ ~ aged /\ dirty)

\* Variant: a write does not mark the transaction.
modify_unmarked(aged, t) ==
    /\ current_write_transaction(aged)
    /\ com' = IF aged THEN finish_write ELSE com
    /\ vis' = t
    /\ dirty' = (txn = "write" /\ ~ aged /\ dirty)

modify(aged, t) ==
    /\ current_write_transaction(aged)
    /\ com' = IF aged THEN finish_write ELSE com
    /\ vis' = t
    /\ dirty' = TRUE

CountOp == ops < MaxOps /\ ops' = ops + 1

ReadTables ==
    /\ \E aged \in BOOLEAN : tables(aged)
    /\ UNCHANGED <<info, ops>>

\* flush, and snapshot_owned, which flushes before it opens its own reader.
Flush ==
    /\ com' = IF txn = "write" THEN finish_write ELSE com
    /\ vis' = com'
    /\ txn' = "none"
    /\ dirty' = FALSE
    /\ view' = NoView
    /\ UNCHANGED <<info, ops>>

\* Variant: the reader is opened before the writes are committed.
Snapshot_before_commit ==
    /\ com' = IF txn = "write" THEN finish_write ELSE com
    /\ vis' = com'
    /\ view' = IF txn = "read" THEN view ELSE com
    /\ txn' = "read"
    /\ dirty' = FALSE
    /\ UNCHANGED <<info, ops>>

Snapshot ==
    /\ com' = IF txn = "write" THEN finish_write ELSE com
    /\ vis' = com'
    /\ view' = IF txn = "read" THEN view ELSE com'
    /\ txn' = "read"
    /\ dirty' = FALSE
    /\ UNCHANGED <<info, ops>>

Crash ==
    /\ vis' = com
    /\ txn' = "none"
    /\ dirty' = FALSE
    /\ view' = NoView
    /\ info' = "closed"
    /\ UNCHANGED <<com, ops>>

-----------------------------------------------------------------------------
(* Replicas                                                                *)

merge(old, new) == IF old = "read" /\ new = "write" THEN new ELSE old

\* Variant: the upgrade does not reach the open replica.
ImportNamespace_stored_only(c) ==
    \E aged \in BOOLEAN :
        LET t   == WriteBase(aged)
            cap == IF t.namespace = "none" THEN c ELSE merge(t.namespace, c)
        IN  /\ modify(aged, [t EXCEPT !.namespace = cap])
            /\ CountOp
            /\ UNCHANGED info

\* The actor's ImportNamespace: an upgrade also reaches the open replica.
ImportNamespace(c) ==
    \E aged \in BOOLEAN :
        LET t   == WriteBase(aged)
            cap == IF t.namespace = "none" THEN c ELSE merge(t.namespace, c)
        IN  /\ modify(aged, [t EXCEPT !.namespace = cap])
            /\ info' = IF t.namespace \notin {"none", cap} /\ info # "closed"
                       THEN merge(info, c)
                       ELSE info
            /\ CountOp

load_replica_info ==
    \E aged \in BOOLEAN :
        /\ info = "closed"
        /\ WriteBase(aged).namespace # "none"
        /\ tables(aged)
        /\ info' = WriteBase(aged).namespace
        /\ UNCHANGED ops

close_replica ==
    /\ info # "closed"
    /\ info' = "closed"
    /\ UNCHANGED <<vis, com, txn, dirty, view, ops>>

\* Variant: the peers of the replica stay.
remove_replica_without_peers ==
    \E aged \in BOOLEAN :
        /\ info = "closed"
        /\ modify(aged, [WriteBase(aged) EXCEPT !.records = EmptyTables.records,
                                                !.by_key = {},
                                                !.namespace = "none",
                                                !.policy = "default"])
        /\ CountOp
        /\ UNCHANGED info

\* The latest_per_author rows stay.
remove_replica ==
    \E aged \in BOOLEAN :
        /\ info = "closed"
        /\ modify(aged, [WriteBase(aged) EXCEPT !.records = EmptyTables.records,
                                                !.by_key = {},
                                                !.namespace = "none",
                                                !.peers = {},
                                                !.policy = "default"])
        /\ CountOp
        /\ UNCHANGED info

-----------------------------------------------------------------------------
(* Entries                                                                 *)

\* Variant: the index row is left out.
entry_put_unindexed(t, id, r) ==
    [t EXCEPT !.records[id] = r, !.latest[id[1]] = r.ts]

entry_put(t, id, r) == [t EXCEPT !.records[id] = r,
                                 !.by_key = @ \cup {id},
                                 !.latest[id[1]] = r.ts]

\* put: would_insert reads through tables, remove_prefix_filtered and
\* entry_put are one modify each.
Put(id, r) ==
    \E aged, split \in BOOLEAN :
        LET t == WriteBase(aged)
            removed == [t EXCEPT !.records = remove_prefix_filtered(@, id, r)]
        IN  \/ /\ ~ would_insert(t.records, id, r)
               /\ ~ split
               /\ tables(aged)
            \/ /\ would_insert(t.records, id, r)
               /\ current_write_transaction(aged)
               /\ com' = IF split THEN removed ELSE IF aged THEN finish_write ELSE com
               /\ vis' = entry_put(removed, id, r)
               /\ dirty' = TRUE

\* Replica::insert and delete_prefix sign with the namespace secret; the
\* timestamp is the reading of the system clock.
insert(id, r) ==
    /\ info = "write"
    /\ ~ IsEmpty(r)
    /\ Put(id, r)
    /\ CountOp
    /\ UNCHANGED info

delete_prefix(id, r) ==
    /\ info = "write"
    /\ IsEmpty(r)
    /\ Put(id, r)
    /\ CountOp
    /\ UNCHANGED info

\* A valid entry of a peer, single or out of a sync message.
insert_remote_entry(id, r) ==
    /\ info # "closed"
    /\ Put(id, r)
    /\ CountOp
    /\ UNCHANGED info

retract_entry(id, up_to) ==
    \E aged \in BOOLEAN :
        LET t == WriteBase(aged)
        IN  /\ info # "closed"
            /\ modify(aged, IF Present(t.records, id) /\ t.records[id].ts <= up_to
                            THEN [t EXCEPT !.records[id] = NoRecord,
                                           !.by_key = @ \ {id}]
                            ELSE t)
            /\ CountOp
            /\ UNCHANGED info

-----------------------------------------------------------------------------
(* Peers and download policy: both need the document to exist.             *)

\* The order of the multimap's values: by time, then by peer.
RowBefore(m, n) == m[1] < n[1] \/ (m[1] = n[1] /\ m[2] < n[2])

FirstRow(rows) == CHOOSE m \in rows : \A n \in rows \ {m} : RowBefore(m, n)

\* Variant: the limit is checked before the row is counted.
register_useful_peer_one_more(p, nanos) ==
    \E aged \in BOOLEAN :
        LET t     == WriteBase(aged)
            mine  == {m \in t.peers : m[2] = p}
            evict == IF mine # {} THEN {FirstRow(mine)}
                     ELSE IF Cardinality(t.peers) > PeerCacheSize
                          THEN {FirstRow(t.peers)}
                          ELSE {}
        IN  /\ modify(aged, IF t.namespace = "none"
                            THEN t
                            ELSE [t EXCEPT !.peers = (@ \ evict) \cup {<<nanos, p>>}])
            /\ CountOp
            /\ UNCHANGED info

register_useful_peer(p, nanos) ==
    \E aged \in BOOLEAN :
        LET t     == WriteBase(aged)
            mine  == {m \in t.peers : m[2] = p}
            evict == IF mine # {} THEN {FirstRow(mine)}
                     ELSE IF Cardinality(t.peers) + 1 > PeerCacheSize
                          THEN {FirstRow(t.peers)}
                          ELSE {}
        IN  /\ modify(aged, IF t.namespace = "none"
                            THEN t
                            ELSE [t EXCEPT !.peers = (@ \ evict) \cup {<<nanos, p>>}])
            /\ CountOp
            /\ UNCHANGED info

set_download_policy(policy) ==
    \E aged \in BOOLEAN :
        LET t == WriteBase(aged)
        IN  /\ modify(aged, IF t.namespace = "none"
                            THEN t
                            ELSE [t EXCEPT !.policy = policy])
            /\ CountOp
            /\ UNCHANGED info
-----------------------------------------------------------------------------

Next ==
    \/ \E id \in Ids, r \in Records :
          insert(id, r) \/ delete_prefix(id, r) \/ insert_remote_entry(id, r)
    \/ \E id \in Ids, up_to \in 1 .. MaxTime : retract_entry(id, up_to)
    \/ \E c \in Capabilities : ImportNamespace(c)
    \/ load_replica_info
    \/ close_replica
    \/ remove_replica
    \/ \E p \in Peers, nanos \in 1 .. MaxNanos : register_useful_peer(p, nanos)
    \/ \E policy \in {"default", "set"} : set_download_policy(policy)
    \/ ReadTables
    \/ Flush
    \/ Snapshot
    \/ Crash

Spec == Init /\ [][Next]_vars

-----------------------------------------------------------------------------
(* Properties.  The state invariants speak of both tables: com is what the *)
(* program finds again after a crash.                                      *)

\* The pruning rule of put: what is visible and what a crash recovers is Pruned.
\* Insertion, prefix removal, retraction and a commit that lands between the
\* two writes of put all have to keep it.
NoShadowedEntries == \A t \in {vis, com} : Pruned(t.records)

\* A query over the by-key index (fs/ranges.rs skips rows without a record)
\* misses no record: every record has its index row, in what is visible and in
\* what a crash recovers.  The converse is false, put leaves rows behind.
IndexCoversRecords ==
    \A t \in {vis, com}, id \in Ids : Present(t.records, id) => id \in t.by_key

\* finish_write drops a transaction nothing was written through: "Dropping the
\* transaction instead abandons no data" (fs.rs:190).  So whenever the store
\* holds no dirty transaction, everything it shows is durable.
CleanMeansCommitted == (txn # "write" \/ ~ dirty) => vis = com

\* snapshot() reuses a read transaction it holds; what it serves is never older
\* than the writes made through the store.
SnapshotSeesWrites == txn = "read" => view = vis

\* remove_replica leaves no row of the tables it clears, and nothing can write
\* into a namespace that is not there: entries need an open replica, peers and
\* policies check the namespaces table.
NoOrphanRows ==
    \A t \in {vis, com} :
        t.namespace = "none" =>
            /\ \A id \in Ids : ~ Present(t.records, id)
            /\ t.by_key = {}
            /\ t.peers = {}
            /\ t.policy = "default"

\* The capability an open replica signs with is the stored one, through imports
\* of either kind before and after opening.
OpenCapabilityIsStored == info # "closed" => info = vis.namespace

\* The peers cache holds each peer once and at most PeerCacheSize of them, also
\* when the clock steps back or two registrations read the same time.
PeersCacheBounded ==
    /\ Cardinality(vis.peers) <= PeerCacheSize
    /\ \A m, n \in vis.peers : m[2] = n[2] => m = n

\* No operation replaces a live record by an older one; only a crash goes back.
NoRollback ==
    [][~ Crash =>
         \A id \in Ids :
            (/\ id[2] # << >>
             /\ ~ IsEmpty(vis.records[id])
             /\ Present(vis'.records, id))
            => RecordLeq(vis.records[id], vis'.records[id])]_vars

\* Deleting a prefix clears "all other entries whose key starts with or is equal
\* to the given prefix" (sync.rs:475) that are not newer; the same holds of any
\* entry put stores.
StoredEntryClearsItsPrefix ==
    [][~ Crash =>
         \A id \in Ids, child \in Ids :
            (/\ Present(vis'.records, id)
             /\ vis'.records[id] # vis.records[id]
             /\ child # id
             /\ child[1] = id[1]
             /\ IsPrefixOf(id[2], child[2])
             /\ Present(vis'.records, child))
            => RecordLess(vis'.records[id], vis'.records[child])]_vars

-----------------------------------------------------------------------------
(* What the repository says and the code does not do.                      *)

\* put takes an entry in only if it is greater than "all entries in the set of
\* entries which have the same key as `entry` or have a key which is a prefix of
\* `entry`" (ranger.rs:615).  So nothing older lies under a tombstone.
TombstoneShields ==
    \A id \in Ids, child \in Ids :
        (/\ child[1] = id[1]
         /\ child # id
         /\ IsPrefixOf(id[2], child[2])
         /\ Present(vis.records, id)
         /\ IsEmpty(vis.records[id])
         /\ Present(vis.records, child))
        => RecordLess(vis.records[id], vis.records[child])

\* remove_prefix_filtered removes "all entries whose key start with a prefix and
\* for which the predicate callback returns true" (ranger.rs:338), and no other.
PrefixRemovalIsExact ==
    [][~ Crash =>
         \A id \in Ids, other \in Ids :
            (/\ Present(vis'.records, id)
             /\ vis'.records[id] # vis.records[id]
             /\ Present(vis.records, other)
             /\ ~ Present(vis'.records, other))
            => IsPrefixOf(id[2], other[2])]_vars

\* "Get the latest entry for each author" (fs.rs:560): no record of the author
\* is newer than the row.
LatestIsLatest ==
    \A id \in Ids : vis.records[id].ts <= vis.latest[id[1]]

has_news_for(theirs, ours) == \E a \in DOMAIN theirs : theirs[a] > ours[a]

\* The heads of a peer that hold t as the newest timestamp of author a.
HeadsAt(a, t) == [b \in {a} |-> t]

\* "Check if a AuthorHeads contains entry timestamps that we do not have locally"
\* (fs.rs:335): a peer's head newer than every record of its author held here is
\* news.  retract_entry says of the head it leaves that it "costs at most one
\* no-news reconciliation round" (fs.rs:528).
NewerHeadIsNews ==
    \A a \in Authors, t \in 1 .. MaxTime :
        (\A k \in Keys : vis.records[<<a, k>>].ts < t)
            => has_news_for(HeadsAt(a, t), vis.latest)

\* "Completely removes a replica" (fs.rs:472): a namespace that was removed wants
\* whatever a peer holds.
RemovedReplicaWantsNews ==
    vis.namespace = "none" =>
        \A a \in Authors, t \in 1 .. MaxTime : has_news_for(HeadsAt(a, t), vis.latest)
=============================================================================
