# TLA+ models of pdn-store

pdn-store keeps multi-author key-value documents ("replicas") that peers bring
into agreement by range-based set reconciliation. This directory holds TLA+
models of the parts in which order matters (the batching store and how it comes
up, the actor threads, the sync sessions, the reconciliation algorithm, queries,
downloads, the docs API with gossip), the TLC configurations that check them on
small instances, and TLAPS proofs about seven of them. `PROJECT.json` lists the
components, the runs, the source lines each definition translates, the mutations
each property is known to catch, the hazards found in the code and the theorems.
Paths below are relative to `src/` of the repository's crate (`src/src/` in
`PROJECT.json`).

    tlc -workers 2 -config Store.cfg MCReplicaStore
    tlapm SyncActorProofs.tla

## The system and its parts

A **replica** is one namespace's set of signed entries. An entry is identified
by author and key and carries a record (timestamp, content hash, length); a
record with length 0 is a tombstone. Storing an entry removes the author's older
entries under its key as a prefix (`ranger.rs` `put`).

The **store** (`store/fs.rs`) holds all namespaces in one redb file. Writes go
into a write transaction that is committed when it is older than
`MAX_COMMIT_DELAY`, on `flush`, or when a snapshot is needed. A start rewrites a
file of redb 2 and runs four migrations. The **sync actor** (`actor.rs`) owns the
store on a thread of its own and serves requests from one bounded queue; it
counts the handles of open replicas and keeps a read snapshot for each running
sync session. Each insert is announced to the replica's subscribers through
bounded channels.

The **live actor** (`engine/live.rs`) is one such subscriber. It decides when to
sync with whom, using one slot per namespace and peer (`engine/state.rs`), spawns
dial and accept tasks (`net.rs`, `net/codec.rs`), reacts to what gossip brings
(`engine/gossip.rs`: neighbors, sync reports with author heads, content-ready
notes) and runs the content downloads. In an exchange each side reads through
its session snapshot and an egress filter (`filter.rs`), and passes what comes in
through a validator that accepts, drops or refuses (`sync.rs`); refusals travel
back in the reply.

The **engine** (`engine.rs`) starts both actors, keeps the default author in a
file beside the store, and tells the blob store's garbage collector which hashes
documents hold. The **API** (`api.rs`, `api/actor.rs`) serves clients through one
more actor, the `RpcActor`, which forwards requests to the other two.

| part | source | modules |
|---|---|---|
| record order, key ranges, pruning rule | `sync.rs`, `ranger.rs`, `store/fs.rs`, `store/fs/bounds.rs` | `Entries` |
| store and replica operations on one namespace | `store/fs.rs`, `sync.rs`, `heads.rs` | `ReplicaStore`, `MCReplicaStore`, `ReplicaStoreProofs` |
| start, tuple rewrite, migrations | `store/fs.rs`, `store/fs/migrations.rs`, `store/fs/migrate_redb_v2_tuples.rs` | `StoreFile` |
| queries | `store.rs`, `store/util.rs`, `store/fs/query.rs`, `store/fs/ranges.rs` | `Query`, `Answers` |
| a node's persistent state over its starts | the two above, `engine.rs`, `api/actor.rs` | `Node`, `MCNode`, `NodeProofs` |
| sync actor: handles and sessions | `actor.rs` | `SyncActor`, `SyncActorProofs` |
| the two actors' queues | `actor.rs`, `sync.rs`, `engine/live.rs` | `EventQueue` |
| per-pair slot, dial and accept tasks | `engine/state.rs`, `engine/live.rs`, `net.rs`, `net/codec.rs` | `LiveSync`, `LiveSyncProofs` |
| one reconciliation session | `ranger.rs`, `filter.rs`, `sync.rs`, `net/codec.rs` | `Reconcile`, `MCReconcile`, `RangerProofs`, `ReconcileProofs` |
| downloads | `engine/live.rs`, `engine/state.rs` | `Downloads`, `DownloadsProofs` |
| gossip topics | `engine/gossip.rs` | `Gossip` |
| documents through the API | `api.rs`, `api/actor.rs`, `engine.rs`, `engine/live.rs`, `actor.rs` | `Docs`, `DocsProofs` |

## The modules and the code

**Entries** defines records and their order (`Record::cmp`), keys as sequences of
digits `0..MaxByte`, which stand for bytes with `MaxByte` for 255, and the
operators `author_prefix` (the range a prefix is turned into, with
`increment_by_one`), `prefixes_of` (`ParentIterator`, which skips tombstones as
the code does), `would_insert`, `remove_prefix_filtered` and `put`. It has no
variables; `ReplicaStore`, `StoreFile`, `Query` and `Reconcile` extend it.

**ReplicaStore** is the store for one namespace. `vis` is what the current
transaction sees and `com` what is on disk; `txn`, `dirty` and `view` are
`CurrentTransaction`, its dirty flag and a held read transaction. The store runs
on one thread without yielding, so an operation is an action. Time enters as a
choice: the transaction may be too old before the operation (`aged`) or between
the two writes of `put` (`split`), in which case it is committed there. `Crash`
falls back to `com`. Actions: `ImportNamespace`, `load_replica_info`,
`close_replica`, `remove_replica`, `insert`, `delete_prefix`,
`insert_remote_entry`, `retract_entry`, `register_useful_peer`,
`set_download_policy`, reads, `Flush`, `Snapshot`.

**StoreFile** is the start of a persistent store. A file is a record of its
tables and of the format of those that hold tuples. `Open` creates or opens it,
`Setup` makes the missing tables or finds the mismatch that leads to the rewrite
(`Copy`, `Rename`, `PersistTarget`, `RewriteFails`), then come the four
migrations, each committed by itself.

**Query** is `get_many`: the choice of index, the range, and `QueryIterator`, one
row a step, with its filters, the latest-per-key selector, offset and limit. The
iterator owns a snapshot and is drained while the store goes on. There are two
references, from the records alone: `DocumentedAnswer` is what `store.rs` says of
a query and `Answer` what the code means by it. They differ for a latest-per-key
query that names an author, and there `PromisedFor` takes `Answer`. **Answers** is
the abstract specification: a stream carries the expected entries in order, once
each, and ends there.

**Node** composes `StoreFile` and `Query` with `Engine::spawn`'s loading of the
default author, author requests, writes, the protect callback, shutdown, a
dropped engine, and a crash at any step; the next start finds what is on disk.
Writing the author file has two steps, because `tokio::fs::write` truncates
first. `Node` implements `Answers` under the mapping of `Abstract`.

**SyncActor** is the actor loop: `handles` and `sync` are `OpenReplicas`,
`storeOpen` is the store's own list, `sessions` the registered snapshots, and
`ref` says where the strong reference of a session is (in the reply, with the
caller, in a queued release, gone). A dropped handle queues a release with
`try_send`, which may be lost. Every request may be preceded by the sweep of
abandoned sessions (`swept`), as in `run_async`. Requests that only read or write
entries are `ReplicaWrite` and `StoreRequest`; what they do to the tables is in
`ReplicaStore`.

**LiveSync** has two nodes and one namespace. `peer` is `PeerState`, and `ex` the
exchanges under way with the state of the dialer's and the acceptor's task. The
live actor's `select!` is biased: it takes finished tasks only when its inbox is
empty (`InboxEmpty`), and a finished accept only when no finished dial waits.
Tasks go through the phases of `connect_and_sync` and `handle_connection`; an
exchange itself is one step (`Exchange`), since `Reconcile` models its inside.
`back` is how the acceptor's stream ends, which is all a dialer learns of it: an
`Abort` frame that names a reason (a refusal, or the terminal frame `BobState::run`
sends after an error, `Failed`), a plain close, a broken connection, or a task
dropped by its timeout, which sends no frame; quinn then finishes the stream or
closes the connection, and the dialer may see either (`Reads`). Faults are errors,
denials and timeouts at every phase.

**Reconcile** is one session. `rec` are the live stores, `snap` the snapshots,
`net` the message under way. `process_message` treats the parts in the code's
order: items are gated and ingested and the difference is sent back,
fingerprints are compared, and unequal ranges are answered with items or split
at pivots. A view of a store is a set of entries; the iterators of the code
yield it in the order of the ids (`Nth`), and the loops of `process_message` run
over positions (`Loop`). A fingerprint is the set of entries it is computed from,
that is, hashes are taken to be free of collisions. Filter and validator are
chosen in the initial state and fixed for the session.

`put` and `would_insert` do not see everything: a tombstone newer than the entry
of its own id is passed over, and the range computed for a prefix may hold a key
that does not extend it (both are among the disagreements below). A session over
stores in which that happens can lose entries. `PutsAreExact` says that nothing in
play is of these two kinds; the two properties about what a session leaves behind
have it as a condition, and the others do not.

**EventQueue** keeps only the two bounded channels: a request that inserts `n`
entries makes the sync actor wait for room for `n` events, and while the live
actor handles a message it waits for the sync actor's reply.

**Downloads** is the content side of the live actor: `q` holds `QueuedHashes`,
`missing_hashes`, `retry_after_failure` and the running tasks. The downloader is
external. It asks the providers registered when the download started, may use
later ones, and fails only if none of those it was started with has the content.

**Gossip** is `GossipState` for one topic: the entry in `active`, the receive
loops in the join set, and `progress`, which reaps them; `disowned` records that
it removed the entry of a loop that was running. **Docs** composes it with
clients that hold `Doc` objects, the `RpcActor`'s mailbox, and the parts of the
sync actor and the live actor its handlers change: handle count, sync flag, event
feed, sync set, subscribers. A handler that awaits two replies goes on as a
request of its own, so a shutdown can come between them.

Definitions with a suffix after the name of another one (`remove_hash_by_hash_only`)
are mutations of it. They are not part of any specification.

## What the runs check

State counts are TLC's distinct states.

| run | states | what holds |
|---|---|---|
| `store` | 185,433 | `NoShadowedEntries` (no entry under a newer one that is neither a tombstone nor at the root key, the two `prefixes_of` does not see; also after a crash), `IndexCoversRecords` (the by-key index has every record), `CleanMeansCommitted` (a transaction taken for clean has nothing to lose), `SnapshotSeesWrites`, `NoOrphanRows`, `OpenCapabilityIsStored`, `PeersCacheBounded`, `NoRollback`, `StoredEntryClearsItsPrefix` |
| `actor_sessions` | 91,498 | `TypeOK`, `StoreOpenAgrees`, `OpenIsStored`, `SessionsOfThisOpening`, `HeldSnapshotStays`, `DroppedSessionIsReleased` |
| `pair_slots` | 5,014,808 | `RunningHasATask` (a pair marked running has a task that will release it), `OkDialExchanged` (a dial that reports success has exchanged, unless the acceptor's timeout dropped its stream), `OneExchangeAtATime` |
| `pair_released` | 62,246 | `PairIsReleased` |
| `reconcile` | 886,351 | `DoneMeansMerged` (both stores end with the merge), `SplitsAreProper`, `SessionIsShort`; under filters, refusals and writes meanwhile `ServedEntriesArrive`, `OnlyTheViewIsSent` |
| `downloads` | 131,921 | `QueuedIsDownloading`, `OwedIsQueued`, `ReadyAnswersASync`, `ReadyComes`, `OwnDownloadIsRetried` (what a namespace itself downloads is tried again after a sync with a peer that has it) |
| `node` | 73,104 | `ContentSurvives` (the rewrite never loses the records, wherever it stops), `OpenIndexesAgree`, `DefaultAuthorKnown`, `ProtectIsComplete`, `AnswersAreRight` (`Node` implements `Answers`), `DroppedStaysDropped` |
| `docs` | 360,499 | `LiveHoldsItsHandle`, `LeftIsLeft` (what leaving a document leaves behind: nothing, but for a disowned loop), `ImportMissesNothing`, `EveryCallReturns` |
| `prefix_removal_is_exact` | violated | see below |
| `resync_fetches_news` | violated | see below |
| `inserts_do_not_hang` | violated | see below |
| `leaving_leaves_the_swarm` | violated | see below |

Each property has a mutation of the code's model under which TLC reports it
violated (`mutants` in `PROJECT.json`).

### Bounds

- *Store.* Keys `<<>>, 0, 00, 01, 1` with two byte values: nesting, siblings, the
  root, and a prefix that ends in the largest byte. One author, because every rule
  compares entries of one author only. Up to four operations that write (`MaxOps`),
  the import being one: the three that are left are a parent, a child and a late
  entry or a deletion. Two timestamps and two
  hashes give older, equal and newer records and tombstones. Peers: a cache of 2
  with 3 peers and clock readings that repeat or go back.
- *Actor.* Two namespaces, so that a session may be confused with another's; two
  handles and two openings each, so that a session can outlive its opening; two
  session ids, so that one release can be taken for the other's.
- *Pair.* Three exchanges at a time: mutual dials and one more. One leave and one
  fault anywhere (`pair_slots`); the liveness run has one fault and no leave.
- *Reconcile.* `PlainSession`: all pairs of merged stores over five keys with
  `split_factor` 2 and `max_set_size` 1 (the code's defaults), which needs two
  levels of splits. `ScopedSession`: filters, gates and one write meanwhile, over
  three of the keys.
- *Queues.* Capacity 2 in place of 1024. `Window` bounds the entries
  between clients and the live actor; it is larger than the channel's capacity, as
  nothing in the code keeps it below.
- *Downloads.* Two namespaces, two hashes, two peers and three events from outside
  (`MaxEvents`): two to set a shared download up and one to interfere with it.
- *Node.* No file, a current file with stale index rows and a latest row that
  moved back, a file of redb 2 with every table, and one from before the latest
  table and the index. Two starts, so that the second meets what the first left;
  two operations, so that a write, a change of the author or a removal meets a
  query or a protect run. Two authors, three keys, and ten queries that take each
  path through index choice, filters, selector, offset and limit; no prefix asked
  for ends in the largest byte (see the disagreements).
- *Docs.* Two clients with four calls between them, so that one imports, shares
  and leaves while the other closes or drops; two receive loops, so that the end
  of one can meet its successor.

Deadlock is checked in `store` and `prefix_removal_is_exact`. It is off where the model comes to a legitimate stop: the actor after shutdown or at
its bounds, a finished session, no more events, calls or starts.

### Fairness

- `SyncActor`: the loop always takes a further action or runs into its timeout
  arm, and so sweeps again and again; a queued release is reached.
- `LiveSync`: weak fairness for tasks (tokio polls them) and for requests in the
  inbox. Strong fairness for taking a finished task: the arm of the biased
  `select!` is open only while the inbox is empty, which it is again and again
  unless requests come faster than the actor handles them. That is an
  assumption about load, and the only one.
- `EventQueue`: both actors run. Strong fairness for taking an event and for
  getting a place in the queue (a `Semaphore`-like fair wait), under the same
  assumption.
- `Downloads`: every download ends, and the loop reaches every finished one.
- `Docs`: weak fairness for the `RpcActor`'s loop and its handlers, for the client
  task inside `import_and_subscribe`, for the cancellation of an aborted receive
  loop, for `progress`, and for the end of the shutdown once all loops are
  reaped. All are tasks the runtime polls. A receive loop need not end by itself.

No fairness is assumed of clients, peers, faults or messages. `Node` and the
safety runs assume none at all.

## What is proved

Eight modules hold proofs about seven components, for every value of the
constants that satisfies the named assumption of the module.

**SyncActorProofs** (`ActorAssumption`): `TypeCorrect`, `StoreAndActorAgree`,
`OpenReplicasAreStored`, `SessionsEndWithTheirOpening`, `HeldSnapshotsStay`,
`SessionIdsNameOneSession`. The inductive invariant is
`Inv == TypeOK /\ StoreOpenAgrees /\ OpenIsStored /\ SessionsOfThisOpening`.
`OpenIsStored` is not inductive alone: `DropReplica` removes what the *store*
takes for closed, so the store's list has to agree with the handle counts.
`SessionsOfThisOpening` needs the fact that the last close drops all sessions of
its namespace (`CloseHandleKeeps`). The action properties follow from `Inv` and a
lemma each about what a step does to a registered session (`HeldSessionStep`) or
to an id already issued (`IssuedIdStep`).

**ReplicaStoreProofs** (`EntriesAssumption`, `StoreAssumption`): all nine
properties of the run `store`, for any keys, authors, bytes and cache size.
`TxnInv` says that what is not committed is in a dirty write transaction. With it
an operation starts from the visible tables whatever transaction it finds, so
each step is one of a few edits of these (`StepForm`), a commit in the middle of
`put` included. `RowsInv`, `PruneInv` and `PeersInv` are then kept edit by edit,
in the visible and in the committed tables. The pruning rule rests on
`PrefixInRange`: the byte range computed for a prefix contains every key that
starts with it. (The converse is the disagreement `PrefixRemovalIsExact`.)

**DownloadsProofs** (`DownloadsAssumption`): `QueueFollowsTheDownloads`,
`OwedEventsWillCome`, `ReadyOnceForASync`. That the queue's two maps and the
running tasks agree (`Agrees`) is shown for each operation on any queue. An owed
event needs it: `remove_hash` tells a namespace by the one map, and what the
namespace waits for is in the other.

**NodeProofs** (`EntriesAssumption`, `QueryAssumption`, `FilesAssumption`):
`OldRecordsSurvive`, `MigratedIndexesAgree`, `DefaultAuthorIsKnown`,
`ProtectNamesEveryHash`, `DroppedForGood`, `QueriesAreAnswered`, for any old files
whose by-key index is empty or complete. The invariant `FileInv` turns on one
fact: a file still in the format of redb 2 is the file first found, so what the
rewrite moves aside is the whole content. `AuthorInv` follows the author id
through the steps of its saving, `ProtectInv` the hashes of a protect run. A
dropped replica stays dropped because `Gone` (nothing to migrate, nothing to
rewrite, not visible) is stable under all steps.

`QueriesAreAnswered` is the refinement: `Node` implements `Answers`, for any
finite sets of keys and authors, any records, and any filters, orders, offsets and
limits. (The bytes of a filter are in `Keys`, which need not all have records.) A
position in an answer is the number of selected entries that come before an entry,
so no recursion is needed. The invariant `Scanning` says where a stream is between
two rows. The rows gone through are the first ones in the order of the index. The
latest-per-key selector holds the best row of the last key seen, and only that:
rows of one key come together on the index `IndexKind` picks. The entries skipped
and delivered are the first ones of what the query selects. Each row then either
leaves the answer as it is or appends the next entry of `Answer` (`ScanStep`), and
a stream ends only after the last one (`ScanEnds`). `PromisedIsServed` then turns
`Answer` into what is promised: the two references agree wherever the query does
not group by key or names no author.

The theorem has one hypothesis, `PrefixesAreExact`: where a range alone selects
the keys of a prefix, without the filter, no key lies within the bounds that does
not extend the prefix. It is there because the code needs it: the bounds of a
prefix that ends in maximal bytes are too wide (`PrefixRemovalIsExact`, below).
`MCNode` assumes it of the queries it asks, so TLC evaluates it.

**DocsProofs** (`DocsAssumption`, `GossipAssumption`): `LiveKeepsTheReplicaOpen`,
`LeavingIsComplete`, `ImportSubscribesInTime`, for any clients, calls and receive
loops. `HandleInv` counts: as long as no handle is given back twice the replica
has a handle for every `Doc` that holds one and one for the live actor.
`QueueInv` orders the mailbox: the subscription of an importer is ahead of
anything that starts its sync. `LoopsOwned` is about the receive loops: unless
`progress` removed the entry of a running loop, the one loop that runs is that of
the topic's entry. So a left document, which has no entry, has no loop.

**LiveSyncProofs** (`LiveAssumption`): `PairHasATask`, `OkMeansExchanged`,
`OneTransferAtATime`, for any number of exchanges, leaves and failures. The
inductive invariant `LiveInv` adds two things to the types. `TaskInv` is
about one exchange and makes `RunningHasATask` inductive: a node that left has an
idle pair, and the handler that joins a task is also the one that idles its pair.
Its part `WireOK` is what `OkMeansExchanged` rests on: while a dialer still reads,
the acceptor's stream was closed without a frame only after the exchange or by a
timeout. `SoleInv` holds while nobody leaves and nothing
fails: at most one exchange has the slot of the smaller node. The tie-break makes
that node the judge, since it dials and allows only when its pair is idle, and an
exchange cannot transfer without its slot.

**RangerProofs** and **ReconcileProofs** (`EntriesAssumption`,
`ReconcileAssumption`): `SessionTypes`, `NothingElseIsRevealed`,
`SplitsMakeProgress`, `EntriesArrive`, `SessionsMerge`, for any finite sets of
keys and authors, any pruned stores, filters, validators and writes meanwhile, any
`max_set_size` and any `split_factor` of at least 2. The proof is in two parts, as
`ranger.rs` is an algorithm over a trait.

- `RangerProofs` states what the algorithm needs of its store (`Contract`) and
  proves that the store provides it. `Places`: an iterator yields every entry
  once, at the position that is the number of entries below it. `Ranges`: a range
  holds what is between its ends, around the end of the table when it wraps.
  `SplitCovers`: the pieces of a split cover the range, whatever the pivots are
  (`ChainCovers`). `PutTyped` and `PutKeeps`: a put keeps the table pruned, adds the
  entry or has one that supersedes it, and loses nothing else that it does not
  supersede. `LastPiece` is the argument behind `debug_assert!(non_empty > 1)`: the
  last two pivots differ, and one of the two entries is outside the last piece.
- `ReconcileProofs` uses the contract only. Loops are treated by their runs
  (`LoopHasRun`): a function from 0 to the number of steps, along which `Grew`
  holds. The inductive invariant is `SessionInv`. `PartsInv` says that every part
  under way is about what its sender may reveal. `CoverInv` is the heart of it:
  each entry the sender serves and the receiver accepts is held by the receiver or
  carried by a part under way, and each entry the receiver serves and the sender
  accepts is held by the sender or asked for by a part, where a fingerprint both
  carries and asks. A fingerprint that matches discharges its range on both sides,
  one that does not is passed on to the pieces of a split. When no part is left,
  both sides hold everything. `TablesInv` (tables stay pruned and lose nothing they
  held when the session was opened) is needed for it, since local writes and
  other entries of the message change the tables while the parts are under way.

`SessionsMerge` follows: the tables are pruned, have nothing from outside the two
snapshots, and hold every entry of both, so they are the entries nothing else
supersedes.

Bounds such as `MaxOps` are part of the models' guards, so the theorems speak of
behaviours cut off at bounds of any size.

Only model-checked:

- liveness (`PairIsReleased`, `DroppedSessionIsReleased`, `ReadyComes`,
  `OwnDownloadIsRetried`, `EveryCallReturns`), out of the prover's reach;
- `SessionIsShort`, whose bound is a number of halvings: it takes induction over
  the depth of the splits with powers of two, which the provers do not have.

## Where the code and its documentation disagree

Four disagreements are kept as runs in which TLC finds the violation.

- `PrefixRemovalIsExact`: `increment_by_one` (`store/fs/bounds.rs`) turns trailing
  255s into 0 instead of cutting them off. The range of prefix `[a,255]` therefore
  ends at `[a+1,0]` and contains the key `[a+1]`, so storing an entry at `[a,255]`
  removes an older one at `[a+1]`. `ranger.rs:338` promises the removal of entries
  "whose key start with a prefix".
- `ResyncFetchesNews`: a sync report during an exchange sets `resync_requested`.
  An accept that takes the slot over resets it, and the resync's own dial may be
  refused as `AlreadySyncing` and is not repeated. The news then waits for the
  next trigger. `engine/state.rs:23`: "so run again afterwars".
- `InsertsDoNotHang`: the sync actor waits for room in the live actor's event
  channel while the live actor waits for the sync actor's reply. This takes more
  undelivered events than the channel's 1024 places. `sync.rs:342` asks
  subscribers to receive in a loop, which the live actor does not do while it waits.
- `LeavingLeavesTheSwarm`: `progress` (`engine/gossip.rs:112`) removes the topic's
  entry when a loop is reaped, whichever loop the entry belongs to. A loop ends,
  the document is left and started again, and only then the old loop is reaped:
  the new loop has lost its entry. The next leave aborts nothing, and the node
  stays in the swarm. `engine.rs:220`: "leave the gossip swarm". The shutdown waits
  for such a loop, too, so `EveryCallReturns` makes an exception of it.

Others are stated in the modules as well. TLC refutes each when it is added to
the configuration named here.

| property | configuration | what happens |
|---|---|---|
| `TombstoneShields` | `Store` (invariant) | `ParentIterator` looks prefixes up without tombstones (`store/fs.rs:1041`), so an entry older than a tombstone above it is stored; `ranger.rs:615` compares with all prefixes |
| `LatestIsLatest` | `Store` (invariant) | `entry_put` (`store/fs.rs:897`) overwrites the author's latest row with an older entry under another key; `store/fs.rs:560`: "the latest entry for each author" |
| `NewerHeadIsNews` | `Store` (invariant) | after `retract_entry` the row stays, and a peer's newer entry is not news; `store/fs.rs:335` |
| `RemovedReplicaWantsNews` | `Store` (invariant) | `remove_replica` leaves the latest rows, so a namespace imported again does not see old entries as news; `store/fs.rs:472`: "Completely removes" |
| `RemovedOnlyWhenClosed` | `ActorSessions` (property) | `DropReplica` closes one handle whoever opened it, so repeated drops remove a replica another client holds; `store/fs.rs:475` |
| `OneDialAtATime` | `PairSlots` (invariant) | the finish of an accepted exchange frees the slot while the node's own refused dial is still being torn down; `engine/state.rs:221`: "never run two syncs at the same time" |
| `RejectedIsNotHeld` | `Reconcile` (invariant) | a tombstone that is held is named in a refusal, since `would_insert` does not see it; `sync.rs:968` |
| `ReadyMeansNothingQueued` | `Downloads` (invariant) | `on_download_ready` queues a second try and then emits `PendingContentReady`; `engine/live.rs:136`: "all currently pending downloads have been completed" |
| `BadEndIsTold` | `PairSlots` (invariant) | the timeout of `handle_connection` (`net.rs:224`) drops the acceptor without a terminal frame, and the dialer may read the closed stream as success; `net/codec.rs:237`: "An exchange that ends badly says so with a terminal frame" |
| `AnswersAsDocumented` | `Node` (property) | the author filter is applied before the entries are grouped by key, so an author's entry is returned though another author's is later; `store.rs:280` says after |
| `SyncPeerIsTried` | `Downloads` (property) | a failed download is tried again only for the namespace that started it (`engine/live.rs:805`), so one that joined it does not get the peer of its sync asked; `engine/live.rs:660`: "the download is retried once if it fails" |
| `FailedIsParked` | `Downloads` (property) | a failed download is parked only for the namespace that started it, and the others that joined it forget the hash; `engine/live.rs:653` |

The models show the next group in a state they reach or in an exception
that a property makes.

- *Protect run cut off* (`gc.cut`, `ProtectIsComplete`). When the engine is dropped
  while the blob store lives on, its task is aborted and the channel closes, which
  the callback (`engine.rs:575`) reads as the end of the stream: it says continue
  with part of the hashes. `engine.rs:540` promises that "hashes referenced in docs
  will not be deleted".
- *A handle given back twice* (`takenTwice`, `LiveHoldsItsHandle`, `LeftIsLeft`).
  `Doc::close` on a closed `Doc`, or a drop that is refused, gives back a handle of
  another holder and may close the replica under the live sync. `leave` then
  returns at `set_sync` (`engine/live.rs:505`), before it quits gossip.
- *Default author after a crash* (`DeleteAuthorFile`). `load` flushes before it
  writes the file, lest the file be "a dangling reference" (`engine.rs:454-456`);
  `set` does not, so a crash can leave it one. A crash within `tokio::fs::write`
  (`engine.rs:474`) leaves a file that does not parse. Both need the operator.
- *Peers are not copied* (`list_tables`, `Copied`). The rewrite goes by
  `list_tables`, which leaves out multimap tables; its doc says "copy everything"
  (`store/fs/migrate_redb_v2_tuples.rs:6`).
- *Latest per key* (`Answer`). With equal timestamps the winner depends on the
  sort direction. A prefix that ends in 255 has the extra keys of
  `PrefixRemovalIsExact` in its range, where the key filter does not remove them.

Read in the code, without a model:

- `AuthorHeads::encode` (`heads.rs:72-76`) collects the heads in a map from
  timestamp to author. Of several authors with the same timestamp one is kept,
  also without a size limit; the doc speaks only of the limit.
- `DocsApi::open` (`api.rs:262`) says "Returns None if the document cannot be
  found"; it returns an error.
- `doc_set` (`api/actor.rs:538`) reads the entry back after inserting it. A remote
  entry that supersedes it in between makes the call fail although it wrote.

## What is not modelled

- Signatures, keys, tickets, encodings, framing and metrics: data without
  control. An entry with a bad signature is one the gate drops. The size limit of
  encoded author heads belongs here.
- Several namespaces in one store: tables are keyed by namespace, and
  `ReplicaStore` and `Node` follow one.
- `store/fs/migrate_v1_v2.rs`: no module declaration names the file and the crate
  it needs is not a dependency, so it is not part of the build.
- `DownloadPolicy::matches`, a pure function of a key; an entry that the policy
  does not want starts nothing in `Downloads`.
- The contents of live events and of gossip broadcasts: `Docs` follows who is
  subscribed, `LiveSync` and `Downloads` what arrives.
- API requests on an open document that only read, write or configure it are one
  action of `Docs`; the store's side of them is in `ReplicaStore` and `Node`.
- Loss inside an exchange: QUIC streams deliver in order or fail, and a failure is
  a fault of `LiveSync`.
