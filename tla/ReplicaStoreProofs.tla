------------------------- MODULE ReplicaStoreProofs -------------------------
(***************************************************************************)
(* Proofs about ReplicaStore, for every set of authors and keys, every     *)
(* byte range and every bound.                                             *)
(*                                                                         *)
(* TxnInv is about the transactions only: what is not committed is in a    *)
(* dirty write transaction.  It makes the tables an operation starts from  *)
(* the visible ones, whatever transaction it finds, so that every step is  *)
(* one of a few edits of the visible tables (StepForm).  The properties of *)
(* the tables are then proved edit by edit.  The pruning rule needs one    *)
(* fact about byte strings: the range of author_prefix covers every key    *)
(* that starts with the prefix (PrefixInRange).                            *)
(***************************************************************************)
EXTENDS ReplicaStore, FiniteSetTheorems, TLAPS

TxnInv ==
    /\ dirty \in BOOLEAN
    /\ dirty => txn = "write"
    /\ ~ dirty => vis = com
    /\ txn = "read" => view = vis

-----------------------------------------------------------------------------
(* Transactions                                                            *)

LEMMA BaseIsVisible ==
    ASSUME TxnInv, NEW aged \in BOOLEAN, aged => txn = "write"
    PROVE  /\ WriteBase(aged) = vis
           /\ finish_write = vis
  BY DEF TxnInv, WriteBase, finish_write

\* A read through tables and a write through modify, with what they find.
LEMMA TablesForm ==
    ASSUME TxnInv, NEW aged \in BOOLEAN, tables(aged)
    PROVE  vis' = vis /\ com' \in {com, vis} /\ TxnInv' /\ WriteBase(aged) = vis
<1>1. aged => txn = "write"
  BY DEF tables, current_write_transaction
<1>2. WriteBase(aged) = vis /\ finish_write = vis
  BY <1>1, BaseIsVisible
<1>3. vis' = vis /\ com' = (IF aged THEN vis ELSE com) /\ txn' = "write"
  BY <1>2 DEF tables, current_write_transaction
<1>4. dirty' \in BOOLEAN /\ (~ dirty' => aged \/ ~ dirty \/ txn # "write")
  BY Zenon DEF tables
<1>5. ~ dirty' => vis' = com'
  BY <1>3, <1>4 DEF TxnInv
<1> QED
  BY <1>2, <1>3, <1>4, <1>5 DEF TxnInv

LEMMA ModifyForm ==
    ASSUME TxnInv, NEW aged \in BOOLEAN, NEW t, modify(aged, t)
    PROVE  vis' = t /\ com' \in {com, vis} /\ TxnInv' /\ WriteBase(aged) = vis
<1>1. aged => txn = "write"
  BY DEF modify, current_write_transaction
<1>2. WriteBase(aged) = vis /\ finish_write = vis
  BY <1>1, BaseIsVisible
<1> QED
  BY <1>2 DEF modify, current_write_transaction, TxnInv

-----------------------------------------------------------------------------
(* The edits                                                               *)

Removed(id, r) == [vis EXCEPT !.records = remove_prefix_filtered(@, id, r)]

\* com keeps up with the tables as they were before the edit, or does not.
Lags == com' \in {com, vis}

Puts(id, r) ==
    /\ info # "closed" /\ info' = info
    /\ would_insert(vis.records, id, r)
    /\ vis' = entry_put(Removed(id, r), id, r)
    /\ Lags \/ com' = Removed(id, r)

Retracts(id) ==
    /\ Lags /\ info' = info
    /\ vis' = [vis EXCEPT !.records[id] = NoRecord, !.by_key = @ \ {id}]

Imports(c) ==
    /\ Lags
    /\ vis' = [vis EXCEPT !.namespace = IF @ = "none" THEN c ELSE merge(@, c)]
    /\ info' = IF vis.namespace \notin {"none", vis'.namespace} /\ info # "closed"
               THEN merge(info, c) ELSE info

Removes ==
    /\ Lags /\ info = "closed" /\ info' = info
    /\ vis' = [vis EXCEPT !.records = EmptyTables.records, !.by_key = {},
                          !.namespace = "none", !.peers = {}, !.policy = "default"]

\* The row a registration of p replaces, and the rows it leaves.
Evicted(rows, p) ==
    IF {m \in rows : m[2] = p} # {} THEN {FirstRow({m \in rows : m[2] = p})}
    ELSE IF Cardinality(rows) + 1 > PeerCacheSize THEN {FirstRow(rows)}
    ELSE {}

Registered(rows, p, nanos) == (rows \ Evicted(rows, p)) \cup {<<nanos, p>>}

Registers(p, nanos) ==
    /\ Lags /\ info' = info /\ vis.namespace # "none"
    /\ vis' = [vis EXCEPT !.peers = Registered(vis.peers, p, nanos)]

Policies(p) ==
    /\ Lags /\ info' = info /\ vis.namespace # "none"
    /\ vis' = [vis EXCEPT !.policy = p]

Rests ==
    /\ vis' = vis /\ Lags
    /\ \/ info' = info
       \/ info' = "closed"
       \/ vis.namespace # "none" /\ info' = vis.namespace

Edit == \/ \E id \in Ids, r \in Records : Puts(id, r)
        \/ \E id \in Ids : Retracts(id)
        \/ \E c \in Capabilities : Imports(c)
        \/ Removes
        \/ \E p \in Peers, nanos \in 1 .. MaxNanos : Registers(p, nanos)
        \/ \E p \in {"default", "set"} : Policies(p)
        \/ Rests

\* A crash goes back to what is committed.
Recovers == vis' = com /\ com' = com /\ info' = "closed"

LEMMA PutForm ==
    ASSUME TxnInv, NEW id \in Ids, NEW r \in Records, Put(id, r), info # "closed", info' = info
    PROVE  (Puts(id, r) \/ Rests) /\ TxnInv'
<1>1. PICK aged \in BOOLEAN, split \in BOOLEAN :
        LET t == WriteBase(aged)
            removed == [t EXCEPT !.records = remove_prefix_filtered(@, id, r)]
        IN  \/ /\ ~ would_insert(t.records, id, r)
               /\ ~ split
               /\ tables(aged)
            \/ /\ would_insert(t.records, id, r)
               /\ current_write_transaction(aged)
               /\ com' = IF split THEN removed ELSE IF aged THEN finish_write ELSE com
               /\ vis' = entry_put(removed, id, r)
               /\ dirty' = TRUE
  BY DEF Put
<1>2. CASE tables(aged)
  BY <1>2, TablesForm DEF Rests, Lags
<1>3. CASE ~ tables(aged)
  <2>1. aged => txn = "write"
    BY <1>1, <1>3, Zenon DEF current_write_transaction
  <2>2. WriteBase(aged) = vis /\ finish_write = vis
    BY <2>1, BaseIsVisible
  <2>3. /\ would_insert(vis.records, id, r)
        /\ txn' = "write" /\ dirty' = TRUE
        /\ com' = IF split THEN Removed(id, r) ELSE IF aged THEN vis ELSE com
        /\ vis' = entry_put(Removed(id, r), id, r)
    BY <1>1, <1>3, <2>2 DEF current_write_transaction, Removed
  <2>4. TxnInv'
    BY <2>3 DEF TxnInv
  <2>5. Puts(id, r)
    BY <2>3 DEF Puts, Lags
  <2> QED
    BY <2>4, <2>5
<1> QED
  BY <1>2, <1>3

LEMMA StepForm ==
    ASSUME TypeOK, TxnInv, [Next]_vars
    PROVE  (Edit \/ Recovers) /\ TxnInv' /\ (~ Crash => Edit)
<1>1. ASSUME NEW id \in Ids, NEW r \in Records,
             insert(id, r) \/ delete_prefix(id, r) \/ insert_remote_entry(id, r)
      PROVE  Edit /\ TxnInv'
  <2>1. Put(id, r) /\ info # "closed" /\ info' = info
    BY <1>1 DEF insert, delete_prefix, insert_remote_entry
  <2> QED
    BY <2>1, PutForm DEF Edit
<1>2. ASSUME NEW id \in Ids, NEW up_to \in 1 .. MaxTime, retract_entry(id, up_to)
      PROVE  Edit /\ TxnInv'
  <2>1. PICK aged \in BOOLEAN :
            /\ modify(aged, IF /\ Present(WriteBase(aged).records, id)
                               /\ WriteBase(aged).records[id].ts <= up_to
                            THEN [WriteBase(aged) EXCEPT !.records[id] = NoRecord,
                                                         !.by_key = @ \ {id}]
                            ELSE WriteBase(aged))
            /\ info' = info
    BY <1>2, Zenon DEF retract_entry
  <2>2. /\ TxnInv' /\ Lags /\ WriteBase(aged) = vis
        /\ vis' = IF /\ Present(WriteBase(aged).records, id)
                     /\ WriteBase(aged).records[id].ts <= up_to
                  THEN [WriteBase(aged) EXCEPT !.records[id] = NoRecord,
                                               !.by_key = @ \ {id}]
                  ELSE WriteBase(aged)
    BY <2>1, ModifyForm DEF Lags
  <2>3. Retracts(id) \/ Rests
    BY <2>1, <2>2 DEF Retracts, Rests
  <2> QED
    BY <2>2, <2>3, SMTT(30) DEF Edit
<1>3. ASSUME NEW c \in Capabilities, ImportNamespace(c) PROVE Edit /\ TxnInv'
  <2>1. PICK aged \in BOOLEAN :
            LET t   == WriteBase(aged)
                cap == IF t.namespace = "none" THEN c ELSE merge(t.namespace, c)
            IN  /\ modify(aged, [t EXCEPT !.namespace = cap])
                /\ info' = IF t.namespace \notin {"none", cap} /\ info # "closed"
                           THEN merge(info, c)
                           ELSE info
    BY <1>3 DEF ImportNamespace
  <2> DEFINE cap == IF vis.namespace = "none" THEN c ELSE merge(vis.namespace, c)
  <2>2. TxnInv' /\ Lags /\ WriteBase(aged) = vis
    BY <2>1, ModifyForm DEF Lags
  <2>3. /\ vis' = [vis EXCEPT !.namespace = cap]
        /\ info' = IF vis.namespace \notin {"none", cap} /\ info # "closed"
                   THEN merge(info, c) ELSE info
    BY <2>1, <2>2, ModifyForm
  <2>4. vis'.namespace = cap
    BY <2>3 DEF TypeOK, Tables
  <2>5. Imports(c)
    BY <2>2, <2>3, <2>4 DEF Imports
  <2> QED
    BY <2>2, <2>5 DEF Edit
<1>4. CASE load_replica_info
  <2>1. PICK aged \in BOOLEAN :
            WriteBase(aged).namespace # "none" /\ tables(aged) /\ info' = WriteBase(aged).namespace
    BY <1>4 DEF load_replica_info
  <2>2. vis' = vis /\ Lags /\ TxnInv' /\ WriteBase(aged) = vis
    BY <2>1, TablesForm DEF Lags
  <2> QED
    BY <2>1, <2>2 DEF Edit, Rests
<1>5. CASE close_replica
  BY <1>5 DEF close_replica, Edit, Rests, Lags, TxnInv
<1>6. CASE remove_replica
  <2>1. PICK aged \in BOOLEAN :
            /\ info = "closed" /\ info' = info
            /\ modify(aged, [WriteBase(aged) EXCEPT !.records = EmptyTables.records,
                                                    !.by_key = {},
                                                    !.namespace = "none",
                                                    !.peers = {},
                                                    !.policy = "default"])
    BY <1>6, Zenon DEF remove_replica
  <2>2. TxnInv' /\ Removes
    BY <2>1, ModifyForm, Zenon DEF Removes, Lags
  <2> QED
    BY <2>2, SMTT(30) DEF Edit
<1>7. ASSUME NEW p \in Peers, NEW nanos \in 1 .. MaxNanos, register_useful_peer(p, nanos)
      PROVE  Edit /\ TxnInv'
  <2>1. PICK aged \in BOOLEAN :
            /\ info' = info
            /\ modify(aged, IF WriteBase(aged).namespace = "none" THEN WriteBase(aged)
                            ELSE [WriteBase(aged) EXCEPT
                                    !.peers = Registered(WriteBase(aged).peers, p, nanos)])
    BY <1>7, Zenon DEF register_useful_peer, Registered, Evicted
  <2>2. TxnInv' /\ Lags /\ WriteBase(aged) = vis
    BY <2>1, ModifyForm DEF Lags
  <2>3. vis' = IF vis.namespace = "none" THEN vis
               ELSE [vis EXCEPT !.peers = Registered(vis.peers, p, nanos)]
    BY <2>1, <2>2, ModifyForm
  <2> QED
    BY <2>1, <2>2, <2>3 DEF Edit, Rests, Registers
<1>8. ASSUME NEW p \in {"default", "set"}, set_download_policy(p) PROVE Edit /\ TxnInv'
  <2>1. PICK aged \in BOOLEAN :
            /\ info' = info
            /\ modify(aged, IF WriteBase(aged).namespace = "none" THEN WriteBase(aged)
                            ELSE [WriteBase(aged) EXCEPT !.policy = p])
    BY <1>8 DEF set_download_policy
  <2>2. TxnInv' /\ Lags /\ WriteBase(aged) = vis
    BY <2>1, ModifyForm DEF Lags
  <2>3. vis' = IF vis.namespace = "none" THEN vis ELSE [vis EXCEPT !.policy = p]
    BY <2>1, <2>2, ModifyForm
  <2> QED
    BY <2>1, <2>2, <2>3 DEF Edit, Rests, Policies
<1>9. CASE ReadTables
  BY <1>9, TablesForm DEF ReadTables, Edit, Rests, Lags
<1>10. CASE Flush
  BY <1>10, Zenon DEF Flush, finish_write, TxnInv, Edit, Rests, Lags
<1>11. CASE Snapshot
  BY <1>11, Zenon DEF Snapshot, finish_write, TxnInv, Edit, Rests, Lags
<1>12. CASE Crash
  BY <1>12, Zenon DEF Crash, Recovers, TxnInv
<1>13. CASE UNCHANGED vars
  BY <1>13 DEF vars, TxnInv, Edit, Rests, Lags
<1> QED
  BY <1>1, <1>2, <1>3, <1>4, <1>5, <1>6, <1>7, <1>8, <1>9, <1>10, <1>11, <1>12, <1>13, ZenonT(30) DEF Next

-----------------------------------------------------------------------------
(* Types                                                                   *)

LEMMA RemovedTables ==
    ASSUME vis \in Tables, NEW id \in Ids, NEW r \in Records
    PROVE  /\ Removed(id, r) \in Tables
           /\ Removed(id, r).records = remove_prefix_filtered(vis.records, id, r)
           /\ Removed(id, r).by_key = vis.by_key
           /\ Removed(id, r).namespace = vis.namespace
           /\ Removed(id, r).peers = vis.peers
           /\ Removed(id, r).policy = vis.policy
<1>1. remove_prefix_filtered(vis.records, id, r) \in RecordTables
  BY DEF Tables, RecordTables, remove_prefix_filtered
<1> QED
  BY <1>1 DEF Removed, Tables

LEMMA EntryPutTables ==
    ASSUME NEW t \in Tables, NEW id \in Ids, NEW r \in Records
    PROVE  /\ entry_put(t, id, r) \in Tables
           /\ entry_put(t, id, r).records = [t.records EXCEPT ![id] = r]
           /\ entry_put(t, id, r).by_key = t.by_key \cup {id}
           /\ entry_put(t, id, r).namespace = t.namespace
           /\ entry_put(t, id, r).peers = t.peers
           /\ entry_put(t, id, r).policy = t.policy
<1>1. [t.records EXCEPT ![id] = r] \in RecordTables
  BY DEF Tables, RecordTables
<1>2. [t.latest EXCEPT ![id[1]] = r.ts] \in [Authors -> 0 .. MaxTime]
  BY EntriesAssumption DEF Tables, Ids, Records
<1>3. t.by_key \cup {id} \in SUBSET Ids
  BY DEF Tables
<1> QED
  BY <1>1, <1>2, <1>3, Zenon DEF entry_put, Tables

TablesOK == vis \in Tables /\ com \in Tables /\ info \in Capabilities \cup {"closed"}

LEMMA EmptyTablesType == EmptyTables \in Tables
  BY EntriesAssumption DEF EmptyTables, Tables, RecordTables

LEMMA TablesStep ==
    ASSUME TablesOK, Edit \/ Recovers
    PROVE  TablesOK'
<1>1. ASSUME NEW id \in Ids, NEW r \in Records, Puts(id, r) PROVE TablesOK'
  <2>1. Removed(id, r) \in Tables
    BY RemovedTables DEF TablesOK
  <2>2. vis' \in Tables
    BY <1>1, <2>1, EntryPutTables, Zenon DEF Puts
  <2> QED
    BY <1>1, <2>1, <2>2 DEF Puts, Lags, TablesOK
<1>2. ASSUME NEW id \in Ids, Retracts(id) PROVE TablesOK'
  <2>1. [vis.records EXCEPT ![id] = NoRecord] \in RecordTables /\ vis.by_key \ {id} \in SUBSET Ids
    BY DEF TablesOK, Tables, RecordTables
  <2>2. vis' \in Tables
    BY <1>2, <2>1, Zenon DEF Retracts, TablesOK, Tables
  <2> QED
    BY <1>2, <2>2 DEF Retracts, Lags, TablesOK
<1>3. ASSUME NEW c \in Capabilities, Imports(c) PROVE TablesOK'
  <2>1. vis' \in Tables
    BY <1>3 DEF Imports, TablesOK, Tables, merge
  <2>2. info' \in Capabilities \cup {"closed"}
    BY <1>3 DEF Imports, TablesOK, merge
  <2> QED
    BY <1>3, <2>1, <2>2 DEF Imports, Lags, TablesOK
<1>4. CASE Removes
  <2>1. vis' \in Tables
    BY <1>4, EmptyTablesType, Zenon DEF Removes, TablesOK, Tables
  <2> QED
    BY <1>4, <2>1 DEF Removes, Lags, TablesOK
<1>5. ASSUME NEW p \in Peers, NEW nanos \in 1 .. MaxNanos, Registers(p, nanos) PROVE TablesOK'
  <2>0. Registered(vis.peers, p, nanos) \in SUBSET ((1 .. MaxNanos) \X Peers)
    BY DEF Registered, TablesOK, Tables
  <2>1. vis' \in Tables
    BY <1>5, <2>0 DEF Registers, TablesOK, Tables
  <2> QED
    BY <1>5, <2>1 DEF Registers, Lags, TablesOK
<1>6. ASSUME NEW p \in {"default", "set"}, Policies(p) PROVE TablesOK'
  <2>1. vis' \in Tables
    BY <1>6 DEF Policies, TablesOK, Tables
  <2> QED
    BY <1>6, <2>1 DEF Policies, Lags, TablesOK
<1>7. CASE Rests
  BY <1>7 DEF Rests, Lags, TablesOK, Tables
<1>8. CASE Recovers
  BY <1>8 DEF Recovers, TablesOK
<1> QED
  BY <1>1, <1>2, <1>3, <1>4, <1>5, <1>6, <1>7, <1>8 DEF Edit

\* The rest of the state: the transaction's variant, the held view, the count.
LEMMA CountStep ==
    ASSUME TypeOK, TxnInv, TxnInv', TablesOK', [Next]_vars
    PROVE  TypeOK'
<1> DEFINE Counts == ops' = ops \/ CountOp
           Writes == txn' = "write" /\ view' = NoView
<1>1. \A aged \in BOOLEAN : \A t :
         tables(aged) \/ modify(aged, t) \/ current_write_transaction(aged) => Writes
  BY DEF tables, modify, current_write_transaction
<1>2. \A id, r : Put(id, r) => Writes
  BY <1>1 DEF Put
<1>3. \/ Counts /\ Writes
      \/ ops' = ops /\ txn' = "none" /\ view' = NoView
      \/ ops' = ops /\ txn' = "read" /\ view' \in {view, com, com'}
      \/ UNCHANGED <<ops, txn, view>>
  <2>1. ASSUME NEW id \in Ids, NEW r \in Records,
               insert(id, r) \/ delete_prefix(id, r) \/ insert_remote_entry(id, r)
        PROVE  Counts /\ Writes
    BY <1>2, <2>1 DEF insert, delete_prefix, insert_remote_entry
  <2>2. ASSUME NEW id \in Ids, NEW up_to \in 1 .. MaxTime, retract_entry(id, up_to)
        PROVE  Counts /\ Writes
    BY <1>1, <2>2 DEF retract_entry
  <2>3. ASSUME NEW c \in Capabilities, ImportNamespace(c) PROVE Counts /\ Writes
    BY <1>1, <2>3, SMTT(30) DEF ImportNamespace
  <2>4. CASE load_replica_info \/ remove_replica \/ ReadTables
    BY <1>1, <2>4, Zenon DEF load_replica_info, remove_replica, ReadTables
  <2>5. ASSUME NEW p \in Peers, NEW nanos \in 1 .. MaxNanos, register_useful_peer(p, nanos)
        PROVE  Counts /\ Writes
    BY <1>1, <2>5 DEF register_useful_peer
  <2>6. ASSUME NEW p \in {"default", "set"}, set_download_policy(p) PROVE Counts /\ Writes
    BY <1>1, <2>6 DEF set_download_policy
  <2>7. CASE Flush \/ Snapshot \/ Crash \/ close_replica \/ UNCHANGED vars
    BY <2>7 DEF Flush, Snapshot, Crash, close_replica, vars
  <2> QED
    BY <2>1, <2>2, <2>3, <2>4, <2>5, <2>6, <2>7 DEF Next
<1>4. ops' \in 0 .. MaxOps
  BY <1>3, StoreAssumption DEF TypeOK, CountOp
<1>5. txn' \in {"none", "read", "write"} /\ view' \in Tables
  BY <1>3, EmptyTablesType DEF TypeOK, NoView, TablesOK
<1> QED
  BY <1>4, <1>5 DEF TypeOK, TxnInv, TablesOK

\* The store's tables, its transaction and the open replica are well typed, and
\* what is not committed is in a dirty write transaction.
THEOREM StoreTypeCorrect == Spec => [](TypeOK /\ TxnInv)
<1>1. Init => TypeOK /\ TxnInv
  <2> SUFFICES ASSUME Init PROVE TypeOK /\ TxnInv
    OBVIOUS
  <2>1. vis \in Tables /\ com \in Tables /\ view \in Tables
    BY EmptyTablesType DEF Init, NoView
  <2>2. TypeOK
    <3>1. dirty \in BOOLEAN /\ txn \in {"none", "read", "write"}
      BY Zenon DEF Init
    <3>2. info \in Capabilities \cup {"closed"}
      BY DEF Init
    <3>3. ops \in 0 .. MaxOps
      BY StoreAssumption DEF Init
    <3> QED
      BY <2>1, <3>1, <3>2, <3>3 DEF TypeOK
  <2>3. TxnInv
    BY Zenon DEF Init, TxnInv
  <2> QED
    BY <2>2, <2>3
<1>2. TypeOK /\ TxnInv /\ [Next]_vars => TypeOK' /\ TxnInv'
  <2> SUFFICES ASSUME TypeOK, TxnInv, [Next]_vars PROVE TypeOK' /\ TxnInv'
    OBVIOUS
  <2>1. (Edit \/ Recovers) /\ TxnInv'
    BY StepForm
  <2>2. TablesOK'
    BY <2>1, TablesStep DEF TypeOK, TablesOK
  <2> QED
    BY <2>1, <2>2, CountStep
<1> QED
  BY <1>1, <1>2, PTL DEF Spec

\* Whenever the store holds no dirty transaction, everything it shows is durable:
\* finish_write may drop a clean transaction.
THEOREM CleanIsCommitted == Spec => []CleanMeansCommitted
<1>1. TxnInv => CleanMeansCommitted
  BY DEF TxnInv, CleanMeansCommitted
<1> QED
  BY <1>1, StoreTypeCorrect, PTL

\* A read transaction that snapshot() reuses shows every write made through the
\* store.
THEOREM SnapshotsSeeWrites == Spec => []SnapshotSeesWrites
<1>1. TxnInv => SnapshotSeesWrites
  BY DEF TxnInv, SnapshotSeesWrites
<1> QED
  BY <1>1, StoreTypeCorrect, PTL

-----------------------------------------------------------------------------
(* The tables                                                              *)

\* What NoOrphanRows and IndexCoversRecords say of one set of tables.
NoOrphans(t) == t.namespace = "none" =>
                    /\ \A id \in Ids : ~ Present(t.records, id)
                    /\ t.by_key = {} /\ t.peers = {} /\ t.policy = "default"

Indexed(t) == \A id \in Ids : Present(t.records, id) => id \in t.by_key

\* An open replica has the stored capability; so what needs one finds its namespace.
RowsInv == /\ OpenCapabilityIsStored
           /\ NoOrphans(vis) /\ NoOrphans(com)
           /\ Indexed(vis) /\ Indexed(com)

LEMMA RowsStep ==
    ASSUME TypeOK, RowsInv, Edit \/ Recovers
    PROVE  RowsInv'
<1> USE DEF TypeOK
<1>1. ASSUME vis' = vis, com' \in {com, vis}, OpenCapabilityIsStored' PROVE RowsInv'
  BY <1>1 DEF RowsInv, NoOrphans, Indexed, Present
<1>2. ASSUME OpenCapabilityIsStored', NoOrphans(vis'), Indexed(vis'), Lags PROVE RowsInv'
  BY <1>2 DEF RowsInv, NoOrphans, Indexed, Present, Lags
<1>3. ASSUME NEW id \in Ids, NEW r \in Records, Puts(id, r) PROVE RowsInv'
  <2>1. info = vis.namespace /\ vis.namespace # "none" /\ info' = info
    BY <1>3 DEF Puts, RowsInv, OpenCapabilityIsStored, Capabilities
  <2> DEFINE rem == Removed(id, r)
  <2>2. /\ rem \in Tables /\ rem.by_key = vis.by_key /\ rem.namespace = vis.namespace
        /\ rem.records = remove_prefix_filtered(vis.records, id, r)
    BY RemovedTables
  <2>3. /\ vis' \in Tables /\ vis'.records = [rem.records EXCEPT ![id] = r]
        /\ vis'.by_key = vis.by_key \cup {id} /\ vis'.namespace = vis.namespace
    BY <1>3, <2>2, EntryPutTables DEF Puts
  <2>4. Indexed(rem)
    BY <2>2 DEF RowsInv, Indexed, Present, remove_prefix_filtered
  <2>5. Indexed(vis')
    BY <2>2, <2>3, <2>4 DEF Indexed, Present, Tables, RecordTables
  <2>6. NoOrphans(rem) /\ NoOrphans(vis') /\ OpenCapabilityIsStored'
    BY <2>1, <2>2, <2>3 DEF NoOrphans, OpenCapabilityIsStored
  <2>7. CASE Lags
    BY <1>2, <2>5, <2>6, <2>7
  <2>8. CASE com' = rem
    <3> HIDE DEF rem
    <3> QED
      BY <2>4, <2>5, <2>6, <2>8 DEF RowsInv, NoOrphans, Indexed, Present
  <2> QED
    BY <1>3, <2>7, <2>8 DEF Puts
<1>4. ASSUME NEW id \in Ids, Retracts(id) PROVE RowsInv'
  <2>1. /\ vis'.records = [vis.records EXCEPT ![id] = NoRecord]
        /\ vis'.by_key = vis.by_key \ {id}
        /\ vis'.namespace = vis.namespace /\ vis'.peers = vis.peers /\ vis'.policy = vis.policy
        /\ Lags /\ info' = info
    BY <1>4 DEF Retracts, Tables
  <2>2. Indexed(vis')
    BY <2>1 DEF RowsInv, Indexed, Present, Tables, RecordTables
  <2>3. NoOrphans(vis')
    BY <2>1 DEF RowsInv, NoOrphans, Present, Tables, RecordTables
  <2>4. OpenCapabilityIsStored'
    BY <2>1 DEF RowsInv, OpenCapabilityIsStored
  <2> QED
    BY <1>2, <2>1, <2>2, <2>3, <2>4
<1>5. ASSUME NEW c \in Capabilities, Imports(c) PROVE RowsInv'
  <2>1. /\ vis'.namespace = IF vis.namespace = "none" THEN c ELSE merge(vis.namespace, c)
        /\ vis'.records = vis.records /\ vis'.by_key = vis.by_key
        /\ info' = IF vis.namespace \notin {"none", vis'.namespace} /\ info # "closed"
                   THEN merge(info, c) ELSE info
        /\ Lags
    BY <1>5 DEF Imports, Tables
  <2>2. vis'.namespace # "none"
    BY <2>1 DEF merge, Capabilities
  <2>3. Indexed(vis')
    BY <2>1 DEF RowsInv, Indexed, Present
  <2>4. NoOrphans(vis')
    BY <2>2 DEF NoOrphans
  <2>5. OpenCapabilityIsStored'
    BY <2>1 DEF RowsInv, OpenCapabilityIsStored, merge, Capabilities
  <2> QED
    BY <1>2, <2>1, <2>3, <2>4, <2>5
<1>6. CASE Removes
  <2>1. /\ vis'.records = [i \in Ids |-> NoRecord] /\ vis'.by_key = {}
        /\ vis'.namespace = "none" /\ vis'.peers = {} /\ vis'.policy = "default"
        /\ Lags /\ info' = "closed"
    BY <1>6 DEF Removes, Tables, EmptyTables
  <2>2. NoOrphans(vis') /\ Indexed(vis')
    BY <2>1 DEF NoOrphans, Indexed, Present
  <2>3. OpenCapabilityIsStored'
    BY <2>1 DEF OpenCapabilityIsStored
  <2> QED
    BY <1>2, <2>1, <2>2, <2>3
<1>7. ASSUME NEW p \in Peers, NEW nanos \in 1 .. MaxNanos, Registers(p, nanos) PROVE RowsInv'
  <2>1. /\ vis'.records = vis.records /\ vis'.by_key = vis.by_key
        /\ vis'.namespace = vis.namespace /\ vis.namespace # "none"
        /\ Lags /\ info' = info
    BY <1>7 DEF Registers, Tables
  <2>2. NoOrphans(vis') /\ Indexed(vis')
    BY <2>1 DEF RowsInv, NoOrphans, Indexed, Present
  <2>3. OpenCapabilityIsStored'
    BY <2>1 DEF RowsInv, OpenCapabilityIsStored
  <2> QED
    BY <1>2, <2>1, <2>2, <2>3
<1>8. ASSUME NEW p \in {"default", "set"}, Policies(p) PROVE RowsInv'
  <2>1. /\ vis'.records = vis.records /\ vis'.by_key = vis.by_key
        /\ vis'.namespace = vis.namespace /\ vis.namespace # "none"
        /\ Lags /\ info' = info
    BY <1>8 DEF Policies, Tables
  <2>2. NoOrphans(vis') /\ Indexed(vis')
    BY <2>1 DEF RowsInv, NoOrphans, Indexed, Present
  <2>3. OpenCapabilityIsStored'
    BY <2>1 DEF RowsInv, OpenCapabilityIsStored
  <2> QED
    BY <1>2, <2>1, <2>2, <2>3
<1>9. CASE Rests
  BY <1>1, <1>9 DEF Rests, Lags, RowsInv, OpenCapabilityIsStored
<1>10. CASE Recovers
  BY <1>10 DEF Recovers, RowsInv, NoOrphans, Indexed, Present, OpenCapabilityIsStored
<1> QED
  BY <1>3, <1>4, <1>5, <1>6, <1>7, <1>8, <1>9, <1>10, SMTT(30) DEF Edit

LEMMA RowsHold == Spec => []RowsInv
<1>1. Init => RowsInv
  BY DEF Init, EmptyTables, RowsInv, OpenCapabilityIsStored, NoOrphans, Indexed, Present
<1>2. TypeOK /\ TxnInv /\ RowsInv /\ [Next]_vars => RowsInv'
  BY StepForm, RowsStep
<1> QED
  BY <1>1, <1>2, StoreTypeCorrect, PTL DEF Spec

\* Every record has its by-key row, in what is visible and in what a crash
\* recovers, also when the transaction is committed between the two writes of put.
THEOREM IndexIsComplete == Spec => []IndexCoversRecords
<1>1. RowsInv => IndexCoversRecords
  BY DEF RowsInv, Indexed, IndexCoversRecords
<1> QED
  BY <1>1, RowsHold, PTL

\* A namespace that is not in the store has no records, index rows, peers or
\* policy there, before and after a crash.
THEOREM RemovalIsComplete == Spec => []NoOrphanRows
<1>1. RowsInv => NoOrphanRows
  BY DEF RowsInv, NoOrphans, NoOrphanRows
<1> QED
  BY <1>1, RowsHold, PTL

\* An open replica signs with the capability that is stored.
THEOREM OpenCapabilityAgrees == Spec => []OpenCapabilityIsStored
<1>1. RowsInv => OpenCapabilityIsStored
  BY DEF RowsInv
<1> QED
  BY <1>1, RowsHold, PTL

-----------------------------------------------------------------------------
(* Byte strings and records                                                *)

LEMMA HasMin ==
    ASSUME NEW S \in SUBSET Nat, S # {}
    PROVE  \E i \in S : \A j \in S : i <= j
<1> DEFINE R == OpToRel(<, Nat)
<1>1. IsWellFoundedOn(R, Nat)
  BY NatLessThanWellFounded, Zenon
<1>2. PICK i \in S : \A j \in S : ~ (<<j, i>> \in R)
  <2> HIDE DEF R
  <2> QED
    BY <1>1, WFMin, Zenon
<1>3. \A j \in S : ~ (j < i)
  BY <1>2, Zenon DEF OpToRel
<1> QED
  BY <1>3

LEMMA HasMax ==
    ASSUME NEW n \in Nat, NEW S \in SUBSET (0 .. n), S # {}
    PROVE  \E i \in S : \A j \in S : j <= i
<1> DEFINE R == OpToRel(<, Nat)
           T == {k \in Nat : \E i \in S : k = n - i}
<1>1. IsWellFoundedOn(R, Nat)
  BY NatLessThanWellFounded, Zenon
<1>2. \A i \in S : i \in Int /\ n - i \in Nat /\ n - i \in T
  OBVIOUS
<1>3. PICK x \in T : \A y \in T : ~ (<<y, x>> \in R)
  <2>1. T \subseteq Nat /\ T # {}
    BY <1>2, Zenon
  <2> HIDE DEF R, T
  <2> QED
    BY <1>1, <2>1, WFMin, Zenon
<1>4. \A y \in T : ~ (y < x)
  BY <1>3, Zenon DEF OpToRel
<1>5. PICK i \in S : x = n - i
  BY Zenon
<1>6. ASSUME NEW j \in S PROVE j <= i
  <2>1. ~ (n - j < n - i)
    BY <1>2, <1>4, <1>5, Zenon
  <2> QED
    BY <1>2, <2>1
<1> QED
  BY <1>6, Zenon

LEMMA SameChars ==
    ASSUME NEW S, NEW j \in Seq(S), NEW k \in Seq(S), Len(j) = Len(k),
           \A i \in 1 .. Len(j) : j[i] = k[i]
    PROVE  j = k
  OBVIOUS

LEMMA FirstChars ==
    ASSUME NEW S, NEW k \in Seq(S), NEW n \in Nat, n <= Len(k)
    PROVE  /\ Len(SubSeq(k, 1, n)) = n /\ SubSeq(k, 1, n) \in Seq(S)
           /\ \A i \in 1 .. n : SubSeq(k, 1, n)[i] = k[i]
<1>1. Len(SubSeq(k, 1, n)) = n
  OBVIOUS
<1>2. SubSeq(k, 1, n) \in Seq(S)
  OBVIOUS
<1>3. \A i \in 1 .. n : SubSeq(k, 1, n)[i] = k[i]
  OBVIOUS
<1> QED
  BY <1>1, <1>2, <1>3, Zenon

LEMMA PrefixChars ==
    ASSUME NEW p \in Seq(0 .. MaxByte), NEW k \in Seq(0 .. MaxByte)
    PROVE  IsPrefixOf(p, k) <=> Len(p) <= Len(k) /\ \A i \in 1 .. Len(p) : p[i] = k[i]
<1>1. Len(p) \in Nat
  OBVIOUS
<1>2. ASSUME Len(p) <= Len(k)
      PROVE  /\ Len(SubSeq(k, 1, Len(p))) = Len(p)
             /\ SubSeq(k, 1, Len(p)) \in Seq(0 .. MaxByte)
             /\ \A i \in 1 .. Len(p) : SubSeq(k, 1, Len(p))[i] = k[i]
  BY <1>1, <1>2, FirstChars, Zenon
<1>3. ASSUME Len(p) <= Len(k)
      PROVE  p = SubSeq(k, 1, Len(p)) <=> \A i \in 1 .. Len(p) : p[i] = k[i]
  BY <1>2, <1>3, SameChars, Zenon
<1> QED
  BY <1>3, Zenon DEF IsPrefixOf

LEMMA OwnPrefix == \A k \in Keys : IsPrefixOf(k, k)
<1> TAKE k \in Keys
<1>1. k \in Seq(0 .. MaxByte) /\ Len(k) \in Nat
  BY EntriesAssumption
<1> QED
  BY <1>1, PrefixChars

\* The keys that start with p are in the range the bounds of p describe.
LEMMA PrefixInRange ==
    ASSUME NEW p \in Keys, NEW k \in Keys, IsPrefixOf(p, k)
    PROVE  k \in author_prefix[p]
<1>1. p \in Seq(0 .. MaxByte) /\ k \in Seq(0 .. MaxByte) /\ MaxByte \in Nat
  BY EntriesAssumption, Zenon
<1>2. /\ Len(p) \in Nat /\ Len(k) \in Nat /\ DOMAIN p = 1 .. Len(p) /\ DOMAIN k = 1 .. Len(k)
      /\ \A i \in 1 .. Len(p) : p[i] \in 0 .. MaxByte /\ p[i] \in Int
  BY <1>1
<1>3. Len(p) <= Len(k) /\ \A i \in 1 .. Len(p) : p[i] = k[i]
  BY <1>1, PrefixChars, Zenon
<1>4. ~ KeyLess(k, p)
  <2>1. ~ (IsPrefixOf(k, p) /\ k # p)
    <3> SUFFICES ASSUME IsPrefixOf(k, p) PROVE k = p
      BY Zenon
    <3>1. Len(k) <= Len(p)
      BY <1>1, PrefixChars, Zenon
    <3>2. Len(k) = Len(p)
      <4>1. Len(p) \in Int /\ Len(k) \in Int /\ Len(p) <= Len(k)
        BY <1>2, <1>3
      <4> QED
        BY <3>1, <4>1
    <3> QED
      <4>1. \A i \in 1 .. Len(p) : p[i] = k[i]
        BY <1>3, Zenon
      <4>2. Len(p) = Len(k)
        BY <3>2, Zenon
      <4> QED
        BY <1>1, <4>1, <4>2, SameChars, Zenon
  <2>2. ASSUME NEW i \in DOMAIN k \cap DOMAIN p, k[i] < p[i] PROVE FALSE
    BY <1>2, <1>3, <2>2
  <2> QED
    BY <2>1, <2>2, Zenon DEF KeyLess
<1>5. ASSUME BelowMax(p) # {} PROVE KeyLess(k, increment_by_one(p))
  <2>1. BelowMax(p) \in SUBSET (1 .. Len(p)) /\ BelowMax(p) \in SUBSET (0 .. Len(p))
    BY <1>2 DEF BelowMax
  <2>2. \E i \in BelowMax(p) : \A j \in BelowMax(p) : j <= i
    BY <1>2, <1>5, <2>1, HasMax, Zenon
  <2> DEFINE i == CHOOSE i \in BelowMax(p) : \A j \in BelowMax(p) : j <= i
  <2>3. i \in BelowMax(p)
    BY <2>2, Zenon
  <2>4. increment_by_one(p) =
            [j \in DOMAIN p |-> IF j < i THEN p[j] ELSE IF j = i THEN p[j] + 1 ELSE 0]
    BY Zenon DEF increment_by_one
  <2> HIDE DEF i
  <2>5. /\ i \in 1 .. Len(p) /\ i \in DOMAIN k /\ i \in DOMAIN increment_by_one(p)
        /\ increment_by_one(p)[i] = p[i] + 1
        /\ \A h \in 1 .. i - 1 : increment_by_one(p)[h] = p[h] /\ h \in 1 .. Len(p)
    BY <1>2, <1>3, <2>1, <2>3, <2>4
  <2>6. k[i] < increment_by_one(p)[i] /\ \A h \in 1 .. i - 1 : k[h] = increment_by_one(p)[h]
    BY <1>2, <1>3, <2>5
  <2> QED
    BY <2>5, <2>6, Zenon DEF KeyLess
<1> QED
  BY <1>4, <1>5, Zenon DEF author_prefix

LEMMA RecordFields ==
    ASSUME NEW r \in Records \cup {NoRecord}, NEW s \in Records \cup {NoRecord}
    PROVE  /\ r.ts \in Int /\ s.ts \in Int /\ r.hash \in Int /\ s.hash \in Int
           /\ r.ts = s.ts /\ r.hash = s.hash => r = s
<1>1. Hashes \subseteq Int /\ EmptyHash \in Int
  BY EntriesAssumption
<1>2. Records \cup {NoRecord} \subseteq [ts : Int, hash : Int]
  <2>1. NoRecord \in [ts : Int, hash : Int]
    BY <1>1 DEF NoRecord
  <2>2. ASSUME NEW q \in Records PROVE q \in [ts : Int, hash : Int]
    <3>1. q = [ts |-> q.ts, hash |-> q.hash] /\ q.ts \in 1 .. MaxTime /\ q.hash \in Hashes
      BY Zenon DEF Records
    <3>2. q.ts \in Int /\ q.hash \in Int
      BY <1>1, <3>1, EntriesAssumption
    <3> QED
      BY <3>1, <3>2, Zenon
  <2> QED
    BY <2>1, <2>2, Zenon
<1>3. r \in [ts : Int, hash : Int] /\ s \in [ts : Int, hash : Int]
  BY <1>2, Zenon
<1>4. r = [ts |-> r.ts, hash |-> r.hash] /\ s = [ts |-> s.ts, hash |-> s.hash]
  BY <1>3, Zenon
<1>5. r.ts \in Int /\ s.ts \in Int /\ r.hash \in Int /\ s.hash \in Int
  BY <1>3, Zenon
<1>6. r.ts = s.ts /\ r.hash = s.hash => r = s
  BY <1>4, Zenon
<1> QED
  BY <1>5, <1>6, Zenon

LEMMA RecordOrder ==
    ASSUME NEW r \in Records \cup {NoRecord}, NEW s \in Records \cup {NoRecord}
    PROVE  /\ ~ RecordLeq(r, s) <=> RecordLess(s, r)
           /\ RecordLess(s, r) => RecordLeq(s, r)
  BY RecordFields DEF RecordLeq, RecordLess

LEMMA FewerPruned ==
    ASSUME NEW tab, NEW less, Pruned(tab), \A id \in Ids : less[id] \in {tab[id], NoRecord}
    PROVE  Pruned(less)
  BY Zenon DEF Pruned, Present

LEMMA PutPrunes ==
    ASSUME NEW tab \in RecordTables, Pruned(tab), NEW id \in Ids, NEW r \in Records,
           would_insert(tab, id, r)
    PROVE  /\ Pruned(remove_prefix_filtered(tab, id, r))
           /\ Pruned([remove_prefix_filtered(tab, id, r) EXCEPT ![id] = r])
<1> DEFINE rem == remove_prefix_filtered(tab, id, r)
           new == [rem EXCEPT ![id] = r]
<1>1. rem \in RecordTables
  BY Zenon DEF RecordTables, remove_prefix_filtered
<1>2. \A i \in Ids : rem[i] \in {tab[i], NoRecord}
  BY Zenon DEF remove_prefix_filtered
<1>3. Pruned(rem)
  <2> HIDE DEF rem
  <2> QED
    BY <1>2, FewerPruned, Zenon
<1>4. \A i \in Ids : new[i] = IF i = id THEN r ELSE rem[i]
  BY <1>1, Zenon DEF RecordTables
<1>5. \A i \in Ids : tab[i] \in Records \cup {NoRecord} /\ i[1] \in Authors /\ i[2] \in Keys
  BY Zenon DEF RecordTables, Ids
<1>6. ASSUME NEW child \in Ids, child[1] = id[1], IsPrefixOf(id[2], child[2]), Present(rem, child)
      PROVE  RecordLess(r, rem[child])
  <2>1. child[2] \in author_prefix[id[2]]
    BY <1>5, <1>6, PrefixInRange, Zenon
  <2>2. ~ RecordLeq(tab[child], r) /\ rem[child] = tab[child]
    BY <1>6, <2>1, Zenon DEF Present, remove_prefix_filtered
  <2> QED
    BY <1>5, <2>2, RecordOrder, Zenon
<1>7. ASSUME NEW i \in Ids, i[1] = id[1], i[2] # << >>, IsPrefixOf(i[2], id[2]),
             Present(rem, i), ~ IsEmpty(rem[i])
      PROVE  RecordLess(rem[i], r)
  <2>1. rem[i] = tab[i] /\ Present(tab, i)
    BY <1>2, <1>7, Zenon DEF Present
  <2>2. i = <<id[1], i[2]>>
    BY <1>7 DEF Ids
  <2>3. i[2] \in prefixes_of(tab, id)
    BY <1>5, <1>7, <2>1, <2>2, Zenon DEF prefixes_of, parents
  <2>4. ~ RecordLeq(r, tab[i])
    BY <2>2, <2>3, Zenon DEF would_insert
  <2> QED
    BY <1>5, <2>1, <2>4, RecordOrder, Zenon
<1>8. Pruned(new)
  <2> SUFFICES ASSUME NEW i \in Ids, NEW child \in Ids,
                      child[1] = i[1], i[2] # << >>, child # i, IsPrefixOf(i[2], child[2]),
                      Present(new, i), ~ IsEmpty(new[i]), Present(new, child)
               PROVE  RecordLess(new[i], new[child])
    BY Zenon DEF Pruned
  <2> HIDE DEF rem, new
  <2>1. CASE i = id
    BY <1>4, <1>6, <2>1, Zenon DEF Present
  <2>2. CASE child = id
    BY <1>4, <1>7, <2>2, Zenon DEF Present
  <2>3. CASE i # id /\ child # id
    BY <1>3, <1>4, <2>3, Zenon DEF Pruned, Present
  <2> QED
    BY <2>1, <2>2, <2>3, Zenon
<1> QED
  BY <1>3, <1>8, Zenon

-----------------------------------------------------------------------------
(* The entries                                                             *)

PruneInv == Pruned(vis.records) /\ Pruned(com.records)

LEMMA PruneStep ==
    ASSUME TypeOK, PruneInv, Edit \/ Recovers
    PROVE  PruneInv'
<1>1. ASSUME Lags, vis'.records = vis.records PROVE PruneInv'
  BY <1>1 DEF PruneInv, Lags
<1>2. ASSUME Lags, Pruned(vis'.records) PROVE PruneInv'
  BY <1>2 DEF PruneInv, Lags
<1>3. vis \in Tables /\ vis.records \in RecordTables
  BY DEF TypeOK, Tables
<1>4. ASSUME NEW id \in Ids, NEW r \in Records, Puts(id, r) PROVE PruneInv'
  <2> DEFINE rem == Removed(id, r)
  <2>1. rem \in Tables /\ rem.records = remove_prefix_filtered(vis.records, id, r)
    BY <1>3, RemovedTables, SMTT(30)
  <2>2. vis'.records = [rem.records EXCEPT ![id] = r]
    BY <1>4, <2>1, EntryPutTables, ZenonT(30) DEF Puts
  <2>3. Pruned(rem.records) /\ Pruned(vis'.records)
    BY <1>3, <1>4, <2>1, <2>2, PutPrunes DEF Puts, PruneInv
  <2> HIDE DEF rem
  <2> QED
    BY <1>2, <1>4, <2>3 DEF Puts, PruneInv, rem
<1>5. ASSUME NEW id \in Ids, Retracts(id) PROVE PruneInv'
  <2>1. vis'.records = [vis.records EXCEPT ![id] = NoRecord]
    BY <1>3, <1>5 DEF Retracts, Tables
  <2>2. \A i \in Ids : vis'.records[i] \in {vis.records[i], NoRecord}
    BY <1>3, <2>1 DEF RecordTables
  <2>3. Pruned(vis'.records)
    BY <2>2, FewerPruned DEF PruneInv
  <2> QED
    BY <1>2, <1>5, <2>3 DEF Retracts
<1>6. CASE Removes
  <2>1. \A i \in Ids : vis'.records[i] \in {vis.records[i], NoRecord}
    BY <1>3, <1>6 DEF Removes, Tables, EmptyTables
  <2>2. Pruned(vis'.records)
    BY <2>1, FewerPruned DEF PruneInv
  <2> QED
    BY <1>2, <1>6, <2>2 DEF Removes
<1>7. CASE \/ \E c \in Capabilities : Imports(c)
           \/ \E p \in Peers, nanos \in 1 .. MaxNanos : Registers(p, nanos)
           \/ \E p \in {"default", "set"} : Policies(p)
           \/ Rests
  <2>1. Lags /\ vis'.records = vis.records
    BY <1>3, <1>7 DEF Imports, Registers, Policies, Rests, Tables
  <2> QED
    BY <1>1, <2>1
<1>8. CASE Recovers
  BY <1>8 DEF Recovers, PruneInv
<1> QED
  BY <1>4, <1>5, <1>6, <1>7, <1>8, ZenonT(30) DEF Edit

\* The pruning rule of put holds of what is visible and of what a crash recovers,
\* for every set of keys: no live entry lies above an entry that is not newer.
THEOREM PruningHolds == Spec => []NoShadowedEntries
<1>1. Init => PruneInv
  BY SMTT(30) DEF Init, EmptyTables, PruneInv, Pruned, Present
<1>2. TypeOK /\ TxnInv /\ PruneInv /\ [Next]_vars => PruneInv'
  BY StepForm, PruneStep
<1>3. PruneInv => NoShadowedEntries
  BY DEF PruneInv, Pruned, NoShadowedEntries
<1> QED
  BY <1>1, <1>2, <1>3, StoreTypeCorrect, PTL DEF Spec

\* What an edit may do to the record of one id: nothing, remove it, or store a
\* record that would_insert lets in and whose prefix it clears.
LEMMA EditRecord ==
    ASSUME TypeOK, Edit, NEW id \in Ids
    PROVE  \/ vis'.records[id] \in {vis.records[id], NoRecord}
           \/ \E r \in Records :
                 /\ would_insert(vis.records, id, r)
                 /\ vis'.records = [remove_prefix_filtered(vis.records, id, r) EXCEPT ![id] = r]
<1>1. vis \in Tables /\ vis.records \in RecordTables
  BY DEF TypeOK, Tables
<1>2. ASSUME NEW i \in Ids, NEW r \in Records, Puts(i, r)
      PROVE  \/ vis'.records[id] \in {vis.records[id], NoRecord}
             \/ /\ i = id /\ would_insert(vis.records, id, r)
                /\ vis'.records = [remove_prefix_filtered(vis.records, id, r) EXCEPT ![id] = r]
  <2>1. Removed(i, r) \in Tables
        /\ Removed(i, r).records = remove_prefix_filtered(vis.records, i, r)
    BY <1>1, RemovedTables, ZenonT(30)
  <2>2. vis'.records = [remove_prefix_filtered(vis.records, i, r) EXCEPT ![i] = r]
    BY <1>2, <2>1, EntryPutTables DEF Puts
  <2>3. CASE i = id
    BY <1>2, <2>2, <2>3, ZenonT(30) DEF Puts
  <2>4. CASE i # id
    BY <2>2, <2>4 DEF remove_prefix_filtered
  <2> QED
    BY <2>3, <2>4
<1>3. ASSUME NEW i \in Ids, Retracts(i) PROVE vis'.records[id] \in {vis.records[id], NoRecord}
  <2>1. vis'.records = [vis.records EXCEPT ![i] = NoRecord]
    BY <1>1, <1>3 DEF Retracts, Tables
  <2> QED
    BY <1>1, <2>1 DEF RecordTables
<1>4. CASE Removes
  BY <1>1, <1>4 DEF Removes, Tables, EmptyTables
<1>5. CASE \/ \E c \in Capabilities : Imports(c)
           \/ \E p \in Peers, nanos \in 1 .. MaxNanos : Registers(p, nanos)
           \/ \E p \in {"default", "set"} : Policies(p)
           \/ Rests
  <2>1. vis'.records = vis.records
    BY <1>1, <1>5 DEF Imports, Registers, Policies, Rests, Tables
  <2> QED
    BY <2>1
<1> QED
  BY <1>2, <1>3, <1>4, <1>5 DEF Edit

\* No operation replaces a live record by an older one; only a crash goes back.
THEOREM NothingRollsBack == Spec => NoRollback
<1> DEFINE Forward == ~ Crash =>
               \A id \in Ids :
                  (/\ id[2] # << >>
                   /\ ~ IsEmpty(vis.records[id])
                   /\ Present(vis'.records, id))
                  => RecordLeq(vis.records[id], vis'.records[id])
<1>1. TypeOK /\ TxnInv /\ [Next]_vars => Forward
  <2> SUFFICES ASSUME TypeOK, TxnInv, [Next]_vars, ~ Crash, NEW id \in Ids, id[2] # << >>,
                      ~ IsEmpty(vis.records[id]), Present(vis'.records, id)
               PROVE  RecordLeq(vis.records[id], vis'.records[id])
    OBVIOUS
  <2>1. Edit
    BY StepForm
  <2>2. CASE vis'.records[id] \in {vis.records[id], NoRecord}
    BY <2>2 DEF Present, RecordLeq
  <2>3. ASSUME NEW r \in Records, would_insert(vis.records, id, r),
               vis'.records = [remove_prefix_filtered(vis.records, id, r) EXCEPT ![id] = r]
        PROVE  RecordLeq(vis.records[id], vis'.records[id])
    <3>1. vis.records[id] \in Records \cup {NoRecord} /\ id[2] \in Keys /\ id = <<id[1], id[2]>>
      BY DEF TypeOK, Tables, RecordTables, Ids
    <3>2. vis'.records[id] = r
      BY <2>3 DEF remove_prefix_filtered
    <3>3. Present(vis.records, id)
      BY DEF Present, IsEmpty, NoRecord
    <3>4. id[2] \in prefixes_of(vis.records, id)
      BY <3>1, <3>3, OwnPrefix DEF prefixes_of, parents
    <3>5. ~ RecordLeq(r, vis.records[id])
      BY <2>3, <3>1, <3>4, ZenonT(30) DEF would_insert
    <3> QED
      BY <3>1, <3>2, <3>5, RecordOrder, ZenonT(30)
  <2> QED
    BY <2>1, <2>2, <2>3, EditRecord, Zenon
<1>2. TypeOK /\ TxnInv /\ [Next]_vars => [Forward]_vars
  BY <1>1
<1> QED
  BY <1>2, StoreTypeCorrect, PTL DEF Spec, NoRollback

\* Storing an entry clears every entry under its key that is not newer, the root
\* included: a deletion leaves nothing older behind.
THEOREM StoringClearsThePrefix == Spec => StoredEntryClearsItsPrefix
<1> DEFINE Clears == ~ Crash =>
               \A id \in Ids, child \in Ids :
                  (/\ Present(vis'.records, id)
                   /\ vis'.records[id] # vis.records[id]
                   /\ child # id
                   /\ child[1] = id[1]
                   /\ IsPrefixOf(id[2], child[2])
                   /\ Present(vis'.records, child))
                  => RecordLess(vis'.records[id], vis'.records[child])
<1>1. TypeOK /\ TxnInv /\ [Next]_vars => Clears
  <2> SUFFICES ASSUME TypeOK, TxnInv, [Next]_vars, ~ Crash, NEW id \in Ids, NEW child \in Ids,
                      Present(vis'.records, id), vis'.records[id] # vis.records[id],
                      child # id, child[1] = id[1], IsPrefixOf(id[2], child[2]),
                      Present(vis'.records, child)
               PROVE  RecordLess(vis'.records[id], vis'.records[child])
    OBVIOUS
  <2>1. Edit
    BY StepForm
  <2>2. PICK r \in Records :
             vis'.records = [remove_prefix_filtered(vis.records, id, r) EXCEPT ![id] = r]
    BY <2>1, EditRecord, SMTT(30) DEF Present
  <2>3. vis'.records[id] = r
    BY <2>2, SMTT(30) DEF remove_prefix_filtered
  <2>4. child[2] \in author_prefix[id[2]] /\ vis.records[child] \in Records \cup {NoRecord}
    BY PrefixInRange, ZenonT(30) DEF TypeOK, Tables, RecordTables, Ids
  <2>5. ~ RecordLeq(vis.records[child], r) /\ vis'.records[child] = vis.records[child]
    BY <2>2, <2>4, ZenonT(30) DEF remove_prefix_filtered, Present
  <2> QED
    BY <2>3, <2>4, <2>5, RecordOrder, ZenonT(30)
<1>2. TypeOK /\ TxnInv /\ [Next]_vars => [Clears]_vars
  BY <1>1
<1> QED
  BY <1>2, StoreTypeCorrect, PTL DEF Spec, StoredEntryClearsItsPrefix

-----------------------------------------------------------------------------
(* The peers cache                                                         *)

\* The rows of the multimap have a first one.
LEMMA FirstRowExists ==
    ASSUME NEW rows \in SUBSET ((1 .. MaxNanos) \X Peers), rows # {}
    PROVE  FirstRow(rows) \in rows
<1>1. \A m \in rows : m[1] \in Nat /\ m[2] \in Nat /\ m = <<m[1], m[2]>>
  <2>1. \A m \in rows : m[1] \in 1 .. MaxNanos /\ m[2] \in Peers /\ m = <<m[1], m[2]>>
    OBVIOUS
  <2>2. (1 .. MaxNanos) \subseteq Nat /\ Peers \subseteq Nat
    BY StoreAssumption
  <2> QED
    BY <2>1, <2>2, Zenon
<1> DEFINE T == {n \in Nat : \E m \in rows : m[1] = n}
<1>2. PICK t \in T : \A n \in T : t <= n
  <2>1. T \in SUBSET Nat /\ T # {}
    BY <1>1
  <2> HIDE DEF T
  <2> QED
    BY <2>1, HasMin
<1> DEFINE P == {n \in Nat : \E m \in rows : m[1] = t /\ m[2] = n}
<1>3. PICK q \in P : \A n \in P : q <= n
  <2>1. P \in SUBSET Nat /\ P # {}
    BY <1>1
  <2> HIDE DEF P
  <2> QED
    BY <2>1, HasMin
<1>4. PICK m \in rows : m[1] = t /\ m[2] = q
  OBVIOUS
<1>5. ASSUME NEW n \in rows \ {m} PROVE RowBefore(m, n)
  <2>1. n[1] \in Nat /\ n[2] \in Nat /\ t \in Nat /\ q \in Nat /\ t <= n[1]
    BY <1>1, <1>2
  <2>2. n[1] = t => q <= n[2]
    BY <1>1, <1>3
  <2>3. ~ (n[1] = t /\ n[2] = q)
    BY <1>1, <1>4
  <2> QED
    BY <1>4, <2>1, <2>2, <2>3 DEF RowBefore
<1> QED
  BY <1>4, <1>5 DEF FirstRow

Bounded(rows) == /\ IsFiniteSet(rows)
                 /\ Cardinality(rows) <= PeerCacheSize
                 /\ \A m, n \in rows : m[2] = n[2] => m = n

LEMMA RegisterBounded ==
    ASSUME NEW rows \in SUBSET ((1 .. MaxNanos) \X Peers), Bounded(rows),
           NEW p \in Peers, NEW nanos \in 1 .. MaxNanos
    PROVE  Bounded(Registered(rows, p, nanos))
<1> DEFINE mine == {m \in rows : m[2] = p}
           out  == Evicted(rows, p)
           rest == rows \ out
<1>1. IsFiniteSet(rows) /\ Cardinality(rows) \in Nat /\ Cardinality(rows) <= PeerCacheSize
  BY FS_CardinalityType DEF Bounded
<1>2. \A m \in rest : m[2] # p
  <2>1. CASE mine # {}
    <3>1. FirstRow(mine) \in mine
      BY <2>1, FirstRowExists
    <3>2. out = {FirstRow(mine)}
      BY <2>1 DEF Evicted
    <3> QED
      BY <3>1, <3>2 DEF Bounded
  <2>2. CASE mine = {}
    BY <2>2
  <2> QED
    BY <2>1, <2>2
<1>3. IsFiniteSet(rest) /\ Cardinality(rest) \in Nat /\ Cardinality(rest) + 1 <= PeerCacheSize
  <2>1. ASSUME NEW m \in rows, out = {m}
        PROVE  IsFiniteSet(rest) /\ Cardinality(rest) \in Nat /\ Cardinality(rest) + 1 <= PeerCacheSize
    <3>1. IsFiniteSet(rest) /\ Cardinality(rest) = Cardinality(rows) - 1
      BY <1>1, <2>1, FS_RemoveElement
    <3>2. Cardinality(rest) \in Nat
      BY <3>1, FS_CardinalityType
    <3> QED
      BY <1>1, <3>1, <3>2, StoreAssumption, SMTT(30)
  <2>2. CASE mine # {}
    <3>1. FirstRow(mine) \in rows
      BY <2>2, FirstRowExists
    <3>2. out = {FirstRow(mine)}
      BY <2>2 DEF Evicted
    <3> QED
      BY <2>1, <3>1, <3>2
  <2>3. CASE mine = {} /\ Cardinality(rows) + 1 > PeerCacheSize
    <3>1. rows # {}
      BY <1>1, <2>3, FS_EmptySet, StoreAssumption
    <3>2. FirstRow(rows) \in rows
      BY <3>1, FirstRowExists
    <3>3. out = {FirstRow(rows)}
      BY <2>3 DEF Evicted
    <3> QED
      BY <2>1, <3>2, <3>3
  <2>4. CASE mine = {} /\ ~ (Cardinality(rows) + 1 > PeerCacheSize)
    <3>1. rest = rows
      BY <2>4 DEF Evicted
    <3> HIDE DEF rest
    <3> QED
      BY <1>1, <2>4, <3>1, StoreAssumption
  <2> QED
    BY <2>2, <2>3, <2>4
<1>4. Registered(rows, p, nanos) = rest \cup {<<nanos, p>>} /\ rest \subseteq rows
  BY DEF Registered
<1> HIDE DEF rest
<1>5. /\ IsFiniteSet(rest \cup {<<nanos, p>>})
      /\ Cardinality(rest \cup {<<nanos, p>>}) \in {Cardinality(rest), Cardinality(rest) + 1}
  <2>1. IsFiniteSet(rest \cup {<<nanos, p>>})
    BY <1>3, FS_AddElement, Zenon
  <2>2. Cardinality(rest \cup {<<nanos, p>>}) =
            IF <<nanos, p>> \in rest THEN Cardinality(rest) ELSE Cardinality(rest) + 1
    BY <1>3, FS_AddElement, Zenon
  <2> QED
    BY <2>1, <2>2
<1>6. Cardinality(rest \cup {<<nanos, p>>}) <= PeerCacheSize
  BY <1>3, <1>5, StoreAssumption
<1>7. \A m, n \in rest \cup {<<nanos, p>>} : m[2] = n[2] => m = n
  BY <1>2, <1>4 DEF Bounded
<1> QED
  BY <1>4, <1>5, <1>6, <1>7 DEF Bounded

PeersInv == Bounded(vis.peers) /\ Bounded(com.peers)

LEMMA PeersStep ==
    ASSUME TypeOK, PeersInv, Edit \/ Recovers
    PROVE  PeersInv'
<1>1. vis \in Tables /\ vis.peers \in SUBSET ((1 .. MaxNanos) \X Peers)
  BY DEF TypeOK, Tables
<1>2. ASSUME Lags, Bounded(vis'.peers) PROVE PeersInv'
  BY <1>2, ZenonT(30) DEF PeersInv, Lags
<1>3. ASSUME NEW p \in Peers, NEW nanos \in 1 .. MaxNanos, Registers(p, nanos) PROVE PeersInv'
  <2>1. vis'.peers = Registered(vis.peers, p, nanos) /\ Lags
    BY <1>1, <1>3 DEF Registers, Tables
  <2> QED
    BY <1>1, <1>2, <2>1, RegisterBounded DEF PeersInv
<1>4. ASSUME NEW id \in Ids, NEW r \in Records, Puts(id, r) PROVE PeersInv'
  <2>1. Removed(id, r) \in Tables /\ Removed(id, r).peers = vis.peers
    BY <1>1, RemovedTables, SMTT(30)
  <2>2. vis'.peers = vis.peers
    BY <1>4, <2>1, EntryPutTables, ZenonT(30) DEF Puts
  <2>3. com'.peers \in {com.peers, vis.peers}
    BY <1>4, <2>1 DEF Puts, Lags
  <2> QED
    BY <2>2, <2>3, SMTT(30) DEF PeersInv
<1>5. CASE Removes
  <2>1. vis'.peers = {} /\ Lags
    BY <1>1, <1>5 DEF Removes, Tables
  <2>2. Bounded({})
    BY FS_EmptySet, StoreAssumption DEF Bounded
  <2> QED
    BY <1>2, <2>1, <2>2
<1>6. CASE \/ \E id \in Ids : Retracts(id)
           \/ \E c \in Capabilities : Imports(c)
           \/ \E p \in {"default", "set"} : Policies(p)
           \/ Rests
  <2>1. vis'.peers = vis.peers /\ Lags
    BY <1>1, <1>6, Zenon DEF Retracts, Imports, Policies, Rests, Tables
  <2> QED
    BY <1>2, <2>1 DEF PeersInv
<1>7. CASE Recovers
  BY <1>7, ZenonT(30) DEF Recovers, PeersInv
<1> QED
  BY <1>3, <1>4, <1>5, <1>6, <1>7, ZenonT(30) DEF Edit

\* The peers cache holds each peer once and never more than its limit, for every
\* limit and every sequence of clock readings.
THEOREM PeersCacheIsBounded == Spec => []PeersCacheBounded
<1>1. Init => PeersInv
  <2>1. Bounded({})
    BY FS_EmptySet, StoreAssumption, SMTT(30) DEF Bounded
  <2> QED
    BY <2>1 DEF Init, EmptyTables, PeersInv
<1>2. TypeOK /\ TxnInv /\ PeersInv /\ [Next]_vars => PeersInv'
  BY StepForm, PeersStep
<1>3. PeersInv => PeersCacheBounded
  BY DEF PeersInv, Bounded, PeersCacheBounded
<1> QED
  BY <1>1, <1>2, <1>3, StoreTypeCorrect, PTL DEF Spec
=============================================================================
