----------------------------- MODULE StoreFile -----------------------------
(***************************************************************************)
(* How a persistent store comes up: Store::persistent opens or creates the *)
(* database file, rewrites one that redb 2 wrote (migrate_redb_v2_tuples), *)
(* and runs the four migrations, each in a transaction of its own.         *)
(*                                                                         *)
(*   pc      the step the start is in; "down" when no process runs         *)
(*   source  the database file at the store's path                         *)
(*   target  the temporary file the rewrite fills                          *)
(*   backup  the file the rewrite sets aside                               *)
(*   vis     the tables as the running store sees them, writes included    *)
(*           that are not committed yet                                    *)
(*                                                                         *)
(* Any step may be the last before a crash, and the steps of the rewrite   *)
(* may fail with an I/O error.                                             *)
(***************************************************************************)
EXTENDS Entries

CONSTANTS
    Peers,      \* peers that may be registered as useful
    OldFiles    \* the files a start may find

VARIABLES pc, source, target, backup, vis

fileVars == <<source, target, backup>>

\* The tables whose key or value tuples redb 2 encodes differently.
TupleTables == {"records", "latest", "by_key"}

TableNames == TupleTables \cup {"namespaces-1", "namespaces-2", "authors", "peers"}

\* A database file: the tables it has and their rows; a table it does not have
\* has no rows.  namespaces_1 holds secrets, so a row there is a write capability.
Files == [format       : {"tuples", "new"},
          tables       : SUBSET TableNames,
          records      : RecordTables,
          latest       : [Authors -> 0 .. MaxTime],
          by_key       : SUBSET Ids,
          namespaces_1 : {"none", "write"},
          namespaces_2 : {"none", "read", "write"},
          authors      : SUBSET Authors,
          peers        : SUBSET Peers]

EmptyFile == [format       |-> "new",
              tables       |-> {},
              records      |-> [id \in Ids |-> NoRecord],
              latest       |-> [a \in Authors |-> 0],
              by_key       |-> {},
              namespaces_1 |-> "none",
              namespaces_2 |-> "none",
              authors      |-> {},
              peers        |-> {}]

NoFile == [EmptyFile EXCEPT !.format = "none"]

PresentIds(f) == {id \in Ids : Present(f.records, id)}

\* The by-key index of a file is complete, or the file is from before it.
ASSUME FilesAssumption ==
    /\ Keys # {}
    /\ OldFiles \subseteq Files \cup {NoFile}
    /\ \A f \in OldFiles : f.by_key = {} \/ PresentIds(f) \subseteq f.by_key

-----------------------------------------------------------------------------
(* Opening                                                                 *)

\* Database::create
Open ==
    /\ pc = "down"
    /\ source' = IF source = NoFile THEN EmptyFile ELSE source
    /\ pc' = "setup"
    /\ UNCHANGED <<target, backup, vis>>

\* is_redb_v2_tuple_mismatch: opening one of these tables fails with it.
Mismatch(f) == f.format = "tuples" /\ f.tables \cap TupleTables # {}

\* new_impl's first transaction creates the missing tables; a mismatch sends
\* persistent into the rewrite.  Without one the tuple tables are all new.
Setup ==
    /\ pc = "setup"
    /\ \/ /\ Mismatch(source)
          /\ pc' = "copy"
          /\ UNCHANGED source
       \/ /\ ~ Mismatch(source)
          /\ pc' = "m1"
          /\ source' = [source EXCEPT !.format = "new",
                                        !.tables = @ \cup (TableNames \ {"namespaces-1"})]
    /\ UNCHANGED <<target, backup, vis>>

-----------------------------------------------------------------------------
(* migrate_redb_v2_tuples::run                                             *)

\* list_tables does not list multimap tables, and the copy goes by that list:
\* sync-peers-1 is not copied.
list_tables(f) == f.tables \ {"peers"}

Copied(f) == [f EXCEPT !.format = "new",
                       !.tables = list_tables(f),
                       !.peers = IF "peers" \in list_tables(f) THEN @ ELSE {}]

Copy ==
    /\ pc = "copy"
    /\ target' = Copied(source)
    /\ pc' = "rename"
    /\ UNCHANGED <<source, backup, vis>>

\* Variant: the rewritten file replaces the old one in place.
Rename_without_backup ==
    /\ pc = "rename"
    /\ source' = NoFile
    /\ pc' = "persist"
    /\ UNCHANGED <<target, backup, vis>>

Rename ==
    /\ pc = "rename"
    /\ backup' = source
    /\ source' = NoFile
    /\ pc' = "persist"
    /\ UNCHANGED <<target, vis>>

\* persist_noclobber; persistent opens the file again.
PersistTarget ==
    /\ pc = "persist"
    /\ source' = target
    /\ target' = NoFile
    /\ pc' = "setup"
    /\ UNCHANGED <<backup, vis>>

\* A failing step drops the temporary file and persistent returns the error.
RewriteFails ==
    /\ pc \in {"copy", "rename", "persist"}
    /\ target' = NoFile
    /\ pc' = "down"
    /\ UNCHANGED <<source, backup, vis>>

-----------------------------------------------------------------------------
(* migrations::run_migrations.  A migration that is skipped commits nothing.*)

Migration(from, to, f) ==
    /\ pc = from
    /\ pc' = to
    /\ source' = f
    /\ UNCHANGED <<target, backup, vis>>

Newest(rec, a) ==
    LET ts == {rec[<<a, k>>].ts : k \in Keys}
    IN  CHOOSE t \in ts : \A u \in ts : u <= t

\* 001: populate the latest table
migration_001 ==
    Migration("m1", "m2",
        IF source.latest = EmptyFile.latest /\ PresentIds(source) # {}
        THEN [source EXCEPT !.latest = [a \in Authors |-> Newest(source.records, a)]]
        ELSE source)

\* 002: copy the namespaces to the second version of the table
migration_002 ==
    Migration("m2", "m3",
        IF "namespaces-1" \in source.tables /\ source.namespaces_1 # "none"
        THEN [source EXCEPT !.namespaces_2 = "write"]
        ELSE source)

\* Variant: the first version of the table is kept.
migration_003_keeps_v1 == Migration("m3", "m4", source)

\* 003: delete the first version of the table
migration_003 ==
    Migration("m3", "m4", [source EXCEPT !.tables = @ \ {"namespaces-1"},
                                         !.namespaces_1 = "none"])

\* Variant: the index is populated only when the table is missing, which it no
\* longer is after the setup.
migration_004_if_missing ==
    /\ pc = "m4"
    /\ pc' = "load"
    /\ source' = IF "by_key" \notin source.tables
                 THEN [source EXCEPT !.by_key = PresentIds(source)]
                 ELSE source
    /\ vis' = source'
    /\ UNCHANGED <<target, backup>>

\* 004: populate the by-key index.  The store is open then.
migration_004 ==
    /\ pc = "m4"
    /\ pc' = "load"
    /\ source' = IF source.by_key = {}
                 THEN [source EXCEPT !.by_key = PresentIds(source)]
                 ELSE source
    /\ vis' = source'
    /\ UNCHANGED <<target, backup>>

Starting == \/ Open \/ Setup
            \/ Copy \/ Rename \/ PersistTarget \/ RewriteFails
            \/ migration_001 \/ migration_002 \/ migration_003 \/ migration_004

-----------------------------------------------------------------------------
(* The open store                                                          *)

\* The steps in which a store is open.
IsOpen == pc \notin {"down", "setup", "copy", "rename", "persist", "m1", "m2", "m3", "m4"}

\* flush: also what snapshot_owned does first, and dropping the store.
Flush == source' = vis

\* The process dies: what is not committed is gone, and so is the name of the
\* temporary file.
Dies == /\ pc' = "down"
        /\ vis' = NoFile
        /\ target' = NoFile
        /\ UNCHANGED <<source, backup>>
=============================================================================
