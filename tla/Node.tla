-------------------------------- MODULE Node --------------------------------
(***************************************************************************)
(* The life of a node's persistent state: the store file comes up and is   *)
(* migrated (StoreFile), Engine::spawn loads or creates the default author,*)
(* the node then serves writes, queries (Query), author requests and the   *)
(* blob store's garbage collector, until it is shut down, dropped or dies, *)
(* and starts again on what is on disk.                                    *)
(*                                                                         *)
(*   file    the default author file                                       *)
(*   value   DefaultAuthor's value, {} before it is loaded                 *)
(*   saving  the author whose id is being written to the file              *)
(*   gc      a run of the protect callback                                 *)
(*   old     the file found by the first start                             *)
(*   written whether a record was written or a replica dropped since       *)
(*   ops, starts   counters, bounded by MaxOps and MaxStarts               *)
(***************************************************************************)
EXTENDS StoreFile, Query

CONSTANTS MaxOps, MaxStarts

ASSUME NodeAssumption == MaxOps \in Nat /\ MaxStarts \in Nat

VARIABLES file, value, saving, gc, old, written, ops, starts

authorVars == <<file, value, saving>>
bounds     == <<ops, starts>>
vars == <<pc, source, target, backup, vis, it, file, value, saving, gc, old, written,
          ops, starts>>

NoProtect == [phase |-> "idle", left |-> {}, live |-> {}, must |-> {}, cut |-> FALSE]

TypeOK ==
    /\ pc \in {"down", "setup", "copy", "rename", "persist", "m1", "m2", "m3", "m4",
               "load", "flush", "truncate", "write", "running"}
    /\ {source, target, backup, vis} \subseteq Files \cup {NoFile}
    /\ file \in [state : {"none", "torn", "whole"}, author : SUBSET Authors]
    /\ value \in SUBSET Authors
    /\ saving \in SUBSET Authors
    /\ gc \in [phase : {"idle", "asked", "taken", "streaming", "continue", "abort"},
               left : SUBSET Hashes, live : SUBSET Hashes, must : SUBSET Hashes,
               cut : BOOLEAN]
    /\ it.rows \subseteq Ids /\ it.selected \subseteq Ids /\ it.query \in Queries \cup {NoQuery}
    /\ written \in BOOLEAN
    /\ ops \in 0 .. MaxOps
    /\ starts \in 0 .. MaxStarts

NoAuthorFile == [state |-> "none", author |-> {}]

\* A node is first started on a file of an earlier version, whose default
\* author file, if there is one, names an author of the file.
Init ==
    /\ pc = "down"
    /\ source \in OldFiles
    /\ target = NoFile /\ backup = NoFile /\ vis = NoFile
    /\ it = NoIterator
    /\ file \in {NoAuthorFile} \cup
                {[state |-> "whole", author |-> {a}] : a \in source.authors}
    /\ value = {} /\ saving = {}
    /\ gc = NoProtect
    /\ old = source
    /\ written = FALSE
    /\ ops = 0 /\ starts = 0

CountOp == ops < MaxOps /\ ops' = ops + 1 /\ UNCHANGED starts

-----------------------------------------------------------------------------
(* Start                                                                   *)

Start ==
    /\ starts < MaxStarts
    /\ Open
    /\ starts' = starts + 1
    /\ gc' = NoProtect
    /\ it' = NoIterator
    /\ UNCHANGED <<authorVars, old, written, ops>>

StoreStep ==
    /\ pc # "down"
    /\ Starting
    /\ UNCHANGED <<it, authorVars, gc, old, written, bounds>>

\* Engine::spawn returns the error after it has shut the sync actor down.
SpawnFails == pc' = "down" /\ vis' = NoFile

\* Variant: the file is taken at its word.
LoadAuthorFile_unchecked ==
    /\ pc = "load"
    /\ file.state # "none"
    /\ IF file.state = "whole"
       THEN /\ value' = file.author
            /\ pc' = "running"
            /\ UNCHANGED vis
       ELSE /\ SpawnFails
            /\ UNCHANGED value
    /\ UNCHANGED <<fileVars, it, file, saving, gc, old, written, bounds>>

\* DefaultAuthorStorage::load, the file exists
LoadAuthorFile ==
    /\ pc = "load"
    /\ file.state # "none"
    /\ IF file.state = "whole" /\ file.author \subseteq vis.authors
       THEN /\ value' = file.author
            /\ pc' = "running"
            /\ UNCHANGED vis
       ELSE /\ SpawnFails
            /\ UNCHANGED value
    /\ UNCHANGED <<fileVars, it, file, saving, gc, old, written, bounds>>

\* ... it does not: a new author is imported, flushed, and written to the file
CreateAuthor(a) ==
    /\ pc = "load"
    /\ file.state = "none"
    /\ a \notin vis.authors
    /\ vis' = [vis EXCEPT !.authors = @ \cup {a}]
    /\ saving' = {a}
    /\ pc' = "flush"
    /\ UNCHANGED <<fileVars, it, file, value, gc, old, written, bounds>>

FlushAuthor ==
    /\ pc = "flush"
    /\ Flush
    /\ pc' = "truncate"
    /\ UNCHANGED <<target, backup, vis, it, authorVars, gc, old, written, bounds>>

\* persist: tokio::fs::write creates or truncates the file, then writes it
TruncateNewFile ==
    /\ pc = "truncate"
    /\ file' = [state |-> "torn", author |-> {}]
    /\ pc' = "write"
    /\ UNCHANGED <<fileVars, vis, it, value, saving, gc, old, written, bounds>>

WriteNewFile ==
    /\ pc = "write"
    /\ file' = [state |-> "whole", author |-> saving]
    /\ value' = saving
    /\ saving' = {}
    /\ pc' = "running"
    /\ UNCHANGED <<fileVars, vis, it, gc, old, written, bounds>>

\* The recovery the error message names: the operator deletes the file.
DeleteAuthorFile ==
    /\ pc = "down"
    /\ file.state # "none"
    /\ file.state = "torn" \/ ~ (file.author \subseteq source.authors)
    /\ file' = NoAuthorFile
    /\ UNCHANGED <<pc, fileVars, vis, it, value, saving, gc, old, written, bounds>>

-----------------------------------------------------------------------------
(* The running node.  The RpcActor answers one request at a time: while it *)
(* writes the author file no other request is served.                      *)

Serving == pc = "running" /\ saving = {}

\* author_create and author_import
ImportAuthor(a) ==
    /\ Serving
    /\ vis' = [vis EXCEPT !.authors = @ \cup {a}]
    /\ CountOp
    /\ UNCHANGED <<pc, fileVars, it, authorVars, gc, old, written>>

author_delete(a) ==
    /\ Serving
    /\ a \notin value
    /\ vis' = [vis EXCEPT !.authors = @ \ {a}]
    /\ CountOp
    /\ UNCHANGED <<pc, fileVars, it, authorVars, gc, old, written>>

\* DefaultAuthor::set checks the author, then persists it: the file is truncated
author_set_default(a) ==
    /\ Serving
    /\ a \in vis.authors
    /\ saving' = {a}
    /\ file' = [state |-> "torn", author |-> {}]
    /\ CountOp
    /\ UNCHANGED <<pc, fileVars, vis, it, value, gc, old, written>>

\* ... and written; then the value changes.
FinishSetDefault ==
    /\ pc = "running"
    /\ saving # {}
    /\ file' = [state |-> "whole", author |-> saving]
    /\ value' = saving
    /\ saving' = {}
    /\ UNCHANGED <<pc, fileVars, vis, it, gc, old, written, bounds>>

\* An entry is written: the author signs it, the rows it supersedes go, but not
\* their index rows (Entries, ReplicaStore).
insert(id, r) ==
    /\ Serving
    /\ id[1] \in vis.authors
    /\ vis.namespaces_2 = "write"
    /\ would_insert(vis.records, id, r)
    /\ vis' = [vis EXCEPT !.records = put(@, id, r),
                          !.by_key = @ \cup {id},
                          !.latest[id[1]] = r.ts]
    /\ written' = TRUE
    /\ CountOp
    /\ UNCHANGED <<pc, fileVars, it, authorVars, gc, old>>

\* remove_replica
doc_drop ==
    /\ Serving
    /\ vis.namespaces_2 # "none"
    /\ vis' = [vis EXCEPT !.records = EmptyFile.records, !.by_key = {},
                          !.namespaces_2 = "none", !.peers = {}]
    /\ written' = TRUE
    /\ CountOp
    /\ UNCHANGED <<pc, fileVars, it, authorVars, gc, old>>

\* The write transaction is committed for its age.
Tick ==
    /\ IsOpen
    /\ Flush
    /\ UNCHANGED <<pc, target, backup, vis, it, authorVars, gc, old, written, bounds>>

-----------------------------------------------------------------------------
(* Queries                                                                 *)

\* Variant: the snapshot is of what was committed before.
get_many_stale(q) ==
    /\ Serving
    /\ ~ Answering
    /\ vis.namespaces_2 # "none"
    /\ it' = QueryIterator(q, vis.records, source)
    /\ CountOp
    /\ UNCHANGED <<pc, fileVars, vis, authorVars, gc, old, written>>

\* snapshot_owned commits, then reads what is committed.
get_many(q) ==
    /\ Serving
    /\ ~ Answering
    /\ vis.namespaces_2 # "none"
    /\ Flush
    /\ it' = QueryIterator(q, vis.records, source')
    /\ CountOp
    /\ UNCHANGED <<pc, target, backup, vis, authorVars, gc, old, written>>

IteratorStep ==
    /\ IsOpen
    /\ NextRow \/ LastSelected \/ StreamEnds
    /\ UNCHANGED <<pc, fileVars, vis, authorVars, gc, old, written, bounds>>

-----------------------------------------------------------------------------
(* The protect callback: the blob store asks which hashes documents hold.  *)

ContentHashes(f) == {f.records[id].hash : id \in PresentIds(f)}

\* ProtectCallbackSender hands its oneshot to the engine's task.
ProtectAsk ==
    /\ pc = "running"
    /\ gc.phase \notin {"asked", "taken", "streaming"}
    /\ gc' = [NoProtect EXCEPT !.phase = "asked"]
    /\ CountOp
    /\ UNCHANGED <<pc, fileVars, vis, it, authorVars, old, written>>

ProtectTaken ==
    /\ gc.phase = "asked"
    /\ gc' = [gc EXCEPT !.phase = "taken"]
    /\ UNCHANGED <<pc, fileVars, vis, it, authorVars, old, written, bounds>>

\* content_hashes takes a snapshot, or fails because the sync actor is gone.
\* must is what is stored at that moment, the yardstick.
ProtectSnapshot ==
    /\ gc.phase = "taken"
    /\ IF pc = "running"
       THEN /\ Flush
            /\ gc' = [gc EXCEPT !.phase = "streaming", !.left = ContentHashes(source'),
                                !.must = ContentHashes(vis)]
       ELSE /\ gc' = [gc EXCEPT !.phase = "abort"]
            /\ UNCHANGED source
    /\ UNCHANGED <<pc, target, backup, vis, it, authorVars, old, written, bounds>>

ProtectHash(h) ==
    /\ gc.phase = "streaming"
    /\ h \in gc.left
    /\ gc' = [gc EXCEPT !.left = @ \ {h}, !.live = @ \cup {h}]
    /\ UNCHANGED <<pc, fileVars, vis, it, authorVars, old, written, bounds>>

\* Variant: an error ends the stream as its end does.
ProtectError_ends ==
    /\ gc.phase = "streaming"
    /\ gc' = [gc EXCEPT !.phase = "continue"]
    /\ UNCHANGED <<pc, fileVars, vis, it, authorVars, old, written, bounds>>

\* The table iterator fails: the item is an error.
ProtectError ==
    /\ gc.phase = "streaming"
    /\ gc' = [gc EXCEPT !.phase = "abort"]
    /\ UNCHANGED <<pc, fileVars, vis, it, authorVars, old, written, bounds>>

ProtectEnd ==
    /\ gc.phase = "streaming"
    /\ gc.left = {}
    /\ gc' = [gc EXCEPT !.phase = "continue"]
    /\ UNCHANGED <<pc, fileVars, vis, it, authorVars, old, written, bounds>>

-----------------------------------------------------------------------------
(* Ends                                                                    *)

\* Engine::shutdown: the sync actor stops and the store it returns is flushed
\* when it is dropped.  The engine's protect task goes on.
Shutdown ==
    /\ Serving
    /\ Flush
    /\ pc' = "down"
    /\ vis' = NoFile
    /\ StreamIsCut
    /\ value' = {}
    /\ UNCHANGED <<target, backup, file, saving, gc, old, written, bounds>>

\* The engine is dropped while the blob store lives on: its protect task is
\* aborted, and the callback sees a stream that ends.
DropEngine ==
    /\ Serving
    /\ Flush
    /\ pc' = "down"
    /\ vis' = NoFile
    /\ StreamIsCut
    /\ value' = {}
    /\ gc' = IF gc.phase = "asked" THEN [gc EXCEPT !.phase = "abort"]
             ELSE IF gc.phase \in {"taken", "streaming"}
             THEN [gc EXCEPT !.phase = "continue", !.cut = TRUE]
             ELSE gc
    /\ UNCHANGED <<target, backup, file, saving, old, written, bounds>>

Crash ==
    /\ pc # "down"
    /\ Dies
    /\ StreamIsCut
    /\ value' = {}
    /\ saving' = {}
    /\ gc' = NoProtect
    /\ UNCHANGED <<file, old, written, bounds>>

Next ==
    \/ Start \/ StoreStep
    \/ LoadAuthorFile \/ FlushAuthor \/ TruncateNewFile \/ WriteNewFile \/ DeleteAuthorFile
    \/ \E a \in Authors : \/ CreateAuthor(a) \/ ImportAuthor(a)
                          \/ author_delete(a) \/ author_set_default(a)
    \/ FinishSetDefault
    \/ \E id \in Ids, r \in Records : insert(id, r)
    \/ doc_drop
    \/ Tick
    \/ \E q \in Queries : get_many(q)
    \/ IteratorStep
    \/ ProtectAsk \/ ProtectTaken \/ ProtectSnapshot \/ ProtectError \/ ProtectEnd
    \/ \E h \in Hashes : ProtectHash(h)
    \/ Shutdown \/ DropEngine \/ Crash

Spec == Init /\ [][Next]_vars

-----------------------------------------------------------------------------
(* Properties                                                              *)

\* However often the rewrite of an old file is cut short or fails, the records
\* the first start found are at the store's path or in the backup, until the
\* node itself writes (migrate_redb_v2_tuples::run renames in two steps).
ContentSurvives ==
    ~ written => \/ source.records = old.records
                 \/ backup.records = old.records

\* Whatever the file looked like and wherever an earlier start was cut off, once
\* the migrations are through every record has its by-key row, in the running
\* tables and in those a crash would fall back to, and until the first write
\* the latest table is the one found, or, where there was none, holds each
\* author's newest timestamp.
OpenIndexesAgree ==
    IsOpen => /\ PresentIds(vis) \subseteq vis.by_key
              /\ PresentIds(source) \subseteq source.by_key
              /\ ~ written => \/ vis.latest = old.latest /\ old.latest # EmptyFile.latest
                              \/ \A a \in Authors : vis.latest[a] = Newest(vis.records, a)

\* A node that serves requests has a default author that is in its store, and
\* the file on disk names that author (DefaultAuthor::load and set,
\* author_delete's refusal).
DefaultAuthorKnown ==
    Serving => /\ value # {}
               /\ value \subseteq vis.authors
               /\ file = [state |-> "whole", author |-> value]

\* A replica whose removal is committed does not come back with a later start:
\* migration 002 finds no first-version table to copy it from.
DroppedStaysDropped ==
    [](IsOpen /\ source.namespaces_2 = "none" => [](source.namespaces_2 = "none"))

\* When the protect callback tells the blob store to go on, the live set has
\* every hash the stored records held when the sync actor took the snapshot;
\* an error on the way makes it abort.  A dropped engine is left out: see cut.
ProtectIsComplete ==
    gc.phase = "continue" /\ ~ gc.cut => gc.must \subseteq gc.live

\* The answer promised to the query the iterator serves.
PromisedAnswer == IF it.phase = "idle" THEN << >> ELSE PromisedFor(it.asked, it.query)

Abstract == INSTANCE Answers WITH Items <- Ids \X Records, phase <- it.phase,
                                  expected <- PromisedAnswer, out <- it.out

\* Every stream of get_many, on any index, through stale index rows, and while
\* the store is written, migrated earlier or dropped under it, carries exactly
\* the entries its query asks for by its documentation, of the records visible
\* when it was asked.  Of a query for the latest entries of one author it carries
\* what that author wrote last under each key: see AnswersAsDocumented.
AnswersAreRight == Abstract!Spec

\* What the documentation asks of every query.
DocumentedFor == IF it.phase = "idle" THEN << >> ELSE DocumentedAnswer(it.asked, it.query)

Documentation == INSTANCE Answers WITH Items <- Ids \X Records, phase <- it.phase,
                                       expected <- DocumentedFor, out <- it.out

\* "the author filter is applied *after* the grouping" (store.rs:280): of the
\* latest entry of each key, those of the author.  The iterator filters first, so
\* an older entry of the author comes out where another author wrote a newer one.
AnswersAsDocumented == Documentation!Spec
=============================================================================
