----------------------------- MODULE NodeProofs -----------------------------
(***************************************************************************)
(* What a node keeps on disk, for any file of an earlier version, any      *)
(* number of starts, crashes and failing rewrites, and any authors, keys,  *)
(* hashes and peers.                                                       *)
(*                                                                         *)
(* FileInv is the inductive part about files: a file still in the format   *)
(* of redb 2 is the file first found, because every step after the setup   *)
(* works on a rewritten one; so what the rewrite moves to the backup is    *)
(* that file.  AuthorInv follows the default author through its saving,    *)
(* ProtectInv the hashes of the protect callback.                          *)
(*                                                                         *)
(* The second half shows that Node implements Answers.  A position in an   *)
(* answer is the number of entries that come before (Below), so nothing is *)
(* said by recursion.  Scanning is what holds of an iterator between two   *)
(* rows: the rows gone through are the first ones, the selector holds the  *)
(* best row of the last key seen, and skipped and delivered entries count  *)
(* the entries selected so far.                                            *)
(***************************************************************************)
EXTENDS Node, FiniteSetTheorems, TLAPS

Formats == {"none", "tuples", "new"}

FileRecs == [format       : Formats,
             tables       : SUBSET TableNames,
             records      : RecordTables,
             latest       : [Authors -> 0 .. MaxTime],
             by_key       : SUBSET Ids,
             namespaces_1 : {"none", "write"},
             namespaces_2 : {"none", "read", "write"},
             authors      : SUBSET Authors,
             peers        : SUBSET Peers]

AuthorFiles == [state : {"none", "torn", "whole"}, author : SUBSET Authors]

FilesTyped ==
    /\ source \in FileRecs /\ target \in FileRecs /\ backup \in FileRecs
    /\ vis \in FileRecs /\ old \in FileRecs

Migrating == pc \in {"m1", "m2", "m3", "m4"}

Indexed(f) == PresentIds(f) \subseteq f.by_key

LatestIsNew(f) == \A a \in Authors : f.latest[a] = Newest(f.records, a)

\* The latest table before migration 001, and after it.
LatestFound(f) == \/ f.latest = EmptyFile.latest \/ f.latest = old.latest \/ LatestIsNew(f)

LatestDone(f) == \/ f.latest = old.latest /\ old.latest # EmptyFile.latest
                 \/ LatestIsNew(f)

\* The rewrite: what it works on is the file first found.
RewriteInv ==
    /\ source.format = "tuples" => source = old
    /\ pc \in {"copy", "rename"} => source.format = "tuples"
    /\ pc \in {"rename", "persist"} => target = Copied(old)
    /\ pc = "persist" => backup = old
    /\ Migrating \/ IsOpen => source.format = "new"
    /\ IsOpen => vis.format = "new"

\* The tables through migrations, commits and crashes.
TablesInv ==
    /\ source.by_key = {} \/ Indexed(source)
    /\ old.by_key = {} \/ Indexed(old)
    /\ IsOpen => Indexed(source) /\ Indexed(vis)
    /\ pc = "m4" \/ IsOpen => source.namespaces_1 = "none"
    /\ IsOpen => vis.namespaces_1 = "none" /\ vis.namespaces_2 \in {source.namespaces_2, "none"}

\* Until the node writes.
UnwrittenInv ==
    ~ written =>
        /\ source.records = old.records \/ backup.records = old.records
        /\ LatestFound(source)
        /\ pc \in {"m2", "m3", "m4"} \/ IsOpen => LatestDone(source)
        /\ IsOpen => vis.records = source.records /\ vis.latest = source.latest

FileInv == FilesTyped /\ RewriteInv /\ TablesInv /\ UnwrittenInv

AuthorInv ==
    /\ file \in AuthorFiles
    /\ value \in SUBSET Authors
    /\ saving \in SUBSET Authors
    /\ file.state = "whole" => file.author # {}
    /\ pc \in {"flush", "truncate", "write"} => saving # {} /\ saving \subseteq vis.authors
    /\ pc \notin {"flush", "truncate", "write", "running"} => saving = {}
    /\ pc = "running" => /\ value # {} /\ value \subseteq vis.authors
                         /\ saving \subseteq vis.authors
                         /\ saving = {} => file = [state |-> "whole", author |-> value]

GcTyped == gc \in [phase : {"idle", "asked", "taken", "streaming", "continue", "abort"},
                   left : SUBSET Hashes, live : SUBSET Hashes, must : SUBSET Hashes,
                   cut : BOOLEAN]

ProtectInv ==
    /\ GcTyped
    /\ gc.phase = "streaming" => gc.must \subseteq gc.left \cup gc.live
    /\ ProtectIsComplete

-----------------------------------------------------------------------------
(* Files                                                                   *)

LEMMA HasMax ==
    ASSUME NEW n \in Nat, NEW S \in SUBSET (0 .. n), S # {}
    PROVE  \E i \in S : \A j \in S : j <= i
<1> DEFINE R == OpToRel(<, Nat)
           T == {k \in Nat : \E i \in S : k = n - i}
<1>1. IsWellFoundedOn(R, Nat)
  BY NatLessThanWellFounded, Zenon
<1>2. \A i \in S : i \in Int /\ n - i \in Nat /\ n - i \in T
  OBVIOUS
<1>3. PICK x \in T : \A y \in T : ~ (<<y, x>> \in R)
  <2>1. T \subseteq Nat /\ T # {}
    BY <1>2, Zenon
  <2> HIDE DEF R, T
  <2> QED
    BY <1>1, <2>1, WFMin, Zenon
<1>4. \A y \in T : ~ (y < x)
  BY <1>3, Zenon DEF OpToRel
<1>5. PICK i \in S : x = n - i
  OBVIOUS
<1>6. ASSUME NEW j \in S PROVE j <= i
  <2>1. ~ (n - j < n - i)
    BY <1>2, <1>4, <1>5
  <2> QED
    BY <1>2, <2>1
<1> QED
  BY <1>6

LEMMA RecordTimes ==
    ASSUME NEW rec \in RecordTables, NEW id \in Ids
    PROVE  rec[id].ts \in 0 .. MaxTime
BY EntriesAssumption DEF RecordTables, Records, NoRecord

\* Migration 001 writes a timestamp the author's records have.
LEMMA NewestType ==
    ASSUME NEW rec \in RecordTables, NEW a \in Authors
    PROVE  Newest(rec, a) \in 0 .. MaxTime
<1> DEFINE ts == {rec[<<a, k>>].ts : k \in Keys}
<1>1. ts \in SUBSET (0 .. MaxTime)
  BY RecordTimes, Zenon DEF Ids
<1>2. ts # {}
  BY FilesAssumption, Zenon
<1>3. PICK t \in ts : \A u \in ts : u <= t
  BY <1>1, <1>2, HasMax, EntriesAssumption, Zenon
<1>4. Newest(rec, a) \in ts
  BY <1>3 DEF Newest
<1> QED
  BY <1>1, <1>4

\* Without records the newest timestamp is the empty table's.
LEMMA NewestOfNothing ==
    ASSUME NEW rec \in RecordTables, \A id \in Ids : ~ Present(rec, id), NEW a \in Authors
    PROVE  Newest(rec, a) = 0
<1> DEFINE ts == {rec[<<a, k>>].ts : k \in Keys}
<1>1. \A k \in Keys : rec[<<a, k>>].ts = 0
  BY DEF Present, NoRecord, Ids
<1>2. ts = {0}
  BY <1>1, FilesAssumption, Zenon
<1>3. 0 \in ts /\ \A u \in ts : u <= 0
  <2> HIDE DEF ts
  <2> QED
    BY <1>2
<1>4. Newest(rec, a) \in ts
  BY <1>3 DEF Newest
<1> QED
  BY <1>2, <1>4, Zenon

LEMMA EmptyFileType == EmptyFile \in FileRecs /\ NoFile \in FileRecs
<1>1. EmptyFile \in FileRecs
  BY EntriesAssumption DEF EmptyFile, FileRecs, Formats, RecordTables
<1> QED
  BY <1>1 DEF NoFile, FileRecs, Formats, EmptyFile

LEMMA EmptyFileHasNothing == /\ PresentIds(EmptyFile) = {}
                             /\ PresentIds(NoFile) = {}
                             /\ EmptyFile.by_key = {} /\ NoFile.by_key = {}
                             /\ NoFile.records = EmptyFile.records
                             /\ NoFile.latest = EmptyFile.latest
                             /\ EmptyFile.format = "new" /\ NoFile.format = "none"
                             /\ EmptyFile.namespaces_1 = "none"
                             /\ EmptyFile.namespaces_2 = "none"
BY DEF PresentIds, Present, EmptyFile, NoFile

LEMMA OldFilesType == OldFiles \subseteq FileRecs
<1>1. Files \subseteq FileRecs
  BY DEF Files, FileRecs, Formats
<1> QED
  BY <1>1, FilesAssumption, EmptyFileType

\* An entry that is stored adds no id but its own.
LEMMA PutIds ==
    ASSUME NEW rec \in RecordTables, NEW id \in Ids, NEW r \in Records
    PROVE  /\ put(rec, id, r) \in RecordTables
           /\ \A i \in Ids : Present(put(rec, id, r), i) => Present(rec, i) \/ i = id
<1>1. remove_prefix_filtered(rec, id, r) \in RecordTables
  BY DEF remove_prefix_filtered, RecordTables
<1>2. \A i \in Ids : remove_prefix_filtered(rec, id, r)[i] \in {rec[i], NoRecord}
  BY DEF remove_prefix_filtered
<1> QED
  BY <1>1, <1>2 DEF put, RecordTables, Present

LEMMA CopiedForm ==
    ASSUME NEW f \in FileRecs
    PROVE  /\ Copied(f) \in FileRecs
           /\ Copied(f).format = "new" /\ Copied(f).records = f.records
           /\ Copied(f).latest = f.latest /\ Copied(f).by_key = f.by_key
BY Zenon DEF Copied, FileRecs, Formats, list_tables
-----------------------------------------------------------------------------
(* FileInv                                                                 *)

LEMMA FileInvInit == Init => FileInv
<1> SUFFICES ASSUME Init PROVE FileInv
  OBVIOUS
<1>1. FilesTyped
  BY OldFilesType, EmptyFileType DEF Init, FilesTyped
<1>2. RewriteInv
  BY DEF Init, RewriteInv, Migrating, IsOpen
<1>3. TablesInv
  BY FilesAssumption DEF Init, TablesInv, IsOpen, Indexed
<1>4. UnwrittenInv
  BY DEF Init, UnwrittenInv, IsOpen, LatestFound
<1> QED
  BY <1>1, <1>2, <1>3, <1>4 DEF FileInv

\* What FileInv reads.
LEMMA FilesQuiet ==
    ASSUME FileInv, UNCHANGED <<pc, source, target, backup, vis, old, written>>
    PROVE  FileInv'
BY DEF FileInv, FilesTyped, RewriteInv, Migrating, IsOpen, TablesInv, Indexed, PresentIds,
       UnwrittenInv, LatestFound, LatestDone, LatestIsNew

\* The open store commits.
LEMMA FilesFlush ==
    ASSUME FileInv, IsOpen, IsOpen', Flush, UNCHANGED <<target, backup, vis, old, written>>
    PROVE  FileInv'
<1>1. FilesTyped'
  BY DEF FileInv, FilesTyped, Flush
<1>2. RewriteInv'
  BY DEF FileInv, RewriteInv, Flush, IsOpen, Migrating
<1>3. TablesInv'
  BY DEF FileInv, TablesInv, Flush, Indexed, PresentIds, IsOpen
<1>4. UnwrittenInv'
  BY DEF FileInv, UnwrittenInv, Flush, LatestFound, LatestDone, LatestIsNew, IsOpen
<1> QED
  BY <1>1, <1>2, <1>3, <1>4 DEF FileInv

\* The process ends without a commit ...
LEMMA FilesDown ==
    ASSUME FileInv, pc' = "down", vis' \in FileRecs, target' \in FileRecs,
           UNCHANGED <<source, backup, old, written>>
    PROVE  FileInv'
<1>1. FilesTyped'
  BY DEF FileInv, FilesTyped
<1>2. RewriteInv'
  BY DEF FileInv, RewriteInv, IsOpen, Migrating
<1>3. TablesInv'
  BY DEF FileInv, TablesInv, Indexed, PresentIds, IsOpen
<1>4. UnwrittenInv'
  BY DEF FileInv, UnwrittenInv, LatestFound, LatestIsNew, IsOpen
<1> QED
  BY <1>1, <1>2, <1>3, <1>4 DEF FileInv

\* ... or after one.
LEMMA FilesFlushDown ==
    ASSUME FileInv, IsOpen, pc' = "down", Flush, vis' = NoFile,
           UNCHANGED <<target, backup, old, written>>
    PROVE  FileInv'
<1>1. FilesTyped'
  BY EmptyFileType DEF FileInv, FilesTyped, Flush
<1>2. RewriteInv'
  BY DEF FileInv, RewriteInv, Flush, IsOpen, Migrating
<1>3. TablesInv'
  BY DEF FileInv, TablesInv, Flush, Indexed, PresentIds, IsOpen
<1>4. UnwrittenInv'
  BY DEF FileInv, UnwrittenInv, Flush, LatestFound, LatestDone, LatestIsNew, IsOpen
<1> QED
  BY <1>1, <1>2, <1>3, <1>4 DEF FileInv

\* An author is stored or deleted.
LEMMA FilesAuthors ==
    ASSUME FileInv, IsOpen, IsOpen', NEW A \in SUBSET Authors,
           vis' = [vis EXCEPT !.authors = A],
           UNCHANGED <<source, target, backup, old, written>>
    PROVE  FileInv'
<1>1. /\ vis' \in FileRecs
      /\ vis'.format = vis.format /\ vis'.records = vis.records
      /\ vis'.latest = vis.latest /\ vis'.by_key = vis.by_key
      /\ vis'.namespaces_1 = vis.namespaces_1 /\ vis'.namespaces_2 = vis.namespaces_2
  BY DEF FileInv, FilesTyped, FileRecs
<1>2. FilesTyped'
  BY <1>1 DEF FileInv, FilesTyped
<1>3. RewriteInv'
  BY <1>1 DEF FileInv, RewriteInv, IsOpen, Migrating
<1>4. TablesInv'
  BY <1>1 DEF FileInv, TablesInv, Indexed, PresentIds, IsOpen
<1>5. UnwrittenInv'
  BY <1>1 DEF FileInv, UnwrittenInv, LatestFound, LatestDone, LatestIsNew, IsOpen
<1> QED
  BY <1>2, <1>3, <1>4, <1>5 DEF FileInv

\* An entry is stored, or the replica dropped: the tables visible change, and
\* the index covers them.
LEMMA FilesWrite ==
    ASSUME FileInv, IsOpen, IsOpen', vis' \in FileRecs, vis'.format = vis.format,
           Indexed(vis)', vis'.namespaces_1 = vis.namespaces_1,
           vis'.namespaces_2 \in {vis.namespaces_2, "none"}, written',
           UNCHANGED <<source, target, backup, old>>
    PROVE  FileInv'
<1>1. FilesTyped'
  BY DEF FileInv, FilesTyped
<1>2. RewriteInv'
  BY DEF FileInv, RewriteInv, IsOpen, Migrating
<1>3. TablesInv'
  BY DEF FileInv, TablesInv, Indexed, PresentIds, IsOpen
<1>4. UnwrittenInv'
  BY DEF UnwrittenInv
<1> QED
  BY <1>1, <1>2, <1>3, <1>4 DEF FileInv

LEMMA InsertFiles ==
    ASSUME FileInv, NEW id \in Ids, NEW r \in Records, insert(id, r)
    PROVE  FileInv'
<1>1. IsOpen /\ IsOpen' /\ written' /\ UNCHANGED <<source, target, backup, old>>
  BY Zenon DEF insert, Serving, IsOpen, fileVars
<1>2. vis' = [vis EXCEPT !.records = put(@, id, r), !.by_key = @ \cup {id},
                         !.latest[id[1]] = r.ts]
  BY Zenon DEF insert
<1>3. vis \in FileRecs /\ vis.records \in RecordTables
  BY DEF FileInv, FilesTyped, FileRecs
<1>4. put(vis.records, id, r) \in RecordTables
  BY <1>3, PutIds
<1>5. [vis.latest EXCEPT ![id[1]] = r.ts] \in [Authors -> 0 .. MaxTime]
  BY <1>3, EntriesAssumption DEF FileRecs, Records, Ids
<1>6. /\ vis' \in FileRecs
      /\ vis'.format = vis.format /\ vis'.records = put(vis.records, id, r)
      /\ vis'.by_key = vis.by_key \cup {id}
      /\ vis'.namespaces_1 = vis.namespaces_1 /\ vis'.namespaces_2 = vis.namespaces_2
  BY <1>2, <1>3, <1>4, <1>5, Zenon DEF FileRecs
<1>7. Indexed(vis)
  BY <1>1 DEF FileInv, TablesInv
<1>8. Indexed(vis)'
  BY <1>3, <1>6, <1>7, PutIds DEF Indexed, PresentIds
<1> QED
  BY <1>1, <1>6, <1>8, FilesWrite

LEMMA DropFiles ==
    ASSUME FileInv, doc_drop
    PROVE  FileInv'
<1>1. IsOpen /\ IsOpen' /\ written' /\ UNCHANGED <<source, target, backup, old>>
  BY Zenon DEF doc_drop, Serving, IsOpen, fileVars
<1>2. vis \in FileRecs /\ EmptyFile.records \in RecordTables
  BY EmptyFileType DEF FileInv, FilesTyped, FileRecs
<1>3. /\ vis' \in FileRecs
      /\ vis'.format = vis.format /\ vis'.records = EmptyFile.records
      /\ vis'.namespaces_1 = vis.namespaces_1 /\ vis'.namespaces_2 = "none"
  BY <1>2, Zenon DEF doc_drop, FileRecs
<1>4. Indexed(vis)'
  BY <1>3, EmptyFileHasNothing DEF Indexed, PresentIds
<1> QED
  BY <1>1, <1>3, <1>4, FilesWrite
LEMMA OpenFiles ==
    ASSUME FileInv, Open, UNCHANGED <<old, written>>
    PROVE  FileInv'
<1>1. /\ pc' = "setup" /\ UNCHANGED <<target, backup, vis, old, written>>
      /\ source' \in {source, EmptyFile} /\ (source' = EmptyFile => source \in {NoFile, EmptyFile})
  BY Zenon DEF Open
<1>2. FilesTyped'
  BY <1>1, EmptyFileType DEF FileInv, FilesTyped
<1>3. RewriteInv'
  BY <1>1, EmptyFileHasNothing DEF FileInv, RewriteInv, IsOpen, Migrating
<1>4. TablesInv'
  BY <1>1, EmptyFileHasNothing DEF FileInv, TablesInv, Indexed, PresentIds, IsOpen
<1>5. UnwrittenInv'
  BY <1>1, EmptyFileHasNothing
  DEF FileInv, UnwrittenInv, LatestFound, LatestIsNew, IsOpen
<1> QED
  BY <1>2, <1>3, <1>4, <1>5 DEF FileInv

LEMMA SetupFiles ==
    ASSUME FileInv, Setup, UNCHANGED <<old, written>>
    PROVE  FileInv'
<1>1. CASE Mismatch(source) /\ pc' = "copy" /\ UNCHANGED source
  <2>1. FilesTyped'
    BY <1>1 DEF FileInv, FilesTyped, Setup
  <2>2. RewriteInv'
    BY <1>1 DEF FileInv, RewriteInv, Setup, IsOpen, Migrating, Mismatch
  <2>3. TablesInv'
    BY <1>1 DEF FileInv, TablesInv, Setup, Indexed, PresentIds, IsOpen
  <2>4. UnwrittenInv'
    BY <1>1 DEF FileInv, UnwrittenInv, Setup, LatestFound, LatestIsNew, IsOpen
  <2> QED
    BY <2>1, <2>2, <2>3, <2>4 DEF FileInv
<1>2. CASE /\ pc' = "m1"
           /\ source' = [source EXCEPT !.format = "new",
                                       !.tables = @ \cup (TableNames \ {"namespaces-1"})]
  <2>1. /\ source' \in FileRecs /\ source'.format = "new"
        /\ source'.records = source.records /\ source'.latest = source.latest
        /\ source'.by_key = source.by_key
    BY <1>2, Zenon DEF FileInv, FilesTyped, FileRecs, Formats
  <2>2. UNCHANGED <<target, backup, vis, old, written>>
    BY DEF Setup
  <2>3. FilesTyped'
    BY <2>1, <2>2 DEF FileInv, FilesTyped
  <2>4. RewriteInv'
    BY <1>2, <2>1, <2>2 DEF FileInv, RewriteInv, IsOpen, Migrating
  <2>5. TablesInv'
    BY <1>2, <2>1, <2>2 DEF FileInv, TablesInv, Indexed, PresentIds, IsOpen
  <2>6. UnwrittenInv'
    BY <1>2, <2>1, <2>2 DEF FileInv, UnwrittenInv, LatestFound, LatestIsNew, IsOpen
  <2> QED
    BY <2>3, <2>4, <2>5, <2>6 DEF FileInv
<1> QED
  BY <1>1, <1>2 DEF Setup

\* The rewrite copies the file first found, sets it aside, and puts the copy in
\* its place.
LEMMA RewriteFiles ==
    ASSUME FileInv, Copy \/ Rename \/ PersistTarget \/ RewriteFails, UNCHANGED <<old, written>>
    PROVE  FileInv'
<1>1. CASE Copy
  <2>1. /\ pc = "copy" /\ pc' = "rename" /\ target' = Copied(source)
        /\ UNCHANGED <<source, backup, vis>>
    BY <1>1 DEF Copy
  <2>2. source = old /\ Copied(source) \in FileRecs
    BY <2>1, CopiedForm DEF FileInv, FilesTyped, RewriteInv
  <2>3. Copied(old)' = Copied(old)
    BY DEF Copied, list_tables
  <2>4. FilesTyped'
    BY <2>1, <2>2 DEF FileInv, FilesTyped
  <2>5. RewriteInv'
    BY <2>1, <2>2, <2>3 DEF FileInv, RewriteInv, IsOpen, Migrating
  <2>6. TablesInv'
    BY <2>1 DEF FileInv, TablesInv, Indexed, PresentIds, IsOpen
  <2>7. UnwrittenInv'
    BY <2>1 DEF FileInv, UnwrittenInv, LatestFound, LatestIsNew, IsOpen
  <2> QED
    BY <2>4, <2>5, <2>6, <2>7 DEF FileInv
<1>2. CASE Rename
  <2>1. /\ pc = "rename" /\ pc' = "persist" /\ backup' = source /\ source' = NoFile
        /\ UNCHANGED <<target, vis>>
    BY <1>2 DEF Rename
  <2>2. source = old /\ target = Copied(old)
    BY <2>1 DEF FileInv, RewriteInv
  <2>3. Copied(old)' = Copied(old)
    BY DEF Copied, list_tables
  <2>4. FilesTyped'
    BY <2>1, EmptyFileType DEF FileInv, FilesTyped
  <2>5. RewriteInv'
    BY <2>1, <2>2, <2>3, EmptyFileHasNothing DEF RewriteInv, IsOpen, Migrating
  <2>6. TablesInv'
    BY <2>1, EmptyFileHasNothing DEF FileInv, TablesInv, Indexed, PresentIds, IsOpen
  <2>7. UnwrittenInv'
    BY <2>1, <2>2, EmptyFileHasNothing DEF UnwrittenInv, LatestFound, IsOpen
  <2> QED
    BY <2>4, <2>5, <2>6, <2>7 DEF FileInv
<1>3. CASE PersistTarget
  <2>1. /\ pc = "persist" /\ pc' = "setup" /\ source' = target /\ target' = NoFile
        /\ UNCHANGED <<backup, vis>>
    BY <1>3 DEF PersistTarget
  <2>2. /\ old \in FileRecs /\ target = Copied(old)
    BY <2>1 DEF FileInv, FilesTyped, RewriteInv
  <2>3. /\ source'.format = "new" /\ source'.records = old.records
        /\ source'.latest = old.latest /\ source'.by_key = old.by_key
    BY <2>1, <2>2, CopiedForm
  <2>4. FilesTyped'
    BY <2>1, EmptyFileType DEF FileInv, FilesTyped
  <2>5. RewriteInv'
    BY <2>1, <2>3 DEF RewriteInv, IsOpen, Migrating
  <2>6. TablesInv'
    BY <2>1, <2>3 DEF FileInv, TablesInv, Indexed, PresentIds, IsOpen
  <2>7. UnwrittenInv'
    BY <2>1, <2>3 DEF UnwrittenInv, LatestFound, IsOpen
  <2> QED
    BY <2>4, <2>5, <2>6, <2>7 DEF FileInv
<1>4. CASE RewriteFails
  BY <1>4, FilesDown, EmptyFileType DEF RewriteFails, FileInv, FilesTyped
<1> QED
  BY <1>1, <1>2, <1>3, <1>4

LEMMA Migration001Files ==
    ASSUME FileInv, migration_001, UNCHANGED <<old, written>>
    PROVE  FileInv'
<1>1. /\ pc = "m1" /\ pc' = "m2" /\ UNCHANGED <<target, backup, vis>>
      /\ source' = IF source.latest = EmptyFile.latest /\ PresentIds(source) # {}
                   THEN [source EXCEPT !.latest = [a \in Authors |-> Newest(source.records, a)]]
                   ELSE source
  BY DEF migration_001, Migration
<1>2. source \in FileRecs /\ source.records \in RecordTables /\ source.format = "new"
  BY <1>1 DEF FileInv, FilesTyped, FileRecs, RewriteInv, Migrating
<1>3. [a \in Authors |-> Newest(source.records, a)] \in [Authors -> 0 .. MaxTime]
  BY <1>2, NewestType
<1>4. /\ source' \in FileRecs
      /\ source'.format = "new" /\ source'.records = source.records
      /\ source'.by_key = source.by_key
      /\ \/ source'.latest = source.latest
         \/ source'.latest = [a \in Authors |-> Newest(source.records, a)]
  BY <1>1, <1>2, <1>3 DEF FileRecs
<1>5. LatestFound(source) => LatestDone(source')
  <2>1. CASE source.latest = EmptyFile.latest /\ PresentIds(source) # {}
    <3>1. source'.latest = [a \in Authors |-> Newest(source.records, a)]
      BY <1>1, <1>2, <1>3, <2>1, SMTT(30) DEF FileRecs
    <3> QED
      BY <1>4, <3>1 DEF LatestDone, LatestIsNew
  <2>2. CASE source.latest = EmptyFile.latest /\ PresentIds(source) = {}
    <3>1. \A a \in Authors : Newest(source.records, a) = 0
      BY <1>2, <2>2, NewestOfNothing DEF PresentIds
    <3>2. source' = source
      BY <1>1, <2>2
    <3> QED
      BY <2>2, <3>1, <3>2 DEF LatestDone, LatestIsNew, EmptyFile
  <2>3. CASE source.latest # EmptyFile.latest
    BY <1>1, <2>3 DEF LatestFound, LatestDone, LatestIsNew
  <2> QED
    BY <2>1, <2>2, <2>3
<1>6. FilesTyped'
  BY <1>1, <1>4 DEF FileInv, FilesTyped
<1>7. RewriteInv'
  BY <1>1, <1>4 DEF RewriteInv, IsOpen, Migrating
<1>8. TablesInv'
  BY <1>1, <1>4 DEF FileInv, TablesInv, Indexed, PresentIds, IsOpen
<1>9. UnwrittenInv'
  <2>1. ~ written' => LatestDone(source)'
    BY <1>1, <1>5 DEF FileInv, UnwrittenInv, LatestDone, LatestIsNew
  <2>2. LatestDone(source)' => LatestFound(source)'
    BY DEF LatestDone, LatestFound
  <2> QED
    BY <1>1, <1>4, <2>1, <2>2 DEF FileInv, UnwrittenInv, IsOpen
<1> QED
  BY <1>6, <1>7, <1>8, <1>9 DEF FileInv
LEMMA Migration002Files ==
    ASSUME FileInv, migration_002, UNCHANGED <<old, written>>
    PROVE  FileInv'
<1>1. /\ pc = "m2" /\ pc' = "m3" /\ UNCHANGED <<target, backup, vis>>
      /\ source' \in {source, [source EXCEPT !.namespaces_2 = "write"]}
  BY DEF migration_002, Migration
<1>2. source \in FileRecs /\ source.format = "new"
  BY <1>1 DEF FileInv, FilesTyped, RewriteInv, Migrating
<1>3. /\ source' \in FileRecs
      /\ source'.format = "new" /\ source'.records = source.records
      /\ source'.by_key = source.by_key /\ source'.latest = source.latest
  BY <1>1, <1>2 DEF FileRecs
<1>4. FilesTyped'
  BY <1>1, <1>3 DEF FileInv, FilesTyped
<1>5. RewriteInv'
  BY <1>1, <1>3 DEF RewriteInv, IsOpen, Migrating
<1>6. TablesInv'
  BY <1>1, <1>3 DEF FileInv, TablesInv, Indexed, PresentIds, IsOpen
<1>7. UnwrittenInv'
  BY <1>1, <1>3 DEF FileInv, UnwrittenInv, LatestFound, LatestDone, LatestIsNew, IsOpen
<1> QED
  BY <1>4, <1>5, <1>6, <1>7 DEF FileInv

LEMMA Migration003Files ==
    ASSUME FileInv, migration_003, UNCHANGED <<old, written>>
    PROVE  FileInv'
<1>1. /\ pc = "m3" /\ pc' = "m4" /\ UNCHANGED <<target, backup, vis>>
      /\ source' = [source EXCEPT !.tables = @ \ {"namespaces-1"}, !.namespaces_1 = "none"]
  BY DEF migration_003, Migration
<1>2. source \in FileRecs /\ source.format = "new"
  BY <1>1 DEF FileInv, FilesTyped, RewriteInv, Migrating
<1>3. /\ source' \in FileRecs
      /\ source'.format = "new" /\ source'.records = source.records
      /\ source'.by_key = source.by_key /\ source'.latest = source.latest
      /\ source'.namespaces_1 = "none"
  BY <1>1, <1>2, Zenon DEF FileRecs
<1>4. FilesTyped'
  BY <1>1, <1>3 DEF FileInv, FilesTyped
<1>5. RewriteInv'
  BY <1>1, <1>3 DEF RewriteInv, IsOpen, Migrating
<1>6. TablesInv'
  BY <1>1, <1>3 DEF FileInv, TablesInv, Indexed, PresentIds, IsOpen
<1>7. UnwrittenInv'
  BY <1>1, <1>3 DEF FileInv, UnwrittenInv, LatestFound, LatestDone, LatestIsNew, IsOpen
<1> QED
  BY <1>4, <1>5, <1>6, <1>7 DEF FileInv

LEMMA Migration004Files ==
    ASSUME FileInv, migration_004, UNCHANGED <<old, written>>
    PROVE  FileInv'
<1>1. /\ pc = "m4" /\ pc' = "load" /\ UNCHANGED <<target, backup>> /\ vis' = source'
      /\ source' = IF source.by_key = {}
                   THEN [source EXCEPT !.by_key = PresentIds(source)]
                   ELSE source
  BY DEF migration_004
<1>2. source \in FileRecs /\ source.format = "new" /\ source.namespaces_1 = "none"
  BY <1>1 DEF FileInv, FilesTyped, RewriteInv, Migrating, TablesInv
<1>3. /\ source' \in FileRecs
      /\ source'.format = "new" /\ source'.records = source.records
      /\ source'.latest = source.latest /\ source'.namespaces_1 = "none"
      /\ source'.by_key = IF source.by_key = {} THEN PresentIds(source) ELSE source.by_key
  BY <1>1, <1>2 DEF FileRecs, PresentIds
<1>4. Indexed(source)'
  BY <1>3 DEF FileInv, TablesInv, Indexed, PresentIds
<1>5. FilesTyped'
  BY <1>1, <1>3 DEF FileInv, FilesTyped
<1>6. RewriteInv'
  BY <1>1, <1>3 DEF RewriteInv, IsOpen, Migrating
<1>7. TablesInv'
  BY <1>1, <1>3, <1>4 DEF FileInv, TablesInv, Indexed, PresentIds, IsOpen
<1>8. UnwrittenInv'
  BY <1>1, <1>3 DEF FileInv, UnwrittenInv, LatestFound, LatestDone, LatestIsNew, IsOpen
<1> QED
  BY <1>5, <1>6, <1>7, <1>8 DEF FileInv

LEMMA FileInvStep == FileInv /\ [Next]_vars => FileInv'
<1> SUFFICES ASSUME FileInv, [Next]_vars PROVE FileInv'
  OBVIOUS
<1>1. CASE Start
  BY <1>1, OpenFiles DEF Start
<1>2. CASE StoreStep
  <2>1. UNCHANGED <<old, written>> /\ Starting /\ pc # "down"
    BY <1>2 DEF StoreStep
  <2> QED
    BY <2>1, SetupFiles, RewriteFiles, Migration001Files, Migration002Files,
       Migration003Files, Migration004Files DEF Starting, Open
<1>3. CASE LoadAuthorFile
  <2>1. CASE pc' = "running" /\ UNCHANGED vis
    <3>1. IsOpen /\ IsOpen' /\ UNCHANGED <<source, target, backup, vis, old, written>>
      BY <1>3, <2>1 DEF LoadAuthorFile, IsOpen, fileVars
    <3> QED
      BY <1>3, <3>1, ZenonT(30)
      DEF FileInv, FilesTyped, RewriteInv, Migrating, TablesInv, Indexed, PresentIds,
          UnwrittenInv, LatestFound, LatestDone, LatestIsNew, IsOpen
  <2>2. CASE SpawnFails
    BY <1>3, <2>2, FilesDown, EmptyFileType
    DEF LoadAuthorFile, SpawnFails, fileVars, FileInv, FilesTyped
  <2> QED
    BY <1>3, <2>1, <2>2, ZenonT(30) DEF LoadAuthorFile
<1>4. ASSUME NEW a \in Authors, CreateAuthor(a) \/ ImportAuthor(a) \/ author_delete(a)
      PROVE  FileInv'
  <2>1. /\ IsOpen /\ IsOpen' /\ UNCHANGED <<source, target, backup, old, written>>
        /\ vis' \in {[vis EXCEPT !.authors = vis.authors \cup {a}],
                     [vis EXCEPT !.authors = vis.authors \ {a}]}
    BY <1>4 DEF CreateAuthor, ImportAuthor, author_delete, Serving, IsOpen, fileVars
  <2>2. vis.authors \in SUBSET Authors
    BY DEF FileInv, FilesTyped, FileRecs
  <2> QED
    BY <2>1, <2>2, FilesAuthors
<1>5. CASE FlushAuthor
  BY <1>5, FilesFlush, ZenonT(30) DEF FlushAuthor, IsOpen
<1>6. CASE TruncateNewFile \/ WriteNewFile
  <2>1. IsOpen /\ IsOpen' /\ UNCHANGED <<source, target, backup, vis, old, written>>
    BY <1>6 DEF TruncateNewFile, WriteNewFile, IsOpen, fileVars
  <2> QED
    BY <2>1, ZenonT(30)
    DEF FileInv, FilesTyped, RewriteInv, Migrating, TablesInv, Indexed, PresentIds,
        UnwrittenInv, LatestFound, LatestDone, LatestIsNew, IsOpen
<1>7. CASE DeleteAuthorFile
  BY <1>7, FilesQuiet DEF DeleteAuthorFile, fileVars
<1>8. ASSUME NEW a \in Authors, author_set_default(a) PROVE FileInv'
  BY <1>8, FilesQuiet DEF author_set_default, fileVars
<1>9. CASE FinishSetDefault
  BY <1>9, FilesQuiet DEF FinishSetDefault, fileVars
<1>10. ASSUME NEW id \in Ids, NEW r \in Records, insert(id, r) PROVE FileInv'
  BY <1>10, InsertFiles
<1>11. CASE doc_drop
  BY <1>11, DropFiles
<1>12. CASE Tick
  BY <1>12, FilesFlush DEF Tick, IsOpen
<1>13. ASSUME NEW q \in Queries, get_many(q) PROVE FileInv'
  BY <1>13, FilesFlush DEF get_many, IsOpen, Serving
<1>14. CASE IteratorStep
  BY <1>14, FilesQuiet DEF IteratorStep, fileVars
<1>15. CASE ProtectAsk \/ ProtectTaken \/ ProtectError \/ ProtectEnd
  BY <1>15, FilesQuiet DEF ProtectAsk, ProtectTaken, ProtectError, ProtectEnd, fileVars
<1>16. CASE ProtectSnapshot
  <2>1. CASE pc = "running"
    BY <1>16, <2>1, FilesFlush DEF ProtectSnapshot, IsOpen
  <2>2. CASE pc # "running"
    BY <1>16, <2>2, FilesQuiet DEF ProtectSnapshot
  <2> QED
    BY <2>1, <2>2
<1>17. ASSUME NEW h \in Hashes, ProtectHash(h) PROVE FileInv'
  BY <1>17, FilesQuiet DEF ProtectHash, fileVars
<1>18. CASE Shutdown \/ DropEngine
  BY <1>18, FilesFlushDown DEF Shutdown, DropEngine, Serving, IsOpen
<1>19. CASE Crash
  BY <1>19, FilesDown, EmptyFileType DEF Crash, Dies
<1>20. CASE UNCHANGED vars
  BY <1>20, FilesQuiet DEF vars
<1> QED
  BY <1>1, <1>2, <1>3, <1>4, <1>5, <1>6, <1>7, <1>8, <1>9, <1>10, <1>11, <1>12, <1>13,
     <1>14, <1>15, <1>16, <1>17, <1>18, <1>19, <1>20, SMTT(30) DEF Next
-----------------------------------------------------------------------------
(* AuthorInv                                                               *)

LEMMA AuthorInvInit == Init => AuthorInv
<1> SUFFICES ASSUME Init PROVE AuthorInv
  OBVIOUS
<1>1. source \in FileRecs
  BY OldFilesType DEF Init
<1>2. file \in AuthorFiles /\ (file.state = "whole" => file.author # {})
  BY <1>1 DEF Init, NoAuthorFile, AuthorFiles, FileRecs
<1> QED
  BY <1>2 DEF Init, AuthorInv

LEMMA AuthorsQuiet ==
    ASSUME AuthorInv, vis'.authors = vis.authors, UNCHANGED <<pc, file, value, saving>>
    PROVE  AuthorInv'
BY DEF AuthorInv

\* The process ends and nothing is being saved.
LEMMA AuthorsDown ==
    ASSUME AuthorInv, pc' = "down", saving' = {}, value' \in SUBSET Authors, UNCHANGED file
    PROVE  AuthorInv'
BY DEF AuthorInv

LEMMA AuthorInvStep == FileInv /\ AuthorInv /\ [Next]_vars => AuthorInv'
<1> SUFFICES ASSUME FileInv, AuthorInv, [Next]_vars PROVE AuthorInv'
  OBVIOUS
<1>v. vis \in FileRecs
  BY DEF FileInv, FilesTyped
<1>1. CASE Start
  BY <1>1 DEF Start, Open, authorVars, AuthorInv
<1>2. CASE StoreStep
  <2>1. /\ pc \notin {"flush", "truncate", "write", "running"}
        /\ pc' \notin {"flush", "truncate", "write", "running"}
        /\ UNCHANGED <<file, value, saving>>
    BY <1>2 DEF StoreStep, Starting, Open, Setup, Copy, Rename, PersistTarget, RewriteFails,
                migration_001, migration_002, migration_003, migration_004, Migration,
                authorVars
  <2> QED
    BY <2>1 DEF AuthorInv
<1>3. CASE LoadAuthorFile
  <2>1. pc = "load" /\ saving = {} /\ saving' = {} /\ UNCHANGED file
    BY <1>3 DEF LoadAuthorFile, AuthorInv
  <2>2. CASE /\ file.state = "whole" /\ file.author \subseteq vis.authors
             /\ value' = file.author /\ pc' = "running" /\ UNCHANGED vis
    <3>1. file = [state |-> "whole", author |-> file.author] /\ file.author \in SUBSET Authors
      BY <2>2 DEF AuthorInv, AuthorFiles
    <3> QED
      BY <2>1, <2>2, <3>1 DEF AuthorInv
  <2>3. CASE SpawnFails /\ UNCHANGED value
    BY <2>1, <2>3, AuthorsDown, ZenonT(30) DEF SpawnFails, AuthorInv
  <2> QED
    BY <1>3, <2>2, <2>3 DEF LoadAuthorFile
<1>4. ASSUME NEW a \in Authors, CreateAuthor(a) PROVE AuthorInv'
  <2>1. /\ pc' = "flush" /\ saving' = {a} /\ UNCHANGED <<file, value>>
        /\ vis'.authors = vis.authors \cup {a}
    BY <1>v, <1>4 DEF CreateAuthor, FileRecs
  <2> QED
    BY <2>1 DEF AuthorInv
<1>5. CASE FlushAuthor
  BY <1>5 DEF FlushAuthor, AuthorInv, authorVars
<1>6. CASE TruncateNewFile
  BY <1>6 DEF TruncateNewFile, AuthorInv, AuthorFiles
<1>7. CASE WriteNewFile
  BY <1>7 DEF WriteNewFile, AuthorInv, AuthorFiles
<1>8. CASE DeleteAuthorFile
  BY <1>8, ZenonT(30) DEF DeleteAuthorFile, AuthorInv, AuthorFiles, NoAuthorFile
<1>9. ASSUME NEW a \in Authors, ImportAuthor(a) PROVE AuthorInv'
  <2>1. vis'.authors = vis.authors \cup {a} /\ UNCHANGED <<pc, file, value, saving>>
    BY <1>v, <1>9 DEF ImportAuthor, FileRecs, authorVars
  <2> QED
    BY <2>1 DEF AuthorInv
<1>10. ASSUME NEW a \in Authors, author_delete(a) PROVE AuthorInv'
  <2>1. /\ vis'.authors = vis.authors \ {a} /\ a \notin value /\ pc = "running"
        /\ saving = {} /\ UNCHANGED <<pc, file, value, saving>>
    BY <1>v, <1>10, SMTT(30) DEF author_delete, FileRecs, authorVars, Serving
  <2> QED
    BY <2>1 DEF AuthorInv
<1>11. ASSUME NEW a \in Authors, author_set_default(a) PROVE AuthorInv'
  BY <1>11 DEF author_set_default, AuthorInv, AuthorFiles, Serving
<1>12. CASE FinishSetDefault
  BY <1>12 DEF FinishSetDefault, AuthorInv, AuthorFiles
<1>13. ASSUME NEW id \in Ids, NEW r \in Records, insert(id, r) PROVE AuthorInv'
  <2>1. vis'.authors = vis.authors /\ UNCHANGED <<pc, file, value, saving>>
    BY <1>v, <1>13 DEF insert, FileRecs, authorVars
  <2> QED
    BY <2>1, AuthorsQuiet
<1>14. CASE doc_drop
  <2>1. vis'.authors = vis.authors /\ UNCHANGED <<pc, file, value, saving>>
    BY <1>v, <1>14 DEF doc_drop, FileRecs, authorVars
  <2> QED
    BY <2>1, AuthorsQuiet
<1>15. CASE \/ Tick \/ IteratorStep \/ \E q \in Queries : get_many(q)
            \/ ProtectAsk \/ ProtectTaken \/ ProtectSnapshot \/ ProtectError \/ ProtectEnd
            \/ \E h \in Hashes : ProtectHash(h)
            \/ UNCHANGED vars
  <2>1. UNCHANGED <<pc, vis, file, value, saving>>
    BY <1>15, Zenon DEF Tick, IteratorStep, get_many, ProtectAsk, ProtectTaken, ProtectSnapshot,
                 ProtectError, ProtectEnd, ProtectHash, authorVars, vars
  <2> QED
    BY <2>1, AuthorsQuiet, SMTT(30)
<1>16. CASE Shutdown \/ DropEngine
  BY <1>16, AuthorsDown DEF Shutdown, DropEngine, Serving
<1>17. CASE Crash
  BY <1>17, AuthorsDown DEF Crash, Dies
<1> QED
  BY <1>1, <1>2, <1>3, <1>4, <1>5, <1>6, <1>7, <1>8, <1>9, <1>10, <1>11, <1>12, <1>13,
     <1>14, <1>15, <1>16, <1>17, SMTT(30) DEF Next
-----------------------------------------------------------------------------
(* ProtectInv                                                              *)

LEMMA ContentHashesType ==
    ASSUME NEW f \in FileRecs
    PROVE  ContentHashes(f) \in SUBSET Hashes
<1>1. \A id \in Ids : f.records[id] \in Records \cup {NoRecord}
  BY DEF FileRecs, RecordTables
<1> QED
  BY <1>1, EntriesAssumption DEF ContentHashes, PresentIds, Records, NoRecord

LEMMA ProtectInvInit == Init => ProtectInv
BY DEF Init, NoProtect, ProtectInv, GcTyped, ProtectIsComplete

LEMMA ProtectInvStep == FileInv /\ ProtectInv /\ [Next]_vars => ProtectInv'
<1> SUFFICES ASSUME FileInv, ProtectInv, [Next]_vars PROVE ProtectInv'
  OBVIOUS
<1>g. GcTyped
  BY DEF ProtectInv
<1>1. CASE gc' = NoProtect
  BY <1>1 DEF NoProtect, ProtectInv, GcTyped, ProtectIsComplete
<1>2. CASE gc' = gc
  BY <1>2 DEF ProtectInv, GcTyped, ProtectIsComplete
<1>3. ASSUME NEW p \in {"asked", "taken", "abort"}, gc' = [gc EXCEPT !.phase = p]
      PROVE  ProtectInv'
  <2>1. GcTyped' /\ gc'.phase = p
    BY <1>g, <1>3 DEF GcTyped
  <2> QED
    BY <2>1 DEF ProtectInv, ProtectIsComplete
<1>4. CASE ProtectAsk
  <2>1. gc' = [NoProtect EXCEPT !.phase = "asked"]
    BY <1>4 DEF ProtectAsk
  <2>2. gc' = [phase |-> "asked", left |-> {}, live |-> {}, must |-> {}, cut |-> FALSE]
    BY <2>1, Zenon DEF NoProtect
  <2> QED
    BY <2>2 DEF ProtectInv, GcTyped, ProtectIsComplete
<1>5. CASE ProtectSnapshot /\ pc = "running"
  <2>1. /\ gc' = [gc EXCEPT !.phase = "streaming", !.left = ContentHashes(vis),
                            !.must = ContentHashes(vis)]
    BY <1>5 DEF ProtectSnapshot, Flush, ContentHashes, PresentIds
  <2>2. ContentHashes(vis) \in SUBSET Hashes
    BY ContentHashesType DEF FileInv, FilesTyped
  <2>3. /\ GcTyped' /\ gc'.phase = "streaming"
        /\ gc'.left = ContentHashes(vis) /\ gc'.must = ContentHashes(vis)
    <3> HIDE DEF ContentHashes
    <3> QED
      BY <1>g, <2>1, <2>2, Zenon DEF GcTyped
  <2> QED
    BY <2>3 DEF ProtectInv, ProtectIsComplete
<1>6. ASSUME NEW h \in Hashes, ProtectHash(h) PROVE ProtectInv'
  <2>1. /\ GcTyped' /\ gc.phase = "streaming" /\ gc'.phase = "streaming"
        /\ gc'.left = gc.left \ {h} /\ gc'.live = gc.live \cup {h} /\ gc'.must = gc.must
    BY <1>g, <1>6, Zenon DEF GcTyped, ProtectHash
  <2> QED
    BY <2>1 DEF ProtectInv, ProtectIsComplete
<1>7. CASE ProtectEnd
  <2>1. /\ GcTyped' /\ gc.phase = "streaming" /\ gc'.phase = "continue" /\ gc.left = {}
        /\ gc'.live = gc.live /\ gc'.must = gc.must
    BY <1>g, <1>7 DEF GcTyped, ProtectEnd
  <2> QED
    BY <2>1 DEF ProtectInv, ProtectIsComplete
<1>8. CASE gc' = [gc EXCEPT !.phase = "continue", !.cut = TRUE]
  <2>1. GcTyped' /\ gc'.phase = "continue" /\ gc'.cut
    BY <1>g, <1>8, ZenonT(30) DEF GcTyped
  <2> QED
    BY <2>1 DEF ProtectInv, ProtectIsComplete
<1>9. CASE ProtectTaken \/ ProtectError \/ (ProtectSnapshot /\ pc # "running")
  BY <1>3, <1>9 DEF ProtectTaken, ProtectError, ProtectSnapshot
<1>10. CASE DropEngine
  BY <1>2, <1>3, <1>8, <1>10 DEF DropEngine
<1>11. CASE Start \/ Crash
  BY <1>1, <1>11 DEF Start, Crash
<1>12. CASE \/ StoreStep \/ LoadAuthorFile \/ FlushAuthor \/ TruncateNewFile \/ WriteNewFile
            \/ DeleteAuthorFile \/ FinishSetDefault \/ doc_drop \/ Tick \/ IteratorStep
            \/ Shutdown \/ UNCHANGED vars
  BY <1>2, <1>12
  DEF StoreStep, LoadAuthorFile, FlushAuthor, TruncateNewFile, WriteNewFile,
      DeleteAuthorFile, FinishSetDefault, doc_drop, Tick, IteratorStep, Shutdown, vars
<1>13. CASE \/ \E a \in Authors : \/ CreateAuthor(a) \/ ImportAuthor(a)
                                   \/ author_delete(a) \/ author_set_default(a)
            \/ \E id \in Ids, r \in Records : insert(id, r)
            \/ \E q \in Queries : get_many(q)
  BY <1>2, <1>13, Zenon
  DEF CreateAuthor, ImportAuthor, author_delete, author_set_default, insert, get_many
<1> QED
  BY <1>4, <1>5, <1>6, <1>7, <1>9, <1>10, <1>11, <1>12, <1>13, ZenonT(30) DEF Next

-----------------------------------------------------------------------------
(* Theorems                                                                *)

\* Through starts, rewrites, migrations, commits and crashes the files on disk
\* and the visible tables stay as FileInv says (Store::persistent, run_migrations).
THEOREM FilesHold == Spec => []FileInv
BY FileInvInit, FileInvStep, PTL DEF Spec

\* However often the rewrite of a file of redb 2 is cut short or fails, the
\* records first found are at the store's path or in the backup until the node
\* writes (migrate_redb_v2_tuples::run).
THEOREM OldRecordsSurvive == Spec => []ContentSurvives
<1>1. FileInv => ContentSurvives
  BY DEF FileInv, UnwrittenInv, ContentSurvives
<1> QED
  BY <1>1, FilesHold, PTL

\* An open store's by-key index is complete, in the visible tables and in the
\* committed ones, and its latest table is the one found or has been rebuilt
\* (migrations 001 and 004, RecordsTable writes).
THEOREM MigratedIndexesAgree == Spec => []OpenIndexesAgree
<1>1. FileInv => OpenIndexesAgree
  BY DEF FileInv, TablesInv, Indexed, UnwrittenInv, LatestDone, LatestIsNew, OpenIndexesAgree
<1> QED
  BY <1>1, FilesHold, PTL

\* A serving node's default author is in its store and in the author file
\* (DefaultAuthor::load and set, author_delete).
THEOREM DefaultAuthorIsKnown == Spec => []DefaultAuthorKnown
<1>1. AuthorInv => DefaultAuthorKnown
  BY DEF AuthorInv, DefaultAuthorKnown, Serving
<1> QED
  BY <1>1, AuthorInvInit, AuthorInvStep, FilesHold, PTL DEF Spec

\* A protect callback that says continue, other than one cut off by a dropped
\* engine, has named every hash stored when its snapshot was taken
\* (ProtectCallbackHandler, content_hashes).
THEOREM ProtectNamesEveryHash == Spec => []ProtectIsComplete
<1>1. ProtectInv => ProtectIsComplete
  BY DEF ProtectInv
<1> QED
  BY <1>1, ProtectInvInit, ProtectInvStep, FilesHold, PTL DEF Spec
-----------------------------------------------------------------------------
(* The replica stays dropped                                               *)

\* Nothing a start or a commit could bring the replica back from.
Gone ==
    /\ source.format # "tuples"
    /\ pc \notin {"copy", "rename", "persist"}
    /\ source.namespaces_1 = "none" /\ source.namespaces_2 = "none"
    /\ IsOpen => vis.namespaces_2 = "none"

LEMMA GoneStays == FileInv /\ Gone /\ [Next]_vars => Gone'
<1> SUFFICES ASSUME FileInv, Gone, [Next]_vars PROVE Gone'
  OBVIOUS
<1>t. source \in FileRecs /\ vis \in FileRecs
  BY DEF FileInv, FilesTyped
<1>o. IsOpen => vis.format = "new" /\ vis.namespaces_1 = "none"
  BY DEF FileInv, RewriteInv, TablesInv
<1>q. ASSUME UNCHANGED source, vis'.namespaces_2 \in {vis.namespaces_2, "none"},
             IsOpen' => IsOpen, pc' \notin {"copy", "rename", "persist"}
      PROVE  Gone'
  BY <1>q DEF Gone
<1>f. ASSUME IsOpen, source' = vis, pc' \notin {"copy", "rename", "persist"},
             vis' = vis \/ pc' = "down"
      PROVE  Gone'
  BY <1>f, <1>o DEF Gone, IsOpen
<1>1. CASE Start
  BY <1>1, EmptyFileHasNothing DEF Start, Open, Gone, IsOpen
<1>2. CASE StoreStep
  <2>1. CASE Setup
    <3>1. /\ pc' = "m1"
          /\ source' = [source EXCEPT !.format = "new",
                                      !.tables = @ \cup (TableNames \ {"namespaces-1"})]
      BY <2>1 DEF Setup, Mismatch, Gone
    <3>2. /\ source'.format = "new" /\ source'.namespaces_1 = source.namespaces_1
          /\ source'.namespaces_2 = source.namespaces_2
      BY <1>t, <3>1 DEF FileRecs
    <3> QED
      BY <3>1, <3>2 DEF Gone, IsOpen
  <2>2. CASE migration_001
    <3>1. /\ source'.format = source.format /\ source'.namespaces_1 = source.namespaces_1
          /\ source'.namespaces_2 = source.namespaces_2 /\ pc' = "m2"
      BY <1>t, <2>2 DEF migration_001, Migration, FileRecs
    <3> QED
      BY <3>1 DEF Gone, IsOpen
  <2>3. CASE migration_002
    BY <2>3 DEF migration_002, Migration, Gone, IsOpen
  <2>4. CASE migration_003
    <3>1. /\ source'.format = source.format /\ source'.namespaces_1 = "none"
          /\ source'.namespaces_2 = source.namespaces_2 /\ pc' = "m4"
      BY <1>t, <2>4 DEF migration_003, Migration, FileRecs
    <3> QED
      BY <3>1 DEF Gone, IsOpen
  <2>5. CASE migration_004
    <3>1. /\ source'.format = source.format /\ source'.namespaces_1 = source.namespaces_1
          /\ source'.namespaces_2 = source.namespaces_2 /\ pc' = "load" /\ vis' = source'
      BY <1>t, <2>5 DEF migration_004, FileRecs
    <3> QED
      BY <3>1 DEF Gone, IsOpen
  <2> QED
    BY <1>2, <2>1, <2>2, <2>3, <2>4, <2>5
    DEF StoreStep, Starting, Open, Copy, Rename, PersistTarget, RewriteFails, Gone
<1>3. CASE LoadAuthorFile
  BY <1>3, <1>q, EmptyFileHasNothing
  DEF LoadAuthorFile, SpawnFails, fileVars, IsOpen, NoFile, EmptyFile
<1>4. ASSUME NEW a \in Authors, CreateAuthor(a) \/ ImportAuthor(a) \/ author_delete(a)
      PROVE  Gone'
  <2>1. vis'.namespaces_2 = vis.namespaces_2
    BY <1>t, <1>4 DEF CreateAuthor, ImportAuthor, author_delete, FileRecs
  <2> QED
    BY <1>q, <1>4, <2>1
    DEF CreateAuthor, ImportAuthor, author_delete, Serving, IsOpen, fileVars
<1>5. ASSUME NEW id \in Ids, NEW r \in Records, insert(id, r) PROVE Gone'
  BY <1>5 DEF insert, Serving, IsOpen, Gone
<1>6. CASE doc_drop
  BY <1>6 DEF doc_drop, Serving, IsOpen, Gone
<1>7. CASE \/ FlushAuthor \/ Tick \/ Shutdown \/ DropEngine
           \/ \E q \in Queries : get_many(q)
           \/ (ProtectSnapshot /\ pc = "running")
  <2>1. IsOpen /\ source' = vis /\ (vis' = vis \/ pc' = "down")
    BY <1>7 DEF FlushAuthor, Tick, Shutdown, DropEngine, get_many, ProtectSnapshot, Serving,
                IsOpen, Flush
  <2>2. pc' \notin {"copy", "rename", "persist"}
    BY <1>7 DEF FlushAuthor, Tick, Shutdown, DropEngine, get_many, ProtectSnapshot, Gone
  <2> QED
    BY <1>f, <2>1, <2>2
<1>8. CASE \/ TruncateNewFile \/ WriteNewFile \/ DeleteAuthorFile \/ FinishSetDefault
           \/ IteratorStep \/ ProtectAsk \/ ProtectTaken \/ ProtectError \/ ProtectEnd
           \/ (ProtectSnapshot /\ pc # "running")
           \/ \E h \in Hashes : ProtectHash(h)
           \/ \E a \in Authors : author_set_default(a)
           \/ UNCHANGED vars
  <2>1. UNCHANGED <<source, vis>> /\ (pc' = pc \/ (IsOpen /\ pc' \in {"write", "running"}))
    BY <1>8, Zenon DEF TruncateNewFile, WriteNewFile, DeleteAuthorFile, FinishSetDefault,
                IteratorStep, ProtectAsk, ProtectTaken, ProtectError, ProtectEnd,
                ProtectSnapshot, ProtectHash, author_set_default, fileVars, vars, IsOpen
  <2> QED
    BY <2>1, SMTT(30) DEF Gone, IsOpen
<1>9. CASE Crash
  BY <1>9 DEF Crash, Dies, Gone, IsOpen
<1> QED
  BY <1>1, <1>2, <1>3, <1>4, <1>5, <1>6, <1>7, <1>8, <1>9 DEF Next

\* A replica whose removal is committed in an open store is in no file a later
\* start opens (remove_replica, migrations 002 and 003).
THEOREM DroppedForGood == Spec => DroppedStaysDropped
<1>1. FileInv /\ IsOpen /\ source.namespaces_2 = "none" => Gone
  BY DEF FileInv, RewriteInv, TablesInv, Gone, IsOpen
<1>2. Gone => source.namespaces_2 = "none"
  BY DEF Gone
<1> QED
  BY <1>1, <1>2, GoneStays, FilesHold, PTL DEF Spec, DroppedStaysDropped

-----------------------------------------------------------------------------
(* From here on Zenon is the prover of a leaf that names no other.  Both   *)
(* provers have time for the many definitions and lemmas in scope.         *)

USE ZenonT(30)

-----------------------------------------------------------------------------
(* Byte strings and their order                                            *)

LEMMA HasMin ==
    ASSUME NEW S \in SUBSET Nat, S # {}
    PROVE  \E i \in S : \A j \in S : i <= j
<1> DEFINE R == OpToRel(<, Nat)
<1>1. IsWellFoundedOn(R, Nat)
  BY NatLessThanWellFounded
<1>2. PICK i \in S : \A j \in S : ~ (<<j, i>> \in R)
  <2> HIDE DEF R
  <2> QED
    BY <1>1, WFMin
<1>3. \A j \in S : ~ (j < i)
  BY <1>2 DEF OpToRel
<1> QED
  BY <1>3, SMTT(30)

LEMMA SameChars ==
    ASSUME NEW S, NEW j \in Seq(S), NEW k \in Seq(S), Len(j) = Len(k),
           \A i \in 1 .. Len(j) : j[i] = k[i]
    PROVE  j = k
  BY SMTT(30)

LEMMA FirstChars ==
    ASSUME NEW S, NEW k \in Seq(S), NEW n \in Nat, n <= Len(k)
    PROVE  /\ Len(SubSeq(k, 1, n)) = n /\ SubSeq(k, 1, n) \in Seq(S)
           /\ \A i \in 1 .. n : SubSeq(k, 1, n)[i] = k[i]
<1>1. Len(SubSeq(k, 1, n)) = n
  BY SMTT(30)
<1>2. SubSeq(k, 1, n) \in Seq(S)
  BY SMTT(30)
<1>3. \A i \in 1 .. n : SubSeq(k, 1, n)[i] = k[i]
  BY SMTT(30)
<1> QED
  BY <1>1, <1>2, <1>3

LEMMA PrefixChars ==
    ASSUME NEW p \in Seq(0 .. MaxByte), NEW k \in Seq(0 .. MaxByte)
    PROVE  IsPrefixOf(p, k) <=> Len(p) <= Len(k) /\ \A i \in 1 .. Len(p) : p[i] = k[i]
<1>1. Len(p) \in Nat
  BY SMTT(30)
<1>2. ASSUME Len(p) <= Len(k)
      PROVE  /\ Len(SubSeq(k, 1, Len(p))) = Len(p)
             /\ SubSeq(k, 1, Len(p)) \in Seq(0 .. MaxByte)
             /\ \A i \in 1 .. Len(p) : SubSeq(k, 1, Len(p))[i] = k[i]
  BY <1>1, <1>2, FirstChars
<1>3. ASSUME Len(p) <= Len(k)
      PROVE  p = SubSeq(k, 1, Len(p)) <=> \A i \in 1 .. Len(p) : p[i] = k[i]
  BY <1>2, <1>3, SameChars
<1> QED
  BY <1>3 DEF IsPrefixOf

LEMMA KeyLessChars ==
    ASSUME NEW j \in Keys, NEW k \in Keys
    PROVE  /\ Len(j) \in Nat /\ Len(k) \in Nat
           /\ \A i \in 1 .. Len(j) : j[i] \in Int
           /\ \A i \in 1 .. Len(k) : k[i] \in Int
           /\ KeyLess(j, k) <=>
                 \/ Len(j) < Len(k) /\ \A h \in 1 .. Len(j) : j[h] = k[h]
                 \/ \E i \in 1 .. Len(j) : /\ i <= Len(k) /\ j[i] < k[i]
                                           /\ \A h \in 1 .. i - 1 : j[h] = k[h]
<1>1. j \in Seq(0 .. MaxByte) /\ k \in Seq(0 .. MaxByte) /\ MaxByte \in Nat
  BY EntriesAssumption
<1>2. /\ Len(j) \in Nat /\ Len(k) \in Nat /\ DOMAIN j = 1 .. Len(j) /\ DOMAIN k = 1 .. Len(k)
      /\ \A i \in 1 .. Len(j) : j[i] \in Int
      /\ \A i \in 1 .. Len(k) : k[i] \in Int
  BY <1>1, SMTT(30)
<1>3. IsPrefixOf(j, k) /\ j # k <=> Len(j) < Len(k) /\ \A h \in 1 .. Len(j) : j[h] = k[h]
  <2>1. IsPrefixOf(j, k) <=> Len(j) <= Len(k) /\ \A h \in 1 .. Len(j) : j[h] = k[h]
    BY <1>1, PrefixChars
  <2>2. Len(j) = Len(k) /\ (\A h \in 1 .. Len(j) : j[h] = k[h]) => j = k
    BY <1>1, SameChars
  <2>3. j = k => Len(j) = Len(k)
    OBVIOUS
  <2> QED
    <3> DEFINE Same == \A h \in 1 .. Len(j) : j[h] = k[h]
    <3>1. Len(j) \in Nat /\ Len(k) \in Nat
      BY <1>2
    <3>2. /\ Len(j) <= Len(k) <=> (Len(j) < Len(k) \/ Len(j) = Len(k))
          /\ ~ (Len(j) < Len(k) /\ Len(j) = Len(k))
      BY <3>1, SMTT(30)
    <3> HIDE DEF Same
    <3> QED
      BY <2>1, <2>2, <2>3, <3>1, <3>2 DEF Same
<1>4. \A i : i \in DOMAIN j \cap DOMAIN k <=> i \in 1 .. Len(j) /\ i <= Len(k)
  BY <1>2, SMTT(30)
<1> QED
  BY <1>2, <1>3, <1>4 DEF KeyLess

LEMMA KeyLessIrreflexive == \A k \in Keys : ~ KeyLess(k, k)
<1> TAKE k \in Keys
<1> QED
  BY KeyLessChars, SMTT(30)

LEMMA KeyLessTotal ==
    ASSUME NEW j \in Keys, NEW k \in Keys, j # k
    PROVE  KeyLess(j, k) \/ KeyLess(k, j)
<1>1. j \in Seq(0 .. MaxByte) /\ k \in Seq(0 .. MaxByte)
  BY EntriesAssumption
<1>2. /\ Len(j) \in Nat /\ Len(k) \in Nat
      /\ \A i \in 1 .. Len(j) : j[i] \in Int
      /\ \A i \in 1 .. Len(k) : k[i] \in Int
  BY KeyLessChars
<1> DEFINE D == {i \in 1 .. Len(j) : i <= Len(k) /\ j[i] # k[i]}
<1>3. CASE D = {}
  <2>1. \A i \in 1 .. Len(j) : i <= Len(k) => j[i] = k[i]
    BY <1>3
  <2>2. CASE Len(j) = Len(k)
    <3>1. \A i \in 1 .. Len(j) : j[i] = k[i]
      BY <1>2, <2>1, <2>2, SMTT(30)
    <3> QED
      BY <1>1, <2>2, <3>1, SameChars
  <2>3. CASE Len(j) < Len(k)
    BY <1>2, <2>1, <2>3, KeyLessChars, SMTT(30)
  <2>4. CASE Len(k) < Len(j)
    <3>1. \A i \in 1 .. Len(k) : k[i] = j[i]
      BY <1>2, <2>1, <2>4, SMTT(30)
    <3> QED
      BY <2>4, <3>1, KeyLessChars
  <2> QED
    BY <1>2, <2>2, <2>3, <2>4, SMTT(30)
<1>4. CASE D # {}
  <2>1. D \in SUBSET Nat
    BY <1>2, SMTT(30)
  <2>2. PICK i \in D : \A h \in D : i <= h
    <3> HIDE DEF D
    <3> QED
      BY <1>4, <2>1, HasMin
  <2>3. \A h \in 1 .. i - 1 : j[h] = k[h]
    BY <1>2, <2>2, SMTT(30)
  <2>4. i \in 1 .. Len(j) /\ i \in 1 .. Len(k) /\ i <= Len(j) /\ i <= Len(k)
    BY <1>2, SMTT(30)
  <2>5. j[i] < k[i] \/ k[i] < j[i]
    BY <1>2, <2>4, SMTT(30)
  <2>6. CASE j[i] < k[i]
    BY <2>3, <2>4, <2>6, KeyLessChars
  <2>7. CASE k[i] < j[i]
    <3>1. \A h \in 1 .. i - 1 : k[h] = j[h]
      BY <2>3
    <3> QED
      BY <2>4, <2>7, <3>1, KeyLessChars
  <2> QED
    BY <2>5, <2>6, <2>7
<1> QED
  BY <1>3, <1>4

LEMMA KeyLessTransitive ==
    ASSUME NEW j \in Keys, NEW k \in Keys, NEW l \in Keys, KeyLess(j, k), KeyLess(k, l)
    PROVE  KeyLess(j, l)
<1>1. /\ Len(j) \in Nat /\ Len(k) \in Nat /\ Len(l) \in Nat
      /\ \A i \in 1 .. Len(j) : j[i] \in Int
      /\ \A i \in 1 .. Len(k) : k[i] \in Int
      /\ \A i \in 1 .. Len(l) : l[i] \in Int
  BY KeyLessChars
<1> DEFINE Pre(a, b) == Len(a) < Len(b) /\ \A h \in 1 .. Len(a) : a[h] = b[h]
           At(a, b, i) == /\ i \in 1 .. Len(a) /\ i <= Len(b) /\ a[i] < b[i]
                          /\ \A h \in 1 .. i - 1 : a[h] = b[h]
<1>2. (Pre(j, k) \/ \E i : At(j, k, i)) /\ (Pre(k, l) \/ \E i : At(k, l, i))
  BY KeyLessChars
<1>3. ASSUME Pre(j, l) \/ \E i : At(j, l, i) PROVE KeyLess(j, l)
  BY <1>3, KeyLessChars
<1>4. CASE Pre(j, k) /\ Pre(k, l)
  <2>1. Pre(j, l)
    BY <1>1, <1>4, SMTT(30)
  <2> QED
    BY <1>3, <2>1
<1>5. ASSUME NEW i, Pre(j, k), At(k, l, i) PROVE KeyLess(j, l)
  <2>1. CASE i <= Len(j)
    <3>1. At(j, l, i)
      BY <1>1, <1>5, <2>1, SMTT(30)
    <3> QED
      BY <1>3, <3>1
  <2>2. CASE Len(j) < i
    <3>1. Pre(j, l)
      BY <1>1, <1>5, <2>2, SMTT(30)
    <3> QED
      BY <1>3, <3>1
  <2> QED
    BY <1>1, <1>5, <2>1, <2>2, SMTT(30)
<1>6. ASSUME NEW i, At(j, k, i), Pre(k, l) PROVE KeyLess(j, l)
  <2>1. At(j, l, i)
    BY <1>1, <1>6, SMTT(30)
  <2> QED
    BY <1>3, <2>1
<1>7. ASSUME NEW i, NEW m, At(j, k, i), At(k, l, m) PROVE KeyLess(j, l)
  <2>1. i \in Int /\ m \in Int
    BY <1>7, SMTT(30)
  <2>2. CASE i < m
    <3>1. At(j, l, i)
      BY <1>1, <1>7, <2>1, <2>2, SMTT(30)
    <3> QED
      BY <1>3, <3>1
  <2>3. CASE m < i
    <3>1. At(j, l, m)
      BY <1>1, <1>7, <2>1, <2>3, SMTT(30)
    <3> QED
      BY <1>3, <3>1
  <2>4. CASE i = m
    <3>1. At(j, l, i)
      BY <1>1, <1>7, <2>1, <2>4, SMTT(30)
    <3> QED
      BY <1>3, <3>1
  <2> QED
    BY <2>1, <2>2, <2>3, <2>4, SMTT(30)
<1> HIDE DEF Pre, At
<1> QED
  BY <1>2, <1>4, <1>5, <1>6, <1>7

LEMMA PrefixInRange ==
    ASSUME NEW p \in Keys, NEW k \in Keys, IsPrefixOf(p, k)
    PROVE  k \in author_prefix[p]
<1>1. p \in Seq(0 .. MaxByte) /\ k \in Seq(0 .. MaxByte) /\ MaxByte \in Nat
  BY EntriesAssumption
<1>2. /\ Len(p) \in Nat /\ Len(k) \in Nat /\ DOMAIN p = 1 .. Len(p) /\ DOMAIN k = 1 .. Len(k)
      /\ \A i \in 1 .. Len(p) : p[i] \in 0 .. MaxByte /\ p[i] \in Int
  BY <1>1, SMTT(30)
<1>3. Len(p) <= Len(k) /\ \A i \in 1 .. Len(p) : p[i] = k[i]
  BY <1>1, PrefixChars
<1>4. ~ KeyLess(k, p)
  <2>1. ~ (IsPrefixOf(k, p) /\ k # p)
    <3> SUFFICES ASSUME IsPrefixOf(k, p) PROVE k = p
      OBVIOUS
    <3>1. Len(k) <= Len(p)
      BY <1>1, PrefixChars
    <3>2. Len(k) = Len(p)
      <4>1. Len(p) \in Int /\ Len(k) \in Int /\ Len(p) <= Len(k)
        BY <1>2, <1>3, SMTT(30)
      <4> QED
        BY <3>1, <4>1, SMTT(30)
    <3> QED
      <4>1. \A i \in 1 .. Len(p) : p[i] = k[i]
        BY <1>3
      <4>2. Len(p) = Len(k)
        BY <3>2
      <4> QED
        BY <1>1, <4>1, <4>2, SameChars
  <2>2. ASSUME NEW i \in DOMAIN k \cap DOMAIN p, k[i] < p[i] PROVE FALSE
    BY <1>2, <1>3, <2>2, SMTT(30)
  <2> QED
    BY <2>1, <2>2 DEF KeyLess
<1>5. ASSUME BelowMax(p) # {} PROVE KeyLess(k, increment_by_one(p))
  <2>1. BelowMax(p) \in SUBSET (1 .. Len(p)) /\ BelowMax(p) \in SUBSET (0 .. Len(p))
    BY <1>2, SMTT(30) DEF BelowMax
  <2>2. \E i \in BelowMax(p) : \A j \in BelowMax(p) : j <= i
    BY <1>2, <1>5, <2>1, HasMax
  <2> DEFINE i == CHOOSE i \in BelowMax(p) : \A j \in BelowMax(p) : j <= i
  <2>3. i \in BelowMax(p)
    BY <2>2
  <2>4. increment_by_one(p) =
            [j \in DOMAIN p |-> IF j < i THEN p[j] ELSE IF j = i THEN p[j] + 1 ELSE 0]
    BY DEF increment_by_one
  <2> HIDE DEF i
  <2>5. /\ i \in 1 .. Len(p) /\ i \in DOMAIN k /\ i \in DOMAIN increment_by_one(p)
        /\ increment_by_one(p)[i] = p[i] + 1
        /\ \A h \in 1 .. i - 1 : increment_by_one(p)[h] = p[h] /\ h \in 1 .. Len(p)
    BY <1>2, <1>3, <2>1, <2>3, <2>4, SMTT(30)
  <2>6. k[i] < increment_by_one(p)[i] /\ \A h \in 1 .. i - 1 : k[h] = increment_by_one(p)[h]
    BY <1>2, <1>3, <2>5, SMTT(30)
  <2> QED
    BY <2>5, <2>6 DEF KeyLess
<1> QED
  BY <1>4, <1>5 DEF author_prefix

-----------------------------------------------------------------------------
(* Ranks in a finite set with an order                                     *)

StrictOrder(S, R) ==
    /\ \A i \in S : <<i, i>> \notin R
    /\ \A i, j \in S : i # j => <<i, j>> \in R \/ <<j, i>> \in R
    /\ \A i, j, k \in S : <<i, j>> \in R /\ <<j, k>> \in R => <<i, k>> \in R

Below(S, R, i) == {j \in S : <<j, i>> \in R}

LEMMA RankGrows ==
    ASSUME NEW S, IsFiniteSet(S), NEW R, StrictOrder(S, R), NEW i \in S, NEW j \in S,
           <<i, j>> \in R
    PROVE  /\ Cardinality(Below(S, R, i)) \in Nat
           /\ Cardinality(Below(S, R, j)) \in Nat
           /\ Cardinality(Below(S, R, i)) < Cardinality(Below(S, R, j))
<1>1. /\ IsFiniteSet(Below(S, R, i)) /\ IsFiniteSet(Below(S, R, j))
  <2>1. Below(S, R, i) \in SUBSET S /\ Below(S, R, j) \in SUBSET S
    BY DEF Below
  <2> QED
    BY <2>1, FS_Subset
<1>2. Below(S, R, i) \cup {i} \in SUBSET Below(S, R, j) /\ i \notin Below(S, R, i)
  BY DEF Below, StrictOrder
<1>3. /\ IsFiniteSet(Below(S, R, i) \cup {i})
      /\ Cardinality(Below(S, R, i) \cup {i}) = Cardinality(Below(S, R, i)) + 1
  BY <1>1, <1>2, FS_AddElement
<1>4. Cardinality(Below(S, R, i) \cup {i}) <= Cardinality(Below(S, R, j))
  BY <1>1, <1>2, FS_Subset
<1>5. Cardinality(Below(S, R, i)) \in Nat /\ Cardinality(Below(S, R, j)) \in Nat
  BY <1>1, FS_CardinalityType
<1> QED
  BY <1>3, <1>4, <1>5, SMTT(30)

LEMMA SameRank ==
    ASSUME NEW S, IsFiniteSet(S), NEW R, StrictOrder(S, R), NEW i \in S, NEW j \in S,
           Cardinality(Below(S, R, i)) = Cardinality(Below(S, R, j))
    PROVE  i = j
<1> SUFFICES ASSUME i # j PROVE FALSE
  OBVIOUS
<1>1. <<i, j>> \in R \/ <<j, i>> \in R
  BY DEF StrictOrder
<1> DEFINE a == Cardinality(Below(S, R, i))
           b == Cardinality(Below(S, R, j))
<1>2. a \in Nat /\ b \in Nat /\ (a < b \/ b < a)
  BY <1>1, RankGrows
<1>3. a = b
  OBVIOUS
<1> HIDE DEF a, b
<1> QED
  BY <1>2, <1>3, SMTT(30)

\* Every rank below the size of the set is some element's.
LEMMA RankExists ==
    ASSUME NEW S, IsFiniteSet(S), NEW R, StrictOrder(S, R),
           NEW n \in Nat, n < Cardinality(S)
    PROVE  \E i \in S : Cardinality(Below(S, R, i)) = n
<1> DEFINE N == Cardinality(S)
           T == 0 .. (N - 1)
           f == [i \in S |-> Cardinality(Below(S, R, i))]
<1>1. N \in Nat
  BY FS_CardinalityType
<1>2. ASSUME NEW i \in S PROVE Cardinality(Below(S, R, i)) \in T
  <2>1. Below(S, R, i) \in SUBSET (S \ {i})
    BY DEF Below, StrictOrder
  <2>2. IsFiniteSet(S \ {i}) /\ Cardinality(S \ {i}) = N - 1
    BY FS_RemoveElement
  <2>3. /\ IsFiniteSet(Below(S, R, i))
        /\ Cardinality(Below(S, R, i)) <= Cardinality(S \ {i})
    BY <2>1, <2>2, FS_Subset
  <2>4. Cardinality(Below(S, R, i)) \in Nat
    BY <2>3, FS_CardinalityType
  <2> HIDE DEF N
  <2> QED
    BY <1>1, <2>2, <2>3, <2>4, SMTT(30)
<1>3. f \in [S -> T]
  BY <1>2
<1>4. \A i, j \in S : f[i] = f[j] => i = j
  BY SameRank
<1>5. IsFiniteSet(T) /\ Cardinality(T) = N
  <2>1. 0 \in Int /\ N - 1 \in Int /\ (0 > N - 1 <=> N = 0) /\ (N - 1) - 0 + 1 = N
    BY <1>1, SMTT(30)
  <2> HIDE DEF N
  <2>2. IsFiniteSet(0 .. (N - 1)) /\
        Cardinality(0 .. (N - 1)) = IF 0 > N - 1 THEN 0 ELSE (N - 1) - 0 + 1
    BY <2>1, FS_Interval
  <2> QED
    BY <2>1, <2>2, SMTT(30)
<1> HIDE DEF N, T
<1>6. f \in Injection(S, T)
  <2> HIDE DEF f
  <2> QED
    BY <1>3, <1>4 DEF Injection, IsInjective
<1>7. f \in Surjection(S, T)
  <2> HIDE DEF f
  <2> QED
    BY <1>5, <1>6, FS_Injection DEF N
<1>8. n \in T
  BY <1>1, SMTT(30) DEF N, T
<1>9. PICK i \in S : f[i] = n
  <2> HIDE DEF f
  <2> QED
    BY <1>7, <1>8 DEF Surjection
<1> QED
  BY <1>9

LEMMA FirstExists ==
    ASSUME NEW S, IsFiniteSet(S), NEW R, StrictOrder(S, R), S # {}
    PROVE  \E i \in S : \A j \in S \ {i} : <<i, j>> \in R
<1>1. 0 \in Nat /\ 0 < Cardinality(S)
  <2>1. Cardinality(S) \in Nat /\ Cardinality(S) # 0
    BY FS_CardinalityType, FS_EmptySet
  <2> QED
    BY <2>1, SMTT(30)
<1>2. PICK i \in S : Cardinality(Below(S, R, i)) = 0
  BY <1>1, RankExists
<1>3. IsFiniteSet(Below(S, R, i))
  <2>1. Below(S, R, i) \in SUBSET S
    BY DEF Below
  <2> QED
    BY <2>1, FS_Subset
<1>4. Below(S, R, i) = {}
  BY <1>2, <1>3, FS_EmptySet
<1> QED
  BY <1>4 DEF Below, StrictOrder

-----------------------------------------------------------------------------
(* The order of the rows                                                   *)

LEMMA IdsFinite == IsFiniteSet(Ids)
BY QueryAssumption, FS_Product DEF Ids

LEMMA IdsTyped ==
    ASSUME NEW i \in Ids
    PROVE  i[1] \in Int /\ i[2] \in Keys /\ i = <<i[1], i[2]>>
<1>1. i[1] \in Authors /\ i[2] \in Keys /\ i = <<i[1], i[2]>>
  BY SMTT(30) DEF Ids
<1>2. Authors \subseteq Nat
  BY QueryAssumption
<1> QED
  BY <1>1, <1>2, SMTT(30)

LEMMA Irreflexive == \A i \in Ids : ~ AuthorKeyLess(i, i) /\ ~ KeyAuthorLess(i, i)
<1> TAKE i \in Ids
<1>1. ~ (i[1] < i[1]) /\ ~ KeyLess(i[2], i[2])
  BY IdsTyped, KeyLessIrreflexive, SMTT(30)
<1> QED
  BY <1>1 DEF AuthorKeyLess, KeyAuthorLess

LEMMA Total ==
    ASSUME NEW i \in Ids, NEW j \in Ids, i # j
    PROVE  /\ AuthorKeyLess(i, j) \/ AuthorKeyLess(j, i)
           /\ KeyAuthorLess(i, j) \/ KeyAuthorLess(j, i)
<1>1. i[1] < j[1] \/ j[1] < i[1] \/ i[1] = j[1]
  BY IdsTyped, SMTT(30)
<1>2. i[2] # j[2] => KeyLess(i[2], j[2]) \/ KeyLess(j[2], i[2])
  BY IdsTyped, KeyLessTotal
<1>3. i[1] = j[1] => i[2] # j[2]
  BY IdsTyped
<1> QED
  BY <1>1, <1>2, <1>3 DEF AuthorKeyLess, KeyAuthorLess

LEMMA Transitive ==
    ASSUME NEW i \in Ids, NEW j \in Ids, NEW k \in Ids
    PROVE  /\ AuthorKeyLess(i, j) /\ AuthorKeyLess(j, k) => AuthorKeyLess(i, k)
           /\ KeyAuthorLess(i, j) /\ KeyAuthorLess(j, k) => KeyAuthorLess(i, k)
<1>1. i[1] < j[1] /\ j[1] < k[1] => i[1] < k[1]
  BY IdsTyped, SMTT(30)
<1>2. KeyLess(i[2], j[2]) /\ KeyLess(j[2], k[2]) => KeyLess(i[2], k[2])
  BY IdsTyped, KeyLessTransitive
<1> QED
  BY <1>1, <1>2 DEF AuthorKeyLess, KeyAuthorLess

Order(q) == {p \in Ids \X Ids : Before(q, p[1], p[2])}

LEMMA OrderDef ==
    ASSUME NEW q, NEW i \in Ids, NEW j \in Ids
    PROVE  <<i, j>> \in Order(q) <=> Before(q, i, j)
BY SMTT(30) DEF Order

\* Rows come in a strict total order, from either end of either index.
LEMMA BeforeOrder == \A q : StrictOrder(Ids, Order(q))
<1> TAKE q
<1>1. \A i \in Ids : ~ Before(q, i, i)
  BY Irreflexive DEF Before
<1>2. \A i, j \in Ids : i # j => Before(q, i, j) \/ Before(q, j, i)
  BY Total DEF Before
<1>3. ASSUME NEW i \in Ids, NEW j \in Ids, NEW k \in Ids, Before(q, i, j), Before(q, j, k)
      PROVE  Before(q, i, k)
  BY <1>3, Transitive DEF Before
<1> QED
  BY <1>1, <1>2, <1>3, OrderDef DEF StrictOrder

LEMMA SubOrder ==
    ASSUME NEW q, NEW S \in SUBSET Ids
    PROVE  IsFiniteSet(S) /\ StrictOrder(S, Order(q))
<1>1. IsFiniteSet(S)
  BY IdsFinite, FS_Subset
<1> QED
  BY <1>1, BeforeOrder DEF StrictOrder

LEMMA BeforeIsStrict ==
    ASSUME NEW q, NEW i \in Ids, NEW j \in Ids, Before(q, i, j)
    PROVE  /\ i # j /\ ~ Before(q, j, i)
           /\ \A k \in Ids : Before(q, j, k) => Before(q, i, k)
<1>1. StrictOrder(Ids, Order(q)) /\ <<i, j>> \in Order(q)
  BY BeforeOrder, OrderDef
<1>2. i # j /\ <<j, i>> \notin Order(q)
  BY <1>1 DEF StrictOrder
<1>3. \A k \in Ids : <<j, k>> \in Order(q) => <<i, k>> \in Order(q)
  BY <1>1 DEF StrictOrder
<1> QED
  BY <1>2, <1>3, OrderDef

\* The rows of one key come together when they come by key.
LEMMA KeysComeTogether ==
    ASSUME NEW q, ~ ByAuthor(q), NEW i \in Ids, NEW j \in Ids, NEW k \in Ids,
           Before(q, i, j), Before(q, j, k) \/ j = k, i[2] = k[2]
    PROVE  i[2] = j[2]
<1> SUFFICES ASSUME i[2] # j[2] PROVE FALSE
  OBVIOUS
<1>1. /\ KeyLess(i[2], j[2]) => ~ KeyLess(j[2], i[2])
      /\ KeyLess(j[2], i[2]) => ~ KeyLess(i[2], j[2])
  BY IdsTyped, KeyLessTransitive, KeyLessIrreflexive
<1>2. CASE q.descending
  <2>1. KeyLess(j[2], i[2]) /\ KeyLess(k[2], j[2])
    BY <1>2 DEF Before, KeyAuthorLess
  <2> QED
    BY <1>1, <2>1
<1>3. CASE ~ q.descending
  <2>1. KeyLess(i[2], j[2]) /\ KeyLess(j[2], k[2])
    BY <1>3 DEF Before, KeyAuthorLess
  <2> QED
    BY <1>1, <2>1
<1> QED
  BY <1>2, <1>3

\* The order of the index that serves a query is the one asked for.
LEMMA SortedIsBefore ==
    ASSUME NEW q \in AllQueries, NEW i \in Ids, NEW j \in Ids,
           AuthorMatches(q.author, i[1]), AuthorMatches(q.author, j[1])
    PROVE  Sorted(q, i, j) <=> Before(q, i, j)
<1>1. CASE q.latest
  BY <1>1 DEF Sorted, Before, ByAuthor
<1>2. CASE ~ q.latest /\ q.author = {}
  BY <1>2 DEF Sorted, Before, ByAuthor
<1>3. CASE ~ q.latest /\ q.author # {}
  <2>1. i[1] = j[1]
    <3>1. q.author \in AuthorFilters
      BY SMTT(30) DEF AllQueries
    <3>2. PICK a \in Authors : q.author = {a}
      BY <1>3, <3>1 DEF AuthorFilters
    <3>3. i[1] \in {a} /\ j[1] \in {a}
      BY <1>3, <3>2 DEF AuthorMatches
    <3> QED
      BY <3>3
  <2>2. ~ (i[1] < j[1]) /\ ~ (j[1] < i[1])
    BY <2>1, IdsTyped, SMTT(30)
  <2>3. i[2] = j[2] => i = j
    BY <2>1, IdsTyped
  <2>4. \A a, b \in {i, j} : AuthorKeyLess(a, b) <=> KeyAuthorLess(a, b)
    <3>1. ~ (i[1] < i[1]) /\ ~ (j[1] < j[1])
      BY IdsTyped, SMTT(30)
    <3> QED
      BY <2>1, <2>2, <3>1 DEF AuthorKeyLess, KeyAuthorLess
  <2> QED
    BY <1>3, <2>4 DEF Sorted, Before, ByAuthor
<1> QED
  BY <1>1, <1>2, <1>3

-----------------------------------------------------------------------------
(* The rows of a range and the entries a query asks for                    *)

LEMMA RangeIsFilter ==
    ASSUME PrefixesAreExact, NEW q \in Queries, ByAuthor(q) => q.author # {}, NEW k \in Keys
    PROVE  k \in KeyRange(q.key) <=> KeyMatches(q.key, k)
<1>1. q.key \in KeyFilters
  <2>1. q \in AllQueries
    BY QueryAssumption
  <2> QED
    BY <2>1, SMTT(30) DEF AllQueries
<1>2. \/ q.key.kind = "any"
      \/ q.key.kind \in {"exact", "prefix"} /\ q.key.bytes \in Keys
  BY <1>1, SMTT(30) DEF KeyFilters
<1>3. CASE q.key.kind = "any"
  BY <1>3 DEF KeyRange, KeyMatches
<1>4. CASE q.key.kind = "exact"
  <2>1. q.key.kind # "any" /\ q.key.kind # "prefix"
    BY <1>4, SMTT(30)
  <2> QED
    BY <1>4, <2>1 DEF KeyRange, KeyMatches
<1>5. CASE q.key.kind = "prefix"
  <2>1. q.key.kind # "any" /\ q.key.kind # "exact"
    BY <1>5, SMTT(30)
  <2>2. q.key.bytes \in Keys
    BY <1>2, <2>1
  <2>3. KeyRange(q.key) = author_prefix[q.key.bytes]
    BY <2>1 DEF KeyRange
  <2>4. KeyMatches(q.key, k) <=> IsPrefixOf(q.key.bytes, k)
    BY <1>5, <2>1 DEF KeyMatches
  <2>5. IsPrefixOf(q.key.bytes, k) => k \in author_prefix[q.key.bytes]
    BY <2>2, PrefixInRange
  <2>6. k \in author_prefix[q.key.bytes] => IsPrefixOf(q.key.bytes, k)
    BY <1>5 DEF PrefixesAreExact
  <2> QED
    BY <2>3, <2>4, <2>5, <2>6
<1> QED
  BY <1>2, <1>3, <1>4, <1>5, SMTT(30)

LEMMA RangeHoldsMatches ==
    ASSUME PrefixesAreExact, NEW q \in Queries, NEW t, t.by_key \in SUBSET Ids,
           PresentIds(t) \in SUBSET t.by_key
    PROVE  RangeRows(t, q) \in SUBSET Ids /\ Matching(t.records, q) \in SUBSET RangeRows(t, q)
<1>1. ASSUME NEW id \in Matching(t.records, q)
      PROVE  /\ id \in Ids /\ Present(t.records, id) /\ id \in t.by_key
             /\ q.author # {} => id[1] \in q.author
             /\ (ByAuthor(q) => q.author # {}) => id[2] \in KeyRange(q.key)
  <2>1. /\ id \in Ids /\ Present(t.records, id) /\ AuthorMatches(q.author, id[1])
        /\ KeyMatches(q.key, id[2])
    BY DEF Matching
  <2>2. id \in t.by_key
    BY <2>1 DEF PresentIds
  <2>3. id[2] \in Keys
    BY <2>1, IdsTyped
  <2> QED
    BY <2>1, <2>2, <2>3, RangeIsFilter DEF AuthorMatches
<1>2. CASE ByAuthor(q)
  BY <1>1, <1>2 DEF RangeRows
<1>3. CASE ~ ByAuthor(q)
  BY <1>1, <1>3 DEF RangeRows
<1> QED
  BY <1>2, <1>3

\* What an iterator is made of.
Iterators == [phase : {"idle", "answering", "complete", "cut"}, query : AllQueries,
              asked : RecordTables,
              view : [records : RecordTables, by_key : SUBSET Ids],
              rows : SUBSET Ids, selected : SUBSET Ids, skipped : Nat,
              out : Seq(Ids \X Records)]

\* next_filtered passes over the rows that do not match, and by author also over
\* the tombstones that were not asked for.
LEMMA PassingRows ==
    ASSUME PrefixesAreExact, it.query \in Queries, it.view.records = it.asked,
           NEW id \in RangeRows(it.view, it.query), id \in Ids
    PROVE  Passes(id) <=>
              /\ id \in Matching(it.asked, it.query)
              /\ ByAuthor(it.query) =>
                     it.query.include_empty \/ ~ IsEmpty(it.asked[id])
<1> DEFINE q == it.query
<1>1. id[2] \in Keys
  BY IdsTyped
<1>2. (ByAuthor(q) => q.author # {}) => (id[2] \in KeyRange(q.key) <=> KeyMatches(q.key, id[2]))
  BY <1>1, RangeIsFilter
<1>3. CASE ByAuthor(q) /\ q.author = {}
  <2>1. Present(it.asked, id) /\ AuthorMatches(q.author, id[1])
    BY <1>3 DEF RangeRows, AuthorMatches
  <2> QED
    BY <1>3, <2>1 DEF Passes, Matching
<1>4. CASE ByAuthor(q) /\ q.author # {}
  <2>1. Present(it.asked, id) /\ AuthorMatches(q.author, id[1]) /\ KeyMatches(q.key, id[2])
    BY <1>2, <1>4 DEF RangeRows, AuthorMatches
  <2> QED
    BY <1>4, <2>1 DEF Passes, Matching
<1>5. CASE ~ ByAuthor(q)
  <2>1. KeyMatches(q.key, id[2])
    BY <1>2, <1>5 DEF RangeRows
  <2> QED
    BY <1>5, <2>1 DEF Passes, Matching
<1> QED
  BY <1>3, <1>4, <1>5

-----------------------------------------------------------------------------
(* The answer, by rank                                                     *)

AnswerLen(rec, q) ==
    LET n == Cardinality(Selected(rec, q)) - q.offset
    IN  IF n < 0 THEN 0 ELSE IF q.limit = NoLimit \/ n < q.limit THEN n ELSE q.limit

Item(rec, q, n) == <<Ranked(q, Selected(rec, q), n), rec[Ranked(q, Selected(rec, q), n)]>>

LEMMA SelectedIds ==
    ASSUME NEW rec, NEW q
    PROVE  /\ Selected(rec, q) \in SUBSET Matching(rec, q)
           /\ Selected(rec, q) \in SUBSET Ids /\ Matching(rec, q) \in SUBSET Ids
           /\ IsFiniteSet(Selected(rec, q)) /\ StrictOrder(Selected(rec, q), Order(q))
           /\ Cardinality(Selected(rec, q)) \in Nat
<1>1. Selected(rec, q) \in SUBSET Matching(rec, q)
  BY DEF Selected, LatestPerKey
<1>2. Matching(rec, q) \in SUBSET Ids
  BY DEF Matching
<1>3. Selected(rec, q) \in SUBSET Ids
  BY <1>1, <1>2
<1>4. IsFiniteSet(Selected(rec, q)) /\ StrictOrder(Selected(rec, q), Order(q))
  BY <1>3, SubOrder
<1>5. Cardinality(Selected(rec, q)) \in Nat
  BY <1>4, FS_CardinalityType
<1> QED
  BY <1>1, <1>2, <1>3, <1>4, <1>5

LEMMA BelowIsSorted ==
    ASSUME NEW q \in AllQueries, NEW rec, NEW i \in Selected(rec, q)
    PROVE  {j \in Selected(rec, q) : Sorted(q, j, i)} = Below(Selected(rec, q), Order(q), i)
<1>1. \A j \in Selected(rec, q) : j \in Ids /\ AuthorMatches(q.author, j[1])
  BY SelectedIds DEF Matching
<1>2. \A j \in Selected(rec, q) : Sorted(q, j, i) <=> <<j, i>> \in Order(q)
  BY <1>1, SortedIsBefore, OrderDef
<1> QED
  BY <1>2 DEF Below

LEMMA RankedIs ==
    ASSUME NEW q \in AllQueries, NEW rec, NEW id \in Selected(rec, q)
    PROVE  Ranked(q, Selected(rec, q), Cardinality(Below(Selected(rec, q), Order(q), id))) = id
<1> DEFINE S == Selected(rec, q)
           n == Cardinality(Below(S, Order(q), id))
           P(i) == Cardinality({j \in S : Sorted(q, j, i)}) = n
<1>1. \A i \in S : P(i) <=> Cardinality(Below(S, Order(q), i)) = n
  BY BelowIsSorted
<1>2. P(id)
  BY <1>1
<1>3. ASSUME NEW i \in S, P(i) PROVE i = id
  <2>1. Cardinality(Below(S, Order(q), i)) = Cardinality(Below(S, Order(q), id))
    BY <1>1, <1>3
  <2>2. IsFiniteSet(S) /\ StrictOrder(S, Order(q)) /\ id \in S
    BY SelectedIds
  <2> HIDE DEF S, P
  <2> QED
    BY <2>1, <2>2, SameRank
<1>4. Ranked(q, S, n) = CHOOSE i \in S : P(i)
  BY DEF Ranked
<1> HIDE DEF P, S, n
<1>5. id \in S
  BY DEF S
<1>6. Ranked(q, S, n) = id
  BY <1>2, <1>3, <1>4, <1>5
<1> QED
  BY <1>6 DEF S, n

LEMMA RankedIn ==
    ASSUME NEW q \in AllQueries, NEW rec, NEW n \in Nat, n < Cardinality(Selected(rec, q))
    PROVE  Ranked(q, Selected(rec, q), n) \in Selected(rec, q)
<1>1. PICK id \in Selected(rec, q) : Cardinality(Below(Selected(rec, q), Order(q), id)) = n
  BY SelectedIds, RankExists
<1> QED
  BY <1>1, RankedIs

LEMMA ItemType ==
    ASSUME NEW q \in AllQueries, NEW rec \in RecordTables, NEW n \in Nat,
           n < Cardinality(Selected(rec, q))
    PROVE  Item(rec, q, n) \in Ids \X Records
<1> DEFINE id == Ranked(q, Selected(rec, q), n)
<1>1. id \in Matching(rec, q)
  BY RankedIn, SelectedIds
<1>2. id \in Ids /\ rec[id] # NoRecord
  BY <1>1 DEF Matching, Present
<1>3. rec[id] \in Records
  BY <1>2 DEF RecordTables
<1>4. Item(rec, q, n) = <<id, rec[id]>>
  BY DEF Item
<1> HIDE DEF id
<1> QED
  BY <1>2, <1>3, <1>4, SMTT(30)

LEMMA AnswerForm ==
    ASSUME NEW q \in AllQueries, NEW rec \in RecordTables
    PROVE  /\ Answer(rec, q) \in Seq(Ids \X Records)
           /\ AnswerLen(rec, q) \in Nat /\ Len(Answer(rec, q)) = AnswerLen(rec, q)
           /\ \A i \in 1 .. AnswerLen(rec, q) :
                 Answer(rec, q)[i] = Item(rec, q, q.offset + i - 1)
<1> DEFINE N == Cardinality(Selected(rec, q))
           len == AnswerLen(rec, q)
<1>1. N \in Nat
  BY SelectedIds
<1>2. q.offset \in Nat /\ q.limit \in Nat \cup {NoLimit}
  BY SMTT(30) DEF AllQueries
<1>3. len \in Nat /\ \A i \in 1 .. len : q.offset + i - 1 \in Nat /\ q.offset + i - 1 < N
  <2>1. len = IF N - q.offset < 0 THEN 0
              ELSE IF q.limit = NoLimit \/ N - q.offset < q.limit THEN N - q.offset
              ELSE q.limit
    BY DEF AnswerLen
  <2> HIDE DEF N, len
  <2> QED
    BY <1>1, <1>2, <2>1, SMTT(30) DEF NoLimit
<1>4. Answer(rec, q) = [i \in 1 .. len |-> Item(rec, q, q.offset + i - 1)]
  BY DEF Answer, Page, AnswerLen, Item
<1>5. \A i \in 1 .. len : Item(rec, q, q.offset + i - 1) \in Ids \X Records
  BY <1>3, ItemType
<1> HIDE DEF N, len
<1>6. /\ Answer(rec, q) \in Seq(Ids \X Records) /\ Len(Answer(rec, q)) = len
      /\ \A i \in 1 .. len : Answer(rec, q)[i] = Item(rec, q, q.offset + i - 1)
  BY <1>3, <1>4, <1>5, SMTT(30)
<1> QED
  BY <1>3, <1>6 DEF len

\* Without an author filter, or without a grouping, it is all one when the author
\* filter is applied.
LEMMA PromisedIsServed ==
    ASSUME NEW rec, NEW q \in AllQueries
    PROVE  PromisedFor(rec, q) = Answer(rec, q)
<1>1. CASE q.latest /\ q.author # {}
  BY <1>1 DEF PromisedFor
<1>2. CASE ~ q.latest
  <2>1. Documented(rec, q) = Selected(rec, q)
    BY <1>2 DEF Documented, Selected, KeyMatching, Matching
  <2> QED
    BY <1>2, <2>1 DEF PromisedFor, DocumentedAnswer, Answer
<1>3. CASE q.author = {}
  <2>1. KeyMatching(rec, q) = Matching(rec, q)
    BY <1>3 DEF KeyMatching, Matching, AuthorMatches
  <2>2. Documented(rec, q) = Selected(rec, q)
    BY <1>3, <2>1 DEF Documented, Selected, AuthorMatches
  <2> QED
    BY <1>3, <2>2 DEF PromisedFor, DocumentedAnswer, Answer
<1> QED
  BY <1>1, <1>2, <1>3

-----------------------------------------------------------------------------
(* Delivering                                                              *)

Limited(s) == s.query.limit # NoLimit /\ Len(s.out) >= s.query.limit

\* Of the n entries an iterator is through with, it has skipped the first offset
\* and delivered the others, the limit permitting.
Counts(s, n) ==
    /\ s.skipped <= s.query.offset
    /\ Len(s.out) > 0 => s.skipped = s.query.offset
    /\ n = s.skipped + Len(s.out)
    /\ s.query.limit # NoLimit => Len(s.out) <= s.query.limit
    /\ \A k \in 1 .. Len(s.out) :
          s.out[k] = Item(s.asked, s.query, s.query.offset + k - 1)

\* What is delivered next is what the answer has next.
NextOfAnswer(s, out) ==
    /\ Len(s.out) < Len(Answer(s.asked, s.query))
    /\ out = Append(s.out, Answer(s.asked, s.query)[Len(s.out) + 1])

LEMMA IteratorFields ==
    ASSUME NEW s \in Iterators
    PROVE  /\ s.query \in AllQueries /\ s.asked \in RecordTables
           /\ s.view.records \in RecordTables /\ s.view.by_key \in SUBSET Ids
           /\ s.rows \in SUBSET Ids /\ s.selected \in SUBSET Ids
           /\ s.skipped \in Nat /\ s.out \in Seq(Ids \X Records) /\ Len(s.out) \in Nat
           /\ s.query.offset \in Nat /\ s.query.limit \in Nat \cup {NoLimit}
<1>1. /\ s.query \in AllQueries /\ s.asked \in RecordTables
      /\ s.view \in [records : RecordTables, by_key : SUBSET Ids]
      /\ s.rows \in SUBSET Ids /\ s.selected \in SUBSET Ids
      /\ s.skipped \in Nat /\ s.out \in Seq(Ids \X Records)
  BY SMTT(30) DEF Iterators
<1>2. s.view.records \in RecordTables /\ s.view.by_key \in SUBSET Ids
  BY <1>1, SMTT(30)
<1>3. Len(s.out) \in Nat
  BY <1>1, SMTT(30)
<1>4. s.query.offset \in Nat /\ s.query.limit \in Nat \cup {NoLimit}
  BY <1>1, SMTT(30) DEF AllQueries
<1> QED
  BY <1>1, <1>2, <1>3, <1>4

\* Deliver changes what an iterator has skipped or put out, and nothing else.
LEMMA DeliverFields ==
    ASSUME NEW s \in Iterators, NEW id \in Ids, s.view.records = s.asked,
           s.asked[id] \in Records
    PROVE  /\ Deliver(s, id) \in Iterators
           /\ Deliver(s, id).phase = s.phase /\ Deliver(s, id).query = s.query
           /\ Deliver(s, id).asked = s.asked /\ Deliver(s, id).view = s.view
           /\ Deliver(s, id).rows = s.rows /\ Deliver(s, id).selected = s.selected
<1>1. CASE ~ s.query.include_empty /\ IsEmpty(s.view.records[id])
  BY <1>1 DEF Deliver
<1>2. CASE /\ ~ (~ s.query.include_empty /\ IsEmpty(s.view.records[id]))
           /\ s.skipped < s.query.offset
  <2>1. Deliver(s, id) = [s EXCEPT !.skipped = @ + 1]
    BY <1>2 DEF Deliver
  <2>2. s.skipped + 1 \in Nat
    BY IteratorFields, SMTT(30)
  <2> QED
    BY <2>1, <2>2 DEF Iterators
<1>3. CASE /\ ~ (~ s.query.include_empty /\ IsEmpty(s.view.records[id]))
           /\ ~ (s.skipped < s.query.offset)
  <2>1. Deliver(s, id) = [s EXCEPT !.out = Append(@, <<id, s.view.records[id]>>)]
    BY <1>3 DEF Deliver
  <2>2. Append(s.out, <<id, s.view.records[id]>>) \in Seq(Ids \X Records)
    <3>1. <<id, s.view.records[id]>> \in Ids \X Records
      BY SMTT(30)
    <3>2. s.out \in Seq(Ids \X Records)
      BY IteratorFields
    <3> QED
      BY <3>1, <3>2, SMTT(30)
  <2> QED
    BY <2>1, <2>2 DEF Iterators
<1> QED
  BY <1>1, <1>2, <1>3

\* One more entry, and what was there before it.
OneMore(o, x, p) ==
    /\ Len(p) = Len(o) + 1 /\ p[Len(o) + 1] = x
    /\ \A k \in 1 .. Len(o) : p[k] = o[k]

LEMMA Appended ==
    ASSUME NEW T, NEW o \in Seq(T), NEW x \in T
    PROVE  OneMore(o, x, Append(o, x))
BY SMTT(30) DEF OneMore

\* How many of c entries an offset and a limit leave.
Windowed(c, offset, limit) ==
    IF c - offset < 0 THEN 0
    ELSE IF limit = NoLimit \/ c - offset < limit THEN c - offset ELSE limit

\* An entry past the offset that the limit leaves room for is within the answer.
LEMMA RoomForOneMore ==
    ASSUME NEW c \in Nat, NEW offset \in Nat, NEW limit, NEW l \in Nat, offset + l < c,
           limit # NoLimit => l < limit /\ limit \in Nat
    PROVE  l < Windowed(c, offset, limit)
<1>1. ~ (c - offset < 0) /\ l < c - offset
  BY SMTT(30)
<1>2. CASE limit = NoLimit
  BY <1>1, <1>2 DEF Windowed
<1>3. CASE limit # NoLimit
  BY <1>1, <1>3, SMTT(30) DEF Windowed
<1> QED
  BY <1>2, <1>3

\* The next entry in order is skipped or goes out in its place.
LEMMA DeliverNext ==
    ASSUME NEW s \in Iterators, s.view.records = s.asked, ~ Limited(s),
           NEW id \in Selected(s.asked, s.query), NEW n \in Nat,
           n = Cardinality(Below(Selected(s.asked, s.query), Order(s.query), id)),
           Counts(s, n)
    PROVE  /\ Counts(Deliver(s, id), n + 1)
           /\ Deliver(s, id).out = s.out \/ NextOfAnswer(s, Deliver(s, id).out)
<1> DEFINE q == s.query
           u == Deliver(s, id)
           S == Selected(s.asked, q)
           e == Item(s.asked, q, n)
<1>1. /\ q \in AllQueries /\ s.asked \in RecordTables /\ s.skipped \in Nat
      /\ s.out \in Seq(Ids \X Records) /\ Len(s.out) \in Nat
      /\ q.offset \in Nat /\ q.limit \in Nat \cup {NoLimit}
  BY IteratorFields
<1>2. e = <<id, s.asked[id]>>
  BY <1>1, RankedIs DEF Item
<1>3. n < Cardinality(S) /\ Cardinality(S) \in Nat
  <2>1. Below(S, Order(q), id) \in SUBSET (S \ {id})
    BY SelectedIds DEF Below, StrictOrder
  <2>2. IsFiniteSet(S \ {id}) /\ Cardinality(S \ {id}) = Cardinality(S) - 1
    BY SelectedIds, FS_RemoveElement
  <2>3. n <= Cardinality(S \ {id})
    BY <2>1, <2>2, FS_Subset
  <2>4. Cardinality(S) \in Nat
    BY SelectedIds
  <2> QED
    BY <2>2, <2>3, <2>4, SMTT(30)
<1>4. ~ (~ q.include_empty /\ IsEmpty(s.view.records[id]))
  BY DEF Selected
<1>5. /\ s.skipped <= q.offset
      /\ Len(s.out) > 0 => s.skipped = q.offset
      /\ n = s.skipped + Len(s.out)
      /\ q.limit # NoLimit => Len(s.out) <= q.limit
      /\ \A k \in 1 .. Len(s.out) : s.out[k] = Item(s.asked, q, q.offset + k - 1)
  BY DEF Counts
<1>6. CASE s.skipped < q.offset
  <2>1. u = [s EXCEPT !.skipped = @ + 1]
    BY <1>4, <1>6 DEF Deliver
  <2>2. u.query = q /\ u.out = s.out /\ u.asked = s.asked /\ u.skipped = s.skipped + 1
    BY <2>1, SMTT(30) DEF Iterators
  <2>3. Len(s.out) = 0 /\ s.skipped + 1 <= q.offset /\ n + 1 = s.skipped + 1 + Len(s.out)
    BY <1>1, <1>5, <1>6, SMTT(30)
  <2>4. ~ (Len(s.out) > 0)
    BY <2>3, SMTT(30)
  <2> HIDE DEF u, q
  <2> QED
    BY <1>5, <2>2, <2>3, <2>4 DEF Counts, u, q
<1>7. CASE ~ (s.skipped < q.offset)
  <2>1. u = [s EXCEPT !.out = Append(@, e)]
    BY <1>2, <1>4, <1>7 DEF Deliver
  <2>2. /\ u.query = q /\ u.out = Append(s.out, e) /\ u.asked = s.asked
        /\ u.skipped = s.skipped
    BY <2>1, SMTT(30) DEF Iterators
  <2>3. s.skipped = q.offset /\ n = q.offset + Len(s.out)
    BY <1>1, <1>5, <1>7, SMTT(30)
  <2>4. e \in Ids \X Records
    BY <1>1, <1>3, ItemType
  <2>5. /\ Len(u.out) = Len(s.out) + 1 /\ u.out[Len(s.out) + 1] = e
        /\ \A k \in 1 .. Len(s.out) : u.out[k] = s.out[k]
    <3> HIDE DEF e, u
    <3>1. OneMore(s.out, e, Append(s.out, e))
      BY <1>1, <2>4, Appended
    <3>2. OneMore(s.out, e, u.out)
      BY <2>2, <3>1
    <3> QED
      BY <3>2 DEF OneMore
  <2>6. /\ n + 1 = s.skipped + Len(u.out)
        /\ q.limit # NoLimit => Len(u.out) <= q.limit
        /\ q.offset + (Len(s.out) + 1) - 1 = n
        /\ Len(s.out) < AnswerLen(s.asked, q)
    <3>1. q.limit # NoLimit => Len(s.out) < q.limit /\ q.limit \in Nat
      <4>1. q.limit # NoLimit => ~ (Len(s.out) >= q.limit) /\ q.limit \in Nat
        BY <1>1 DEF Limited
      <4> HIDE DEF q
      <4> QED
        BY <1>1, <4>1, SMTT(30)
    <3>2. AnswerLen(s.asked, q) = Windowed(Cardinality(S), q.offset, q.limit)
      BY DEF AnswerLen, Windowed
    <3> HIDE DEF S, u, q
    <3>3. q.offset + Len(s.out) < Cardinality(S)
      BY <1>3, <2>3
    <3>4. Len(s.out) < AnswerLen(s.asked, q)
      BY <1>1, <1>3, <3>1, <3>2, <3>3, RoomForOneMore
    <3>5. n + 1 = s.skipped + Len(u.out) /\ q.offset + (Len(s.out) + 1) - 1 = n
      BY <1>1, <2>3, <2>5, SMTT(30)
    <3>6. q.limit # NoLimit => Len(u.out) <= q.limit
      BY <1>1, <2>5, <3>1, SMTT(30)
    <3> QED
      BY <3>4, <3>5, <3>6
  <2>7. \A k \in 1 .. Len(u.out) : u.out[k] = Item(s.asked, q, q.offset + k - 1)
    <3>1. \A k \in 1 .. Len(u.out) : k \in 1 .. Len(s.out) \/ k = Len(s.out) + 1
      BY <1>1, <2>5, SMTT(30)
    <3>2. u.out[Len(s.out) + 1] = Item(s.asked, q, q.offset + (Len(s.out) + 1) - 1)
      BY <2>5, <2>6
    <3> HIDE DEF u, q
    <3> QED
      BY <1>5, <2>5, <3>1, <3>2 DEF q
  <2>8. Counts(u, n + 1)
    <3>1. s.skipped <= q.offset
      BY <1>5
    <3> HIDE DEF u, q
    <3> QED
      BY <2>2, <2>3, <2>6, <2>7, <3>1 DEF Counts, q
  <2>9. NextOfAnswer(s, u.out)
    <3>1. /\ Len(Answer(s.asked, q)) = AnswerLen(s.asked, q)
          /\ AnswerLen(s.asked, q) \in Nat
          /\ \A i \in 1 .. AnswerLen(s.asked, q) :
                Answer(s.asked, q)[i] = Item(s.asked, q, q.offset + i - 1)
      BY <1>1, AnswerForm
    <3>2. Len(s.out) + 1 \in 1 .. AnswerLen(s.asked, q)
      BY <1>1, <2>6, <3>1, SMTT(30)
    <3>3. Answer(s.asked, q)[Len(s.out) + 1] = e
      BY <2>6, <3>1, <3>2
    <3> HIDE DEF u, q, e
    <3> QED
      BY <2>2, <2>6, <3>1, <3>3 DEF NextOfAnswer, q
  <2> QED
    BY <2>8, <2>9
<1> QED
  BY <1>6, <1>7

\* An iterator that is through with every entry, or at its limit, has put out
\* the answer.
LEMMA CountsEnd ==
    ASSUME NEW s \in Iterators, NEW n \in Nat, n <= Cardinality(Selected(s.asked, s.query)),
           Counts(s, n),
           Limited(s) \/ n = Cardinality(Selected(s.asked, s.query))
    PROVE  s.out = Answer(s.asked, s.query)
<1> DEFINE q == s.query
           N == Cardinality(Selected(s.asked, q))
<1>1. /\ q \in AllQueries /\ s.asked \in RecordTables /\ s.skipped \in Nat
      /\ s.out \in Seq(Ids \X Records) /\ Len(s.out) \in Nat
      /\ q.offset \in Nat /\ q.limit \in Nat \cup {NoLimit}
  BY IteratorFields
<1>2. N \in Nat
  BY SelectedIds
<1>3. /\ s.skipped <= q.offset
      /\ Len(s.out) > 0 => s.skipped = q.offset
      /\ n = s.skipped + Len(s.out)
      /\ q.limit # NoLimit => Len(s.out) <= q.limit
      /\ \A k \in 1 .. Len(s.out) : s.out[k] = Item(s.asked, q, q.offset + k - 1)
  BY DEF Counts
<1>4. AnswerLen(s.asked, q) =
          IF N - q.offset < 0 THEN 0
          ELSE IF q.limit = NoLimit \/ N - q.offset < q.limit THEN N - q.offset ELSE q.limit
  BY DEF AnswerLen
<1>5. (q.limit # NoLimit /\ Len(s.out) >= q.limit) \/ n = N
  BY DEF Limited
<1>6. Len(s.out) = AnswerLen(s.asked, q)
  <2> DEFINE L == Len(s.out)
             K == AnswerLen(s.asked, q)
  <2>1. /\ L \in Nat /\ s.skipped \in Nat /\ q.offset \in Nat
        /\ s.skipped <= q.offset /\ n = s.skipped + L /\ n <= N
        /\ L > 0 => s.skipped = q.offset
    BY <1>1, <1>3
  <2>2. CASE q.limit = NoLimit
    <3>1. n = N /\ K = IF N - q.offset < 0 THEN 0 ELSE N - q.offset
      BY <1>4, <1>5, <2>2
    <3> HIDE DEF L, K, N, q
    <3> QED
      BY <1>2, <2>1, <3>1, SMTT(30) DEF L, K
  <2>3. CASE q.limit # NoLimit
    <3>1. /\ q.limit \in Nat /\ L <= q.limit /\ (L >= q.limit \/ n = N)
          /\ K = IF N - q.offset < 0 THEN 0
                 ELSE IF N - q.offset < q.limit THEN N - q.offset ELSE q.limit
      BY <1>1, <1>3, <1>4, <1>5, <2>3
    <3> HIDE DEF L, K, N, q
    <3>2. L = K
      BY <1>2, <2>1, <3>1, SMTT(30)
    <3> QED
      BY <3>2 DEF L, K
  <2> QED
    BY <2>2, <2>3
<1>7. /\ Answer(s.asked, q) \in Seq(Ids \X Records)
      /\ Len(Answer(s.asked, q)) = AnswerLen(s.asked, q)
      /\ \A i \in 1 .. AnswerLen(s.asked, q) :
            Answer(s.asked, q)[i] = Item(s.asked, q, q.offset + i - 1)
  BY <1>1, AnswerForm
<1> QED
  BY <1>1, <1>3, <1>6, <1>7, SameChars

-----------------------------------------------------------------------------
(* Scanning                                                                *)

\* Every entry asked for whose row is gone comes before the rows that are left.
InOrder(rec, q, rows) ==
    \A i \in Matching(rec, q) \ rows, j \in rows : Before(q, i, j)

\* The selector holds the latest entry of the last key it has seen, until the
\* range is exhausted and it gives it up.
Holding(rec, q, rows, selected) ==
    LET seen == Matching(rec, q) \ rows
    IN  /\ selected = {} => seen = {} \/ rows = {}
        /\ \A l \in selected : /\ selected = {l}
                               /\ l \in LatestPerKey(rec, q, seen)
                               /\ \A i \in seen : i[2] # l[2] => Before(q, i, l)

\* The entries of the answer, offset and limit aside, that were skipped or
\* delivered.
Through(rec, q, rows, selected) == Selected(rec, q) \ (rows \cup selected)

Scanning(s) ==
    /\ s.query \in Queries
    /\ s.view.records = s.asked
    /\ s.rows \in SUBSET RangeRows(s.view, s.query)
    /\ InOrder(s.asked, s.query, s.rows)
    /\ s.query.latest => Holding(s.asked, s.query, s.rows, s.selected)
    /\ ~ s.query.latest => s.selected = {}
    /\ Counts(s, Cardinality(Through(s.asked, s.query, s.rows, s.selected)))

\* A step of a scan, and what it shows of itself.
ScanStep(s, u) ==
    /\ u \in Iterators /\ Scanning(u)
    /\ u.phase = s.phase /\ u.query = s.query /\ u.asked = s.asked
    /\ u.out = s.out \/ NextOfAnswer(s, u.out)

Moved(s, rows, selected) == [s EXCEPT !.rows = rows, !.selected = selected]

LEMMA MovedCounts ==
    ASSUME NEW s \in Iterators, NEW rows \in SUBSET Ids, NEW selected \in SUBSET Ids, NEW n,
           Counts(s, n)
    PROVE  Counts(Moved(s, rows, selected), n)
<1> DEFINE u == Moved(s, rows, selected)
<1>1. u.query = s.query /\ u.asked = s.asked /\ u.skipped = s.skipped /\ u.out = s.out
  BY DEF Moved, Iterators
<1> HIDE DEF u
<1> QED
  BY <1>1 DEF Counts, u

\* A row goes, or the selector takes an entry, and none is given up.
LEMMA QuietStep ==
    ASSUME NEW s \in Iterators, Scanning(s), NEW rows \in SUBSET s.rows,
           NEW selected \in SUBSET Ids,
           InOrder(s.asked, s.query, rows),
           s.query.latest => Holding(s.asked, s.query, rows, selected),
           ~ s.query.latest => selected = {},
           Through(s.asked, s.query, rows, selected) =
               Through(s.asked, s.query, s.rows, s.selected)
    PROVE  ScanStep(s, Moved(s, rows, selected))
<1> DEFINE u == Moved(s, rows, selected)
<1>1. rows \in SUBSET Ids
  BY IteratorFields
<1>2. /\ u \in Iterators /\ u.phase = s.phase /\ u.query = s.query /\ u.asked = s.asked
      /\ u.view = s.view /\ u.rows = rows /\ u.selected = selected /\ u.out = s.out
  BY <1>1 DEF Moved, Iterators
<1>3. Counts(u, Cardinality(Through(s.asked, s.query, s.rows, s.selected)))
  BY <1>1, MovedCounts DEF Scanning
<1>4. /\ s.query \in Queries /\ s.view.records = s.asked
      /\ rows \in SUBSET RangeRows(s.view, s.query)
  BY DEF Scanning
<1> HIDE DEF u
<1>5. Scanning(u)
  BY <1>2, <1>3, <1>4 DEF Scanning
<1> QED
  BY <1>2, <1>5 DEF ScanStep, u

\* An entry is given up: it is the next of the answer, or one not asked for.
LEMMA DeliverStep ==
    ASSUME NEW s \in Iterators, Scanning(s), ~ Limited(s), NEW rows \in SUBSET s.rows,
           NEW selected \in SUBSET Ids, NEW id \in Matching(s.asked, s.query),
           InOrder(s.asked, s.query, rows),
           s.query.latest => Holding(s.asked, s.query, rows, selected),
           ~ s.query.latest => selected = {},
           id \in Selected(s.asked, s.query) <=>
               s.query.include_empty \/ ~ IsEmpty(s.asked[id]),
           id \notin Through(s.asked, s.query, s.rows, s.selected),
           Through(s.asked, s.query, rows, selected) =
               Through(s.asked, s.query, s.rows, s.selected)
                   \cup ({id} \cap Selected(s.asked, s.query)),
           id \in Selected(s.asked, s.query) =>
               Below(Selected(s.asked, s.query), Order(s.query), id) =
                   Through(s.asked, s.query, s.rows, s.selected)
    PROVE  ScanStep(s, Deliver(Moved(s, rows, selected), id))
<1> DEFINE w == Moved(s, rows, selected)
           u == Deliver(w, id)
           S == Selected(s.asked, s.query)
           D == Through(s.asked, s.query, s.rows, s.selected)
           n == Cardinality(D)
<1>1. rows \in SUBSET Ids /\ s.asked \in RecordTables
  BY IteratorFields
<1>2. /\ w \in Iterators /\ w.phase = s.phase /\ w.query = s.query /\ w.asked = s.asked
      /\ w.view = s.view /\ w.rows = rows /\ w.selected = selected /\ w.out = s.out
  BY <1>1 DEF Moved, Iterators
<1>3. Counts(w, n)
  BY <1>1, MovedCounts DEF Scanning
<1>4. /\ s.query \in Queries /\ s.view.records = s.asked
      /\ rows \in SUBSET RangeRows(s.view, s.query)
  BY DEF Scanning
<1>5. id \in Ids /\ s.asked[id] \in Records
  <2>1. id \in Ids /\ s.asked[id] # NoRecord
    BY DEF Matching, Present
  <2> QED
    BY <1>1, <2>1 DEF RecordTables
<1>6. IsFiniteSet(D) /\ n \in Nat
  <2>1. D \in SUBSET S /\ IsFiniteSet(S)
    BY SelectedIds DEF Through
  <2>2. IsFiniteSet(D)
    BY <2>1, FS_Subset
  <2> QED
    BY <2>2, FS_CardinalityType
<1>7. /\ u \in Iterators /\ u.phase = s.phase /\ u.query = s.query /\ u.asked = s.asked
      /\ u.view = s.view /\ u.rows = rows /\ u.selected = selected
  <2> HIDE DEF w
  <2> QED
    BY <1>2, <1>4, <1>5, DeliverFields
<1>8. /\ Counts(u, Cardinality(Through(s.asked, s.query, rows, selected)))
      /\ u.out = s.out \/ NextOfAnswer(s, u.out)
  <2>1. CASE id \in S
    <3>1. Counts(u, n + 1) /\ (u.out = w.out \/ NextOfAnswer(w, u.out))
      <4>1. ~ Limited(w)
        <5> HIDE DEF w
        <5> QED
          BY <1>2 DEF Limited
      <4>2. n = Cardinality(Below(S, Order(s.query), id))
        BY <2>1
      <4> HIDE DEF w, n, S, D
      <4>3. id \in Selected(w.asked, w.query) /\ w.view.records = w.asked
        BY <1>2, <1>4, <2>1 DEF S
      <4>4. n = Cardinality(Below(Selected(w.asked, w.query), Order(w.query), id))
        BY <1>2, <4>2 DEF S
      <4> QED
        BY <1>2, <1>3, <1>6, <4>1, <4>3, <4>4, DeliverNext
    <3>2. Cardinality(Through(s.asked, s.query, rows, selected)) = n + 1
      <4>1. Through(s.asked, s.query, rows, selected) = D \cup {id}
        BY <2>1
      <4> HIDE DEF D
      <4>2. id \notin D
        BY DEF D
      <4> QED
        BY <1>6, <4>1, <4>2, FS_AddElement
    <3>3. NextOfAnswer(w, u.out) => NextOfAnswer(s, u.out)
      <4> HIDE DEF w, u
      <4> QED
        BY <1>2 DEF NextOfAnswer
    <3> HIDE DEF w, u, n
    <3> QED
      BY <1>2, <3>1, <3>2, <3>3
  <2>2. CASE id \notin S
    <3>1. Through(s.asked, s.query, rows, selected) = D
      BY <2>2
    <3>2. ~ w.query.include_empty /\ IsEmpty(w.view.records[id])
      <4> HIDE DEF w
      <4> QED
        BY <1>2, <1>4, <2>2
    <3>3. u = w
      BY <3>2 DEF Deliver
    <3> HIDE DEF w, u, D
    <3> QED
      BY <1>2, <1>3, <3>1, <3>3
  <2> QED
    BY <2>1, <2>2
<1> HIDE DEF u, w
<1>9. Scanning(u)
  BY <1>4, <1>7, <1>8 DEF Scanning
<1> QED
  BY <1>7, <1>8, <1>9 DEF ScanStep, u, w

LEMMA FirstRow ==
    ASSUME NEW q, NEW rows \in SUBSET Ids, rows # {}
    PROVE  /\ FirstOf(q, rows) \in rows
           /\ \A j \in rows \ {FirstOf(q, rows)} : Before(q, FirstOf(q, rows), j)
<1>1. \E i \in rows : \A j \in rows \ {i} : <<i, j>> \in Order(q)
  BY SubOrder, FirstExists
<1>2. \E i \in rows : \A j \in rows \ {i} : Before(q, i, j)
  BY <1>1, OrderDef
<1> QED
  BY <1>2 DEF FirstOf

\* id is the first of S that comes after the entries of D.
IsNext(q, S, D, id) ==
    /\ S \in SUBSET Ids /\ D \in SUBSET S /\ id \in S /\ id \notin D
    /\ \A i \in D : Before(q, i, id)
    /\ \A j \in S \ (D \cup {id}) : Before(q, id, j)

LEMMA BelowNext ==
    ASSUME NEW q, NEW S, NEW D, NEW id, IsNext(q, S, D, id)
    PROVE  Below(S, Order(q), id) = D
<1> USE DEF IsNext
<1>1. \A i \in D : <<i, id>> \in Order(q)
  BY OrderDef
<1>2. ASSUME NEW j \in S, j \notin D PROVE <<j, id>> \notin Order(q)
  <2>1. CASE j = id
    BY <2>1, BeforeOrder DEF StrictOrder
  <2>2. CASE j # id
    <3>1. Before(q, id, j)
      BY <1>2, <2>2
    <3>2. ~ Before(q, j, id)
      BY <3>1, BeforeIsStrict
    <3> QED
      BY <3>2, OrderDef
  <2> QED
    BY <2>1, <2>2
<1> QED
  BY <1>1, <1>2 DEF Below

\* The rows left when the first of them is taken.
Taken(rec, q, rows, id) ==
    /\ id \in rows /\ id \in Ids /\ rows \ {id} \in SUBSET rows
    /\ \A j \in rows \ {id} : Before(q, id, j)
    /\ \A i \in Matching(rec, q) \ rows : Before(q, i, id)
    /\ InOrder(rec, q, rows \ {id})

LEMMA RowTaken ==
    ASSUME NEW rec, NEW q, NEW rows \in SUBSET Ids, rows # {}, InOrder(rec, q, rows)
    PROVE  Taken(rec, q, rows, FirstOf(q, rows))
<1> DEFINE id == FirstOf(q, rows)
<1>1. id \in rows /\ \A j \in rows \ {id} : Before(q, id, j)
  BY FirstRow
<1>2. \A i \in Matching(rec, q) \ rows : Before(q, i, id)
  BY <1>1 DEF InOrder
<1>3. ASSUME NEW i \in Matching(rec, q) \ (rows \ {id}), NEW j \in rows \ {id}
      PROVE  Before(q, i, j)
  BY <1>1, <1>3 DEF InOrder
<1> QED
  BY <1>1, <1>2, <1>3 DEF InOrder, Taken

\* A row that does not pass, or the next row of a query of the flat kind.
LEMMA PassedOver ==
    ASSUME PrefixesAreExact, it \in Iterators, Scanning(it), it.rows # {},
           NEW id, id = FirstOf(it.query, it.rows), ~ Passes(id)
    PROVE  ScanStep(it, Moved(it, it.rows \ {id}, it.selected))
<1> DEFINE q == it.query
           rec == it.asked
           rows == it.rows \ {id}
<1>1. it.rows \in SUBSET Ids /\ it.selected \in SUBSET Ids
  BY IteratorFields
<1>2. /\ q \in Queries /\ it.view.records = rec
      /\ it.rows \in SUBSET RangeRows(it.view, q)
      /\ InOrder(rec, q, it.rows)
      /\ q.latest => Holding(rec, q, it.rows, it.selected)
      /\ ~ q.latest => it.selected = {}
  BY DEF Scanning
<1>3. id \in it.rows /\ id \in Ids /\ rows \in SUBSET it.rows /\ InOrder(rec, q, rows)
  <2>1. Taken(rec, q, it.rows, id)
    BY <1>1, <1>2, RowTaken
  <2> QED
    BY <2>1 DEF Taken
<1>4. ~ (/\ id \in Matching(rec, q)
         /\ ByAuthor(q) => q.include_empty \/ ~ IsEmpty(rec[id]))
  <2>1. id \in RangeRows(it.view, q)
    BY <1>2, <1>3
  <2> QED
    BY <1>2, <1>3, <2>1, PassingRows
<1>5. id \notin Selected(rec, q)
  BY <1>4, SelectedIds DEF Selected
<1>6. Through(rec, q, rows, it.selected) = Through(rec, q, it.rows, it.selected)
  BY <1>5 DEF Through
<1>7. q.latest => Holding(rec, q, rows, it.selected)
  <2> SUFFICES ASSUME q.latest PROVE Holding(rec, q, rows, it.selected)
    OBVIOUS
  <2>1. id \notin Matching(rec, q)
    BY <1>4 DEF ByAuthor
  <2>2. Matching(rec, q) \ rows = Matching(rec, q) \ it.rows
    BY <2>1
  <2>3. it.selected = {} => Matching(rec, q) \ it.rows = {}
    BY <1>2, <1>3 DEF Holding
  <2> HIDE DEF q, rec, rows
  <2> QED
    BY <1>2, <2>2, <2>3 DEF Holding
<1> HIDE DEF q, rec, rows
<1> QED
  BY <1>1, <1>2, <1>3, <1>6, <1>7, QuietStep DEF q, rec, rows

LEMMA FlatRow ==
    ASSUME PrefixesAreExact, it \in Iterators, Scanning(it), ~ Limited(it), it.rows # {},
           ~ it.query.latest,
           NEW id, id = FirstOf(it.query, it.rows), Passes(id)
    PROVE  ScanStep(it, Deliver(Moved(it, it.rows \ {id}, {}), id))
<1> DEFINE q == it.query
           rec == it.asked
           rows == it.rows \ {id}
           S == Selected(rec, q)
           D == Through(rec, q, it.rows, it.selected)
<1>1. it.rows \in SUBSET Ids
  BY IteratorFields
<1>2. /\ q \in Queries /\ it.view.records = rec
      /\ it.rows \in SUBSET RangeRows(it.view, q)
      /\ InOrder(rec, q, it.rows) /\ it.selected = {}
  BY DEF Scanning
<1>3. /\ id \in it.rows /\ id \in Ids /\ rows \in SUBSET it.rows /\ InOrder(rec, q, rows)
      /\ \A j \in rows : Before(q, id, j)
      /\ \A i \in Matching(rec, q) \ it.rows : Before(q, i, id)
  <2>1. Taken(rec, q, it.rows, id)
    BY <1>1, <1>2, RowTaken
  <2> QED
    BY <2>1 DEF Taken
<1>4. id \in Matching(rec, q)
  <2>1. id \in RangeRows(it.view, q)
    BY <1>2, <1>3
  <2> QED
    BY <1>2, <1>3, <2>1, PassingRows
<1>5. id \in S <=> q.include_empty \/ ~ IsEmpty(rec[id])
  BY <1>4 DEF Selected
<1>6. D = S \ it.rows /\ id \notin D /\ Through(rec, q, rows, {}) = S \ rows
  BY <1>2, <1>3 DEF Through
<1>7. S \ rows = D \cup ({id} \cap S)
  BY <1>3, <1>6
<1>8. ASSUME id \in S PROVE Below(S, Order(q), id) = D
  <2>1. S \in SUBSET Ids /\ S \in SUBSET Matching(rec, q)
    BY SelectedIds
  <2>2. \A i \in D : Before(q, i, id)
    BY <1>3, <1>6, <2>1
  <2>3. \A j \in S \ (D \cup {id}) : Before(q, id, j)
    BY <1>3, <1>6
  <2>4. D \in SUBSET S
    BY <1>6
  <2>5. IsNext(q, S, D, id)
    <3> HIDE DEF S, D
    <3> QED
      BY <1>6, <1>8, <2>1, <2>2, <2>3, <2>4 DEF IsNext
  <2> QED
    BY <2>5, BelowNext
<1>9. /\ Through(rec, q, rows, {}) = D \cup ({id} \cap S) /\ {} \in SUBSET Ids
      /\ id \notin D
  BY <1>6, <1>7
<1> HIDE DEF q, rec, rows, S, D
<1> QED
  BY <1>1, <1>2, <1>3, <1>4, <1>5, <1>8, <1>9, DeliverStep DEF q, rec, rows, S, D

-----------------------------------------------------------------------------
(* The latest entry of each key                                            *)

LEMMA OneLatest ==
    ASSUME NEW rec \in RecordTables, NEW q, NEW T \in SUBSET Ids,
           NEW i \in LatestPerKey(rec, q, T), NEW l \in LatestPerKey(rec, q, T), i[2] = l[2]
    PROVE  i = l
<1> SUFFICES ASSUME i # l PROVE FALSE
  OBVIOUS
<1>1. i \in T /\ l \in T /\ i \in Ids /\ l \in Ids
  BY DEF LatestPerKey
<1>2. /\ rec[l].ts < rec[i].ts \/ (rec[l].ts = rec[i].ts /\ Before(q, i, l))
      /\ rec[i].ts < rec[l].ts \/ (rec[i].ts = rec[l].ts /\ Before(q, l, i))
  BY <1>1 DEF LatestPerKey
<1>3. rec[i].ts \in Int /\ rec[l].ts \in Int
  <2>1. rec[i].ts \in 0 .. MaxTime /\ rec[l].ts \in 0 .. MaxTime
    BY <1>1, RecordTimes
  <2> QED
    BY <2>1, EntriesAssumption, SMTT(30)
<1>4. ~ (Before(q, i, l) /\ Before(q, l, i))
  BY <1>1, BeforeIsStrict
<1> QED
  BY <1>2, <1>3, <1>4, SMTT(30)

\* No row is left under the key of l.
KeyIsOver(rec, q, rows, l) == \A j \in Matching(rec, q) \cap rows : j[2] # l[2]

\* The selector's entry, when no row of its key is left: the next of the answer,
\* or a tombstone not asked for.
GivenUp(rec, q, rows, l) ==
    /\ l \in Matching(rec, q) /\ l \notin rows
    /\ l \in Selected(rec, q) <=> q.include_empty \/ ~ IsEmpty(rec[l])
    /\ l \notin Through(rec, q, rows, {l})
    /\ l \in Selected(rec, q) =>
           Below(Selected(rec, q), Order(q), l) = Through(rec, q, rows, {l})

LEMMA HeldIsNext ==
    ASSUME NEW rec \in RecordTables, NEW q, q.latest, NEW rows, InOrder(rec, q, rows),
           NEW l, Holding(rec, q, rows, {l}),
           KeyIsOver(rec, q, rows, l)
    PROVE  GivenUp(rec, q, rows, l)
<1> DEFINE M == Matching(rec, q)
           S == Selected(rec, q)
           D == Through(rec, q, rows, {l})
<1>1. /\ l \in LatestPerKey(rec, q, M \ rows)
      /\ \A i \in M \ rows : i[2] # l[2] => Before(q, i, l)
  BY DEF Holding
<1>2. l \in M /\ l \notin rows
  BY <1>1 DEF LatestPerKey
<1>3. l \in LatestPerKey(rec, q, M)
  <2>1. \A j \in M \ {l} : j[2] = l[2] => j \in (M \ rows) \ {l}
    BY DEF KeyIsOver
  <2> HIDE DEF M
  <2> QED
    BY <1>1, <1>2, <2>1 DEF LatestPerKey
<1>4. l \in S <=> q.include_empty \/ ~ IsEmpty(rec[l])
  BY <1>3 DEF Selected
<1>5. D = S \ (rows \cup {l})
  BY DEF Through
<1>6. S \in SUBSET Ids /\ S \in SUBSET M /\ M \in SUBSET Ids
  BY SelectedIds
<1>7. ASSUME NEW i \in D PROVE Before(q, i, l)
  <2>1. i \in S /\ i \in M \ rows /\ i # l
    BY <1>5, <1>6, <1>7
  <2>2. i[2] # l[2]
    <3>1. i \in LatestPerKey(rec, q, M)
      BY <2>1 DEF Selected
    <3> HIDE DEF M
    <3> QED
      BY <1>3, <1>6, <2>1, <3>1, OneLatest
  <2> HIDE DEF M
  <2> QED
    BY <1>1, <2>1, <2>2
<1>8. ASSUME NEW j \in S \ (D \cup {l}) PROVE Before(q, l, j)
  <2>1. j \in rows
    BY <1>5, <1>8
  <2> QED
    BY <1>2, <2>1 DEF InOrder
<1>9. ASSUME l \in S PROVE Below(S, Order(q), l) = D
  <2>1. D \in SUBSET S /\ l \notin D
    BY <1>5
  <2>2. IsNext(q, S, D, l)
    <3> HIDE DEF S, D, M
    <3> QED
      BY <1>6, <1>7, <1>8, <1>9, <2>1 DEF IsNext
  <2> QED
    BY <2>2, BelowNext
<1> HIDE DEF S, D
<1> QED
  BY <1>2, <1>4, <1>5, <1>9 DEF GivenUp, S, D

\* What Push is given: the next row, one that passes.
Pushing(rec, q, rows, id) ==
    /\ q.latest /\ rows \in SUBSET Ids /\ InOrder(rec, q, rows)
    /\ Taken(rec, q, rows, id) /\ id \in Matching(rec, q)

LEMMA PushFirst ==
    ASSUME NEW rec, NEW q, NEW rows, NEW id, Pushing(rec, q, rows, id),
           Holding(rec, q, rows, {})
    PROVE  Holding(rec, q, rows \ {id}, {id})
<1>1. Matching(rec, q) \ rows = {}
  BY DEF Holding, Pushing, Taken
<1>2. Matching(rec, q) \ (rows \ {id}) = {id}
  BY <1>1 DEF Pushing, Taken
<1>3. id \in LatestPerKey(rec, q, {id})
  BY DEF LatestPerKey
<1>4. \A i \in {id} : i[2] # id[2] => Before(q, i, id)
  OBVIOUS
<1> QED
  BY <1>2, <1>3, <1>4 DEF Holding

LEMMA PushNewKey ==
    ASSUME NEW rec, NEW q, NEW rows, NEW id, Pushing(rec, q, rows, id),
           NEW l, Holding(rec, q, rows, {l}), l[2] # id[2]
    PROVE  /\ Holding(rec, q, rows \ {id}, {id})
           /\ KeyIsOver(rec, q, rows, l)
<1> DEFINE seen == Matching(rec, q) \ rows
<1>1. /\ l \in seen /\ \A i \in seen : i[2] # l[2] => Before(q, i, l)
  BY DEF Holding, LatestPerKey
<1>2. /\ \A i \in seen : Before(q, i, id)
      /\ \A j \in rows \ {id} : Before(q, id, j)
      /\ id \in Ids /\ rows \in SUBSET Ids /\ seen \in SUBSET Ids
  BY SelectedIds DEF Pushing, Taken
<1>3. ~ ByAuthor(q)
  BY DEF Pushing, ByAuthor
<1>4. Matching(rec, q) \ (rows \ {id}) = seen \cup {id}
  BY DEF Pushing, Taken
<1>5. ASSUME NEW j \in Matching(rec, q) \cap rows PROVE j[2] # l[2]
  <2> SUFFICES ASSUME j[2] = l[2] PROVE FALSE
    OBVIOUS
  <2>1. j \in Ids /\ l \in Ids /\ j # id
    BY <1>1, <1>2, <1>5
  <2>2. Before(q, l, id) /\ Before(q, id, j)
    BY <1>1, <1>2, <1>5, <2>1
  <2>3. l[2] = id[2]
    BY <1>2, <1>3, <2>1, <2>2, KeysComeTogether
  <2> QED
    BY <2>3
<1>6. ASSUME NEW j \in seen PROVE j[2] # id[2]
  <2> SUFFICES ASSUME j[2] = id[2] PROVE FALSE
    OBVIOUS
  <2>1. j \in Ids /\ l \in Ids
    BY <1>1, <1>2, <1>6
  <2>2. Before(q, j, l) /\ Before(q, l, id)
    <3> HIDE DEF seen
    <3> QED
      BY <1>1, <1>2, <1>6
  <2>3. j[2] = l[2]
    BY <1>2, <1>3, <2>1, <2>2, KeysComeTogether
  <2> QED
    BY <2>3
<1> HIDE DEF seen
<1>7. id \in LatestPerKey(rec, q, seen \cup {id})
  BY <1>6 DEF LatestPerKey
<1>8. \A i \in seen \cup {id} : i[2] # id[2] => Before(q, i, id)
  BY <1>2
<1> QED
  BY <1>4, <1>5, <1>7, <1>8 DEF Holding, KeyIsOver

\* The rows of one key: a newer entry replaces the one held, an older or equally
\* old one goes, and neither that goes is an entry of the answer.
LEMMA PushSameKey ==
    ASSUME NEW rec \in RecordTables, NEW q, NEW rows, NEW id, Pushing(rec, q, rows, id),
           NEW l, Holding(rec, q, rows, {l}), l[2] = id[2]
    PROVE  /\ rec[id].ts > rec[l].ts =>
                  Holding(rec, q, rows \ {id}, {id}) /\ l \notin Selected(rec, q)
           /\ ~ (rec[id].ts > rec[l].ts) =>
                  Holding(rec, q, rows \ {id}, {l}) /\ id \notin Selected(rec, q)
<1> DEFINE M == Matching(rec, q)
           seen == M \ rows
<1>1. /\ l \in seen /\ \A i \in seen : i[2] # l[2] => Before(q, i, l)
      /\ l \in LatestPerKey(rec, q, seen)
  BY DEF Holding, LatestPerKey
<1>2. /\ \A i \in seen : Before(q, i, id)
      /\ id \in Ids /\ id \in rows /\ id \in M /\ M \in SUBSET Ids /\ q.latest
  BY SelectedIds DEF Pushing, Taken
<1>3. M \ (rows \ {id}) = seen \cup {id}
  BY DEF Pushing, Taken
<1>4. l \in M /\ l \in Ids /\ l # id /\ Before(q, l, id) /\ ~ Before(q, id, l)
  <2>1. l \in M /\ l \in Ids /\ l # id /\ Before(q, l, id)
    BY <1>1, <1>2
  <2> QED
    BY <1>2, <2>1, BeforeIsStrict
<1>5. \A i \in Ids : rec[i].ts \in Int
  <2>1. \A i \in Ids : rec[i].ts \in 0 .. MaxTime
    BY RecordTimes
  <2> QED
    BY <2>1, EntriesAssumption, SMTT(30)
<1>6. \A i \in Selected(rec, q) : i \in LatestPerKey(rec, q, M)
  BY <1>2 DEF Selected
<1>7. \A j \in seen \ {l} : j[2] = l[2] =>
          \/ rec[j].ts < rec[l].ts
          \/ rec[j].ts = rec[l].ts /\ Before(q, l, j)
  BY <1>1 DEF LatestPerKey
<1>8. ASSUME rec[id].ts > rec[l].ts
      PROVE  Holding(rec, q, rows \ {id}, {id}) /\ l \notin Selected(rec, q)
  <2>1. \A j \in seen : j[2] = id[2] => rec[j].ts < rec[id].ts
    <3> SUFFICES ASSUME NEW j \in seen, j[2] = id[2] PROVE rec[j].ts < rec[id].ts
      OBVIOUS
    <3>1. j \in Ids /\ rec[j].ts \in Int /\ rec[id].ts \in Int /\ rec[l].ts \in Int
      BY <1>2, <1>4, <1>5
    <3>2. j = l \/ rec[j].ts < rec[l].ts \/ rec[j].ts = rec[l].ts
      BY <1>7
    <3> QED
      BY <1>8, <3>1, <3>2, SMTT(30)
  <2>2. ~ (rec[id].ts < rec[l].ts) /\ rec[id].ts # rec[l].ts
    BY <1>2, <1>4, <1>5, <1>8, SMTT(30)
  <2>3. l \notin LatestPerKey(rec, q, M)
    <3> HIDE DEF M
    <3> QED
      BY <1>2, <1>4, <2>2 DEF LatestPerKey
  <2> HIDE DEF seen, M
  <2>4. id \in LatestPerKey(rec, q, seen \cup {id})
    BY <2>1 DEF LatestPerKey
  <2>5. \A i \in seen \cup {id} : i[2] # id[2] => Before(q, i, id)
    BY <1>2
  <2>6. Holding(rec, q, rows \ {id}, {id})
    BY <1>3, <2>4, <2>5 DEF Holding, M
  <2> QED
    BY <1>6, <2>3, <2>6
<1>9. ASSUME ~ (rec[id].ts > rec[l].ts)
      PROVE  Holding(rec, q, rows \ {id}, {l}) /\ id \notin Selected(rec, q)
  <2>1. (rec[id].ts < rec[l].ts \/ rec[id].ts = rec[l].ts) /\ ~ (rec[l].ts < rec[id].ts)
    BY <1>2, <1>4, <1>5, <1>9, SMTT(30)
  <2>2. id \notin LatestPerKey(rec, q, M)
    <3> HIDE DEF M
    <3> QED
      BY <1>2, <1>4, <2>1 DEF LatestPerKey
  <2>3. l \in LatestPerKey(rec, q, seen \cup {id})
    <3> HIDE DEF seen, M
    <3> QED
      BY <1>1, <1>4, <1>7, <2>1 DEF LatestPerKey
  <2>4. \A i \in seen \cup {id} : i[2] # l[2] => Before(q, i, l)
    BY <1>1
  <2> HIDE DEF seen, M
  <2>5. Holding(rec, q, rows \ {id}, {l})
    BY <1>3, <2>3, <2>4 DEF Holding, M
  <2> QED
    BY <1>6, <2>2, <2>5
<1> QED
  BY <1>8, <1>9

LEMMA MovedForms ==
    ASSUME NEW s \in Iterators, NEW rows, NEW selected, NEW other
    PROVE  /\ [s EXCEPT !.rows = rows] = Moved(s, rows, s.selected)
           /\ [s EXCEPT !.selected = selected] = Moved(s, s.rows, selected)
           /\ Moved(s, rows, selected).selected = selected
           /\ Moved(s, rows, selected).view = s.view
           /\ [Moved(s, rows, selected) EXCEPT !.selected = other] = Moved(s, rows, other)
BY DEF Moved, Iterators

\* The next row goes to the selector.
LEMMA LatestRow ==
    ASSUME PrefixesAreExact, it \in Iterators, Scanning(it), ~ Limited(it), it.rows # {},
           it.query.latest,
           NEW id, id = FirstOf(it.query, it.rows), Passes(id)
    PROVE  ScanStep(it, Push(Moved(it, it.rows \ {id}, it.selected), id))
<1> DEFINE q == it.query
           rec == it.asked
           rows == it.rows \ {id}
           S == Selected(rec, q)
           s == Moved(it, rows, it.selected)
<1>1. it.rows \in SUBSET Ids /\ it.selected \in SUBSET Ids /\ rec \in RecordTables
  BY IteratorFields
<1>2. /\ q \in Queries /\ it.view.records = rec
      /\ it.rows \in SUBSET RangeRows(it.view, q)
      /\ InOrder(rec, q, it.rows) /\ Holding(rec, q, it.rows, it.selected)
  BY DEF Scanning
<1>3. Taken(rec, q, it.rows, id)
  BY <1>1, <1>2, RowTaken
<1>4. id \in it.rows /\ id \in Ids /\ rows \in SUBSET it.rows /\ InOrder(rec, q, rows)
  BY <1>3 DEF Taken
<1>5. id \in Matching(rec, q)
  <2>1. id \in RangeRows(it.view, q)
    BY <1>2, <1>4
  <2> QED
    BY <1>2, <1>4, <2>1, PassingRows
<1>6. Pushing(rec, q, it.rows, id)
  BY <1>1, <1>2, <1>3, <1>5 DEF Pushing
<1>7. /\ s.selected = it.selected /\ s.view = it.view
      /\ [s EXCEPT !.selected = {id}] = Moved(it, rows, {id})
  BY DEF Moved, Iterators
<1>8. {id} \in SUBSET Ids
  BY <1>4
<1>9. ASSUME NEW selected \in SUBSET Ids, Holding(rec, q, rows, selected),
             Through(rec, q, rows, selected) = Through(rec, q, it.rows, it.selected)
      PROVE  ScanStep(it, Moved(it, rows, selected))
  <2> HIDE DEF q, rec, rows
  <2> QED
    BY <1>4, <1>9, QuietStep DEF q, rec, rows
<1>10. CASE it.selected = {}
  <2>1. Push(s, id) = Moved(it, rows, {id})
    BY <1>7, <1>10 DEF Push
  <2>2. Holding(rec, q, rows, {id})
    BY <1>2, <1>6, <1>10, PushFirst
  <2>3. Through(rec, q, rows, {id}) = Through(rec, q, it.rows, it.selected)
    BY <1>4, <1>10 DEF Through
  <2> QED
    BY <1>8, <1>9, <2>1, <2>2, <2>3
<1>11. ASSUME NEW l, it.selected = {l} PROVE ScanStep(it, Push(s, id))
  <2>1. (CHOOSE i \in s.selected : TRUE) = l /\ s.selected # {}
    BY <1>7, <1>11
  <2>2. s.view.records = rec
    BY <1>2, <1>7
  <2>3. Holding(rec, q, it.rows, {l})
    BY <1>2, <1>11
  <2>4. l \in Ids /\ l \notin it.rows
    <3>1. l \in LatestPerKey(rec, q, Matching(rec, q) \ it.rows)
      BY <2>3 DEF Holding
    <3> QED
      BY <1>1, <1>11, <3>1 DEF LatestPerKey
  <2>5. CASE l[2] # id[2]
    <3>1. Push(s, id) = Deliver(Moved(it, rows, {id}), l)
      <4> HIDE DEF s, rows
      <4> QED
        BY <1>7, <2>1, <2>5 DEF Push
    <3>2. Holding(rec, q, rows, {id}) /\ KeyIsOver(rec, q, it.rows, l)
      BY <1>6, <2>3, <2>5, PushNewKey
    <3>3. GivenUp(rec, q, it.rows, l)
      BY <1>1, <1>2, <2>3, <3>2, HeldIsNext
    <3>4. Through(rec, q, rows, {id}) = Through(rec, q, it.rows, {l}) \cup ({l} \cap S)
      BY <1>4, <2>4 DEF Through
    <3>5. /\ l \in Matching(rec, q)
          /\ l \in S <=> q.include_empty \/ ~ IsEmpty(rec[l])
          /\ l \notin Through(rec, q, it.rows, {l})
          /\ l \in S => Below(S, Order(q), l) = Through(rec, q, it.rows, {l})
      BY <3>3 DEF GivenUp
    <3> HIDE DEF q, rec, rows, S, s
    <3>6. ScanStep(it, Deliver(Moved(it, rows, {id}), l))
      BY <1>4, <1>8, <1>11, <3>2, <3>4, <3>5, DeliverStep DEF q, rec, rows, S
    <3> QED
      BY <3>1, <3>6
  <2>6. CASE l[2] = id[2] /\ rec[id].ts > rec[l].ts
    <3>1. Push(s, id) = Moved(it, rows, {id})
      <4> HIDE DEF s, rows, rec
      <4> QED
        BY <1>7, <2>1, <2>2, <2>6 DEF Push
    <3>2. Holding(rec, q, rows, {id}) /\ l \notin S
      BY <1>1, <1>6, <2>3, <2>6, PushSameKey
    <3>3. Through(rec, q, rows, {id}) = Through(rec, q, it.rows, it.selected)
      BY <1>4, <1>11, <3>2 DEF Through
    <3> HIDE DEF s
    <3> QED
      BY <1>8, <1>9, <3>1, <3>2, <3>3
  <2>7. CASE l[2] = id[2] /\ ~ (rec[id].ts > rec[l].ts)
    <3>1. Push(s, id) = s
      <4> HIDE DEF s, rows, rec
      <4> QED
        BY <1>7, <2>1, <2>2, <2>7 DEF Push
    <3>2. Holding(rec, q, rows, {l}) /\ id \notin S
      BY <1>1, <1>6, <2>3, <2>7, PushSameKey
    <3>3. Through(rec, q, rows, it.selected) = Through(rec, q, it.rows, it.selected)
      BY <1>4, <3>2 DEF Through
    <3> HIDE DEF rows, rec, q
    <3>4. ScanStep(it, Moved(it, rows, it.selected))
      BY <1>1, <1>9, <1>11, <3>2, <3>3
    <3> QED
      BY <3>1, <3>4
  <2> QED
    BY <2>5, <2>6, <2>7
<1>12. it.selected = {} \/ \E l : it.selected = {l}
  BY <1>2 DEF Holding
<1> QED
  BY <1>10, <1>11, <1>12

\* The range is exhausted and the selector gives up its last entry.
LEMMA LastOne ==
    ASSUME it \in Iterators, Scanning(it), ~ Limited(it), it.rows = {},
           NEW l \in it.selected
    PROVE  ScanStep(it, Deliver(Moved(it, it.rows, {}), l))
<1> DEFINE q == it.query
           rec == it.asked
           S == Selected(rec, q)
<1>1. rec \in RecordTables /\ it.selected \in SUBSET Ids
  BY IteratorFields
<1>2. q.latest /\ InOrder(rec, q, it.rows) /\ Holding(rec, q, it.rows, it.selected)
  BY DEF Scanning
<1>3. it.selected = {l}
  BY <1>2 DEF Holding
<1>4. GivenUp(rec, q, it.rows, l)
  <2>1. Holding(rec, q, it.rows, {l}) /\ KeyIsOver(rec, q, it.rows, l)
    BY <1>2, <1>3 DEF KeyIsOver
  <2> QED
    BY <1>1, <1>2, <2>1, HeldIsNext
<1>5. /\ l \in Matching(rec, q)
      /\ l \in S <=> q.include_empty \/ ~ IsEmpty(rec[l])
      /\ l \notin Through(rec, q, it.rows, {l})
      /\ l \in S => Below(S, Order(q), l) = Through(rec, q, it.rows, {l})
  BY <1>4 DEF GivenUp
<1>6. Through(rec, q, it.rows, {}) = Through(rec, q, it.rows, {l}) \cup ({l} \cap S)
  BY <1>3 DEF Through
<1>7. Holding(rec, q, it.rows, {}) /\ {} \in SUBSET Ids /\ it.rows \in SUBSET it.rows
  BY DEF Holding
<1> HIDE DEF q, rec, S
<1> QED
  BY <1>2, <1>3, <1>5, <1>6, <1>7, DeliverStep DEF q, rec, S

\* A scan that ends has put out the answer.
LEMMA ScanEnds ==
    ASSUME it \in Iterators, Scanning(it), Limited(it) \/ (it.rows = {} /\ it.selected = {})
    PROVE  it.out = Answer(it.asked, it.query)
<1> DEFINE S == Selected(it.asked, it.query)
           D == Through(it.asked, it.query, it.rows, it.selected)
<1>1. IsFiniteSet(S) /\ D \in SUBSET S
  BY SelectedIds DEF Through
<1>2. IsFiniteSet(D) /\ Cardinality(D) <= Cardinality(S)
  BY <1>1, FS_Subset
<1>3. Cardinality(D) \in Nat
  BY <1>2, FS_CardinalityType
<1>4. Limited(it) \/ Cardinality(D) = Cardinality(S)
  <2>1. it.rows = {} /\ it.selected = {} => D = S
    BY DEF Through
  <2> HIDE DEF D, S
  <2> QED
    BY <2>1
<1>5. Counts(it, Cardinality(D))
  BY DEF Scanning
<1> HIDE DEF D
<1> QED
  BY <1>2, <1>3, <1>4, <1>5, CountsEnd

-----------------------------------------------------------------------------
(* The node's streams                                                      *)

AnswerInv ==
    /\ it \in Iterators
    /\ it.phase = "idle" => it.out = << >>
    /\ Answering => pc = "running" /\ Scanning(it)

LEMMA NoIteratorType == NoIterator \in Iterators
<1>1. /\ NoTables.records \in RecordTables
      /\ NoTables \in [records : RecordTables, by_key : SUBSET Ids]
  <2>1. NoTables.records \in RecordTables /\ NoTables.by_key = {}
    BY DEF NoTables, RecordTables
  <2> QED
    BY <2>1 DEF NoTables
<1>2. NoQuery \in AllQueries
  BY SMTT(30) DEF NoQuery, AllQueries, KeyFilters, AuthorFilters, NoLimit
<1>3. << >> \in Seq(Ids \X Records)
  BY SMTT(30)
<1>4. 0 \in Nat /\ {} \in SUBSET Ids
  BY SMTT(30)
<1> HIDE DEF NoTables, NoQuery
<1> QED
  BY <1>1, <1>2, <1>3, <1>4 DEF NoIterator, Iterators

LEMMA AnswerInvInit == Init => AnswerInv
<1> SUFFICES ASSUME Init PROVE AnswerInv
  OBVIOUS
<1>1. it = NoIterator
  BY DEF Init
<1>2. it.phase = "idle" /\ it.out = << >>
  BY <1>1, SMTT(30) DEF NoIterator
<1>3. ~ Answering
  BY <1>2, SMTT(30) DEF Answering
<1> QED
  BY <1>1, <1>2, <1>3, NoIteratorType DEF AnswerInv

Started(q, t, s) ==
    /\ s \in Iterators /\ Scanning(s)
    /\ s.phase = "answering" /\ s.out = << >> /\ s.asked = t.records /\ s.query = q

\* A stream starts with its range as it is in the tables.
LEMMA ScanStarts ==
    ASSUME PrefixesAreExact, NEW q \in Queries, NEW t \in FileRecs, Indexed(t)
    PROVE  Started(q, t, QueryIterator(q, t.records, t))
<1> DEFINE s == QueryIterator(q, t.records, t)
<1>1. q \in AllQueries
  BY QueryAssumption
<1>2. t.records \in RecordTables /\ t.by_key \in SUBSET Ids
  BY SMTT(30) DEF FileRecs
<1>3. /\ s.phase = "answering" /\ s.query = q /\ s.asked = t.records
      /\ s.view = [records |-> t.records, by_key |-> t.by_key]
      /\ s.rows = RangeRows(t, q) /\ s.selected = {} /\ s.skipped = 0 /\ s.out = << >>
  BY DEF QueryIterator
<1>4. s.view.records = t.records /\ s.view.by_key = t.by_key
  <2> HIDE DEF s
  <2> QED
    BY <1>3, SMTT(30)
<1>5. /\ RangeRows(t, q) \in SUBSET Ids
      /\ Matching(t.records, q) \in SUBSET RangeRows(t, q)
  BY <1>2, RangeHoldsMatches DEF Indexed
<1>6. s \in Iterators
  <2>1. [records |-> t.records, by_key |-> t.by_key] \in
            [records : RecordTables, by_key : SUBSET Ids]
    BY <1>2, SMTT(30)
  <2>2. << >> \in Seq(Ids \X Records) /\ 0 \in Nat /\ {} \in SUBSET Ids
    BY SMTT(30)
  <2> QED
    BY <1>1, <1>2, <1>5, <2>1, <2>2 DEF QueryIterator, Iterators
<1>7. RangeRows(s.view, q) = RangeRows(t, q)
  BY <1>4 DEF RangeRows
<1>8. InOrder(t.records, q, RangeRows(t, q)) /\ Holding(t.records, q, RangeRows(t, q), {})
  <2>1. Matching(t.records, q) \ RangeRows(t, q) = {}
    BY <1>5
  <2> QED
    BY <2>1 DEF InOrder, Holding
<1>9. Counts(s, Cardinality(Through(s.asked, s.query, s.rows, s.selected)))
  <2> HIDE DEF s
  <2>1. Through(t.records, q, RangeRows(t, q), {}) = {}
    BY <1>5, SelectedIds DEF Through
  <2>2. Cardinality(Through(s.asked, s.query, s.rows, s.selected)) = 0
    BY <1>3, <2>1, FS_EmptySet
  <2>3. Counts(s, 0)
    <3>1. q.offset \in Nat /\ q.limit \in Nat \cup {NoLimit}
      BY <1>3, <1>6, IteratorFields
    <3>2. Len(s.out) = 0 /\ s.skipped = 0
      <4>1. Len(<< >>) = 0
        BY SMTT(30)
      <4> QED
        BY <1>3, <4>1
    <3>3. /\ s.skipped <= q.offset /\ ~ (Len(s.out) > 0) /\ 0 = s.skipped + Len(s.out)
          /\ q.limit # NoLimit => Len(s.out) <= q.limit
      BY <3>1, <3>2, SMTT(30)
    <3>4. 1 .. Len(s.out) = {}
      BY <3>2, SMTT(30)
    <3> QED
      BY <1>3, <3>3, <3>4 DEF Counts
  <2> QED
    BY <2>2, <2>3
<1>10. Scanning(s)
  BY <1>3, <1>4, <1>7, <1>8, <1>9 DEF Scanning
<1> HIDE DEF s
<1> QED
  BY <1>3, <1>6, <1>10 DEF Started, s

\* A row or the selector's last entry: a step of the scan.
LEMMA ScanSteps ==
    ASSUME PrefixesAreExact, it \in Iterators, Scanning(it), NextRow \/ LastSelected
    PROVE  ScanStep(it, it')
<1>1. ~ Limited(it)
  BY DEF NextRow, LastSelected, LimitReached, Limited
<1>2. CASE NextRow
  <2> DEFINE id == FirstOf(it.query, it.rows)
             s == [it EXCEPT !.rows = @ \ {id}]
  <2>1. it.rows # {}
    BY <1>2 DEF NextRow
  <2>2. it' = IF ~ Passes(id) THEN s
              ELSE IF it.query.latest THEN Push(s, id) ELSE Deliver(s, id)
    BY <1>2 DEF NextRow
  <2>3. s = Moved(it, it.rows \ {id}, it.selected)
    BY MovedForms
  <2>4. ~ it.query.latest => it.selected = {}
    BY DEF Scanning
  <2> HIDE DEF id, s
  <2>5. CASE ~ Passes(id)
    BY <2>1, <2>2, <2>3, <2>5, PassedOver DEF id
  <2>6. CASE Passes(id) /\ it.query.latest
    BY <1>1, <2>1, <2>2, <2>3, <2>6, LatestRow DEF id
  <2>7. CASE Passes(id) /\ ~ it.query.latest
    BY <1>1, <2>1, <2>2, <2>3, <2>4, <2>7, FlatRow DEF id
  <2> QED
    BY <2>5, <2>6, <2>7
<1>3. CASE LastSelected
  <2>1. PICK l \in it.selected : it' = Deliver([it EXCEPT !.selected = {}], l)
    BY <1>3 DEF LastSelected
  <2>2. it.rows = {}
    BY <1>3 DEF LastSelected
  <2>3. [it EXCEPT !.selected = {}] = Moved(it, it.rows, {})
    BY MovedForms
  <2> QED
    BY <1>1, <2>1, <2>2, <2>3, LastOne
<1> QED
  BY <1>2, <1>3

\* What the abstract stream sees of a step of the node.
Streaming == [Abstract!Next]_<<it.phase, PromisedAnswer, it.out>>

LEMMA StreamLeftAlone ==
    ASSUME AnswerInv, it' = it, Answering => pc' = "running"
    PROVE  AnswerInv' /\ Streaming
<1>1. AnswerInv'
  BY DEF AnswerInv, Answering
<1>2. UNCHANGED <<it.phase, PromisedAnswer, it.out>>
  BY DEF PromisedAnswer
<1> QED
  BY <1>1, <1>2 DEF Streaming

LEMMA StreamCut ==
    ASSUME AnswerInv, StreamIsCut
    PROVE  AnswerInv' /\ Streaming
<1>1. it \in Iterators /\ (it.phase = "idle" => it.out = << >>)
  BY DEF AnswerInv
<1>2. CASE Answering
  <2>1. it' = [it EXCEPT !.phase = "cut"] /\ it.phase = "answering"
    BY <1>2 DEF StreamIsCut, Answering
  <2>2. /\ it' \in Iterators /\ it'.phase = "cut" /\ it'.asked = it.asked
        /\ it'.query = it.query /\ it'.out = it.out
    BY <1>1, <2>1 DEF Iterators
  <2>3. it'.phase # "idle" /\ it'.phase # "answering" /\ it.phase # "idle"
    BY <2>1, <2>2, SMTT(30)
  <2>4. AnswerInv'
    BY <2>2, <2>3 DEF AnswerInv, Answering
  <2>5. PromisedAnswer' = PromisedAnswer
    BY <2>2, <2>3 DEF PromisedAnswer
  <2>6. Abstract!Cut
    BY <2>1, <2>2, <2>5 DEF Abstract!Cut
  <2> QED
    BY <2>4, <2>6 DEF Streaming, Abstract!Next
<1>3. CASE ~ Answering
  <2>1. it' = it
    BY <1>3 DEF StreamIsCut
  <2> QED
    BY <1>3, <2>1, StreamLeftAlone
<1> QED
  BY <1>2, <1>3

LEMMA StreamForgotten ==
    ASSUME AnswerInv, ~ Answering, it' = NoIterator
    PROVE  AnswerInv' /\ Streaming
<1>1. it'.phase = "idle" /\ it'.out = << >> /\ ~ Answering'
  BY SMTT(30) DEF NoIterator, Answering
<1>2. AnswerInv'
  BY <1>1, NoIteratorType DEF AnswerInv
<1>3. PromisedAnswer' = << >>
  BY <1>1 DEF PromisedAnswer
<1>4. it.phase # "answering"
  BY DEF Answering
<1>5. Abstract!Forget
  BY <1>1, <1>3, <1>4 DEF Abstract!Forget, Abstract!Init
<1> QED
  BY <1>2, <1>5 DEF Streaming, Abstract!Next

LEMMA StreamAsked ==
    ASSUME PrefixesAreExact, FileInv, AnswerInv, NEW q \in Queries, get_many(q)
    PROVE  AnswerInv' /\ Streaming
<1>1. /\ ~ Answering /\ pc = "running" /\ pc' = pc /\ source' = vis
      /\ it' = QueryIterator(q, vis.records, source')
  BY DEF get_many, Serving, Flush
<1>2. vis \in FileRecs /\ Indexed(vis)
  BY <1>1, SMTT(30) DEF FileInv, FilesTyped, TablesInv, IsOpen
<1>3. it' = QueryIterator(q, vis.records, vis)
  BY <1>1
<1>4. /\ it' \in Iterators /\ Scanning(it')
      /\ it'.phase = "answering" /\ it'.out = << >> /\ it'.asked = vis.records /\ it'.query = q
  <2>1. Started(q, vis, it')
    BY <1>2, <1>3, ScanStarts
  <2> QED
    BY <2>1 DEF Started
<1>5. it'.phase # "idle" /\ it.phase # "answering"
  BY <1>1, <1>4, SMTT(30) DEF Answering
<1>6. AnswerInv'
  BY <1>1, <1>4, <1>5 DEF AnswerInv
<1>7. PromisedAnswer' \in Seq(Ids \X Records)
  <2>1. PromisedAnswer' = PromisedFor(vis.records, q)
    BY <1>4, <1>5 DEF PromisedAnswer
  <2>2. q \in AllQueries /\ vis.records \in RecordTables
    BY <1>2, QueryAssumption, SMTT(30) DEF FileRecs
  <2>3. PromisedFor(vis.records, q) = Answer(vis.records, q)
    BY <2>2, PromisedIsServed
  <2> QED
    BY <2>1, <2>2, <2>3, AnswerForm
<1>8. Abstract!Ask
  BY <1>4, <1>5, <1>7 DEF Abstract!Ask
<1> QED
  BY <1>6, <1>8 DEF Streaming, Abstract!Next

LEMMA StreamSteps ==
    ASSUME PrefixesAreExact, AnswerInv, IteratorStep
    PROVE  AnswerInv' /\ Streaming
<1>1. /\ Answering /\ (NextRow \/ LastSelected \/ StreamEnds) /\ pc' = pc
      /\ it \in Iterators /\ Scanning(it) /\ pc = "running"
  <2>1. (NextRow \/ LastSelected \/ StreamEnds) /\ pc' = pc
    BY DEF IteratorStep
  <2>2. Answering
    BY <2>1 DEF NextRow, LastSelected, StreamEnds
  <2> QED
    BY <2>1, <2>2 DEF AnswerInv
<1>2. it.phase = "answering" /\ it.phase # "idle"
  BY <1>1, SMTT(30) DEF Answering
<1>3. PromisedAnswer = Answer(it.asked, it.query)
  <2>1. it.query \in AllQueries
    BY <1>1, SMTT(30) DEF Iterators
  <2> QED
    BY <1>2, <2>1, PromisedIsServed DEF PromisedAnswer
<1>4. CASE NextRow \/ LastSelected
  <2>1. ScanStep(it, it')
    BY <1>1, <1>4, ScanSteps
  <2>2. /\ it' \in Iterators /\ Scanning(it') /\ it'.phase = it.phase
        /\ it'.query = it.query /\ it'.asked = it.asked
        /\ it'.out = it.out \/ NextOfAnswer(it, it'.out)
    BY <2>1 DEF ScanStep
  <2>3. AnswerInv'
    BY <1>1, <1>2, <2>2 DEF AnswerInv
  <2>4. PromisedAnswer' = PromisedAnswer
    BY <2>2 DEF PromisedAnswer
  <2>5. CASE it'.out = it.out
    BY <2>2, <2>3, <2>4, <2>5 DEF Streaming
  <2>6. CASE NextOfAnswer(it, it'.out)
    <3>1. Abstract!Emit
      BY <1>2, <1>3, <2>2, <2>4, <2>6 DEF Abstract!Emit, NextOfAnswer
    <3> QED
      BY <2>3, <3>1 DEF Streaming, Abstract!Next
  <2> QED
    BY <2>2, <2>5, <2>6
<1>5. CASE StreamEnds
  <2>1. /\ it' = [it EXCEPT !.phase = "complete"]
        /\ Limited(it) \/ (it.rows = {} /\ it.selected = {})
    BY <1>5 DEF StreamEnds, LimitReached, Limited
  <2>2. /\ it' \in Iterators /\ it'.phase = "complete" /\ it'.asked = it.asked
        /\ it'.query = it.query /\ it'.out = it.out
    BY <1>1, <2>1 DEF Iterators
  <2>3. it'.phase # "idle" /\ it'.phase # "answering"
    BY <2>2, SMTT(30)
  <2>4. it.out = PromisedAnswer
    BY <1>1, <1>3, <2>1, ScanEnds
  <2>5. AnswerInv'
    BY <2>2, <2>3 DEF AnswerInv, Answering
  <2>6. PromisedAnswer' = PromisedAnswer
    BY <1>2, <2>2, <2>3 DEF PromisedAnswer
  <2>7. Abstract!End
    BY <1>2, <2>2, <2>4, <2>6 DEF Abstract!End
  <2> QED
    BY <2>5, <2>7 DEF Streaming, Abstract!Next
<1> QED
  BY <1>1, <1>4, <1>5

LEMMA AnswerInvStep ==
    ASSUME PrefixesAreExact, FileInv, AnswerInv, [Next]_vars
    PROVE  AnswerInv' /\ Streaming
<1>1. Answering => pc = "running"
  BY DEF AnswerInv
<1>2. CASE Start
  <2>1. it' = NoIterator /\ pc # "running"
    BY <1>2, SMTT(30) DEF Start, Open
  <2> QED
    BY <1>1, <2>1, StreamForgotten
<1>3. CASE StoreStep \/ LoadAuthorFile \/ FlushAuthor \/ TruncateNewFile \/ WriteNewFile
  <2>1. it' = it /\ pc # "running"
    BY <1>3, SMTT(30) DEF StoreStep, LoadAuthorFile, FlushAuthor, TruncateNewFile, WriteNewFile,
       Starting, Open, Setup, Copy, Rename, PersistTarget, RewriteFails, Migration,
       migration_001, migration_002, migration_003, migration_004
  <2> QED
    BY <1>1, <2>1, StreamLeftAlone
<1>4. CASE \/ DeleteAuthorFile \/ FinishSetDefault \/ doc_drop \/ Tick
           \/ \E a \in Authors : \/ CreateAuthor(a) \/ ImportAuthor(a)
                                 \/ author_delete(a) \/ author_set_default(a)
           \/ \E id \in Ids, r \in Records : insert(id, r)
           \/ ProtectAsk \/ ProtectTaken \/ ProtectSnapshot \/ ProtectError \/ ProtectEnd
           \/ \E h \in Hashes : ProtectHash(h)
           \/ UNCHANGED vars
  <2>1. it' = it /\ (pc = "running" => pc' = "running")
    BY <1>4 DEF DeleteAuthorFile, FinishSetDefault, doc_drop, Tick, CreateAuthor,
       ImportAuthor, author_delete, author_set_default, insert, ProtectAsk, ProtectTaken,
       ProtectSnapshot, ProtectError, ProtectEnd, ProtectHash, vars
  <2> QED
    BY <1>1, <2>1, StreamLeftAlone
<1>5. CASE \E q \in Queries : get_many(q)
  BY <1>5, StreamAsked
<1>6. CASE IteratorStep
  BY <1>6, StreamSteps
<1>7. CASE Shutdown \/ DropEngine \/ Crash
  <2>1. StreamIsCut
    BY <1>7 DEF Shutdown, DropEngine, Crash
  <2> QED
    BY <2>1, StreamCut
<1> QED
  BY <1>2, <1>3, <1>4, <1>5, <1>6, <1>7 DEF Next

\* Every stream of get_many, on either index, through stale index rows, and while
\* the store is written or goes away under it, carries the entries its query asks
\* for by its documentation (store.rs:279), in order, and ends only where they end:
\* Node implements Answers.  Left out are prefixes whose bounds are not exact (see
\* PrefixesAreExact); the latest entries of one author are those among the
\* author's own, which is not what the documentation says (AnswersAsDocumented).
THEOREM QueriesAreAnswered ==
    ASSUME PrefixesAreExact
    PROVE  Spec => AnswersAreRight
<1>1. Init => Abstract!Init
  <2> SUFFICES ASSUME Init PROVE Abstract!Init
    OBVIOUS
  <2>1. it.phase = "idle" /\ it.out = << >>
    BY SMTT(30) DEF Init, NoIterator
  <2>2. PromisedAnswer = << >>
    BY <2>1 DEF PromisedAnswer
  <2> QED
    BY <2>1, <2>2 DEF Abstract!Init
<1>2. FileInv /\ AnswerInv /\ [Next]_vars => AnswerInv' /\ Streaming
  BY AnswerInvStep
<1> QED
  BY <1>1, <1>2, AnswerInvInit, FilesHold, PTL DEF Spec, AnswersAreRight, Abstract!Spec,
     Streaming
=============================================================================
