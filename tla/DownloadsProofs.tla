-------------------------- MODULE DownloadsProofs --------------------------
(***************************************************************************)
(* Proofs about Downloads, for any sets of namespaces, hashes and peers    *)
(* and any number of events.                                               *)
(*                                                                         *)
(* QueuedIsDownloading is kept by each operation of the queue, so it is    *)
(* stated of a queue (Agrees) and shown for insert, remove_hash and        *)
(* queue_download on any queue.  OwedIsQueued needs it: a namespace is told*)
(* when remove_hash empties it by the one map, and what it waits for is in *)
(* the other.  ReadyAnswersASync needs that the flag is set only for       *)
(* namespaces that wait.                                                   *)
(***************************************************************************)
EXTENDS Downloads, TLAPS

QType == [by_hash      : [Hashes -> SUBSET Namespaces],
          by_namespace : [Namespaces -> SUBSET Hashes],
          missing      : SUBSET (Namespaces \X Hashes),
          retry        : SUBSET (Namespaces \X Hashes),
          task         : [Hashes -> Task]]

\* QueuedIsDownloading of a queue.
Agrees(qs) ==
    \A h \in Hashes :
        /\ qs.by_hash[h] = {n \in Namespaces : h \in qs.by_namespace[n]}
        /\ qs.by_hash[h] = {} <=> qs.task[h] = NoTask
        /\ qs.task[h] # NoTask => qs.task[h].ns \in qs.by_hash[h]

\* The inductive invariant.
Inv == /\ TypeOK
       /\ q \in QType
       /\ Agrees(q)
       /\ owed = may_emit
       /\ \A n \in owed : q.by_namespace[n] # {}

-----------------------------------------------------------------------------
(* The queue                                                               *)

\* The fields of a queue, one by one.
LEMMA QueueRecord ==
    ASSUME NEW qs \in QType
    PROVE  /\ qs = [by_hash |-> qs.by_hash, by_namespace |-> qs.by_namespace,
                    missing |-> qs.missing, retry |-> qs.retry, task |-> qs.task]
           /\ qs.by_hash \in [Hashes -> SUBSET Namespaces]
           /\ qs.by_namespace \in [Namespaces -> SUBSET Hashes]
           /\ qs.missing \in SUBSET (Namespaces \X Hashes)
           /\ qs.retry \in SUBSET (Namespaces \X Hashes)
           /\ qs.task \in [Hashes -> Task]
BY DEF QType

\* A task that is started is a task, and not NoTask.
LEMMA TaskIsNew ==
    ASSUME NEW ns \in Namespaces, NEW asked \in SUBSET Peers
    PROVE  /\ [ns |-> ns, asked |-> asked, res |-> "running"] \in Task
           /\ [ns |-> ns, asked |-> asked, res |-> "running"] # NoTask
BY DownloadsAssumption DEF Task, NoTask

\* What insert and Started make of a queue.
LEMMA InsertForm ==
    ASSUME NEW qs \in QType, NEW ns \in Namespaces, NEW hs \in SUBSET Hashes
    PROVE  /\ insert(qs, ns, hs) \in QType
           /\ insert(qs, ns, hs).by_hash
                = [h \in Hashes |-> IF h \in hs THEN qs.by_hash[h] \cup {ns} ELSE qs.by_hash[h]]
           /\ insert(qs, ns, hs).by_namespace = [qs.by_namespace EXCEPT ![ns] = @ \cup hs]
           /\ insert(qs, ns, hs).task = qs.task
<1> DEFINE bh == [h \in Hashes |-> IF h \in hs THEN qs.by_hash[h] \cup {ns} ELSE qs.by_hash[h]]
<1>1. bh \in [Hashes -> SUBSET Namespaces]
  BY QueueRecord
<1>2. insert(qs, ns, hs) = [qs EXCEPT !.by_hash = bh, !.by_namespace[ns] = @ \cup hs]
  BY DEF insert
<1> HIDE DEF bh
<1>3. [qs EXCEPT !.by_hash = bh, !.by_namespace[ns] = @ \cup hs] \in QType
  BY <1>1, Zenon DEF QType
<1>4. /\ insert(qs, ns, hs).by_hash = bh
      /\ insert(qs, ns, hs).by_namespace = [qs.by_namespace EXCEPT ![ns] = @ \cup hs]
      /\ insert(qs, ns, hs).task = qs.task
  BY <1>2 DEF QType
<1> QED
  BY <1>2, <1>3, <1>4 DEF bh

LEMMA StartedForm ==
    ASSUME NEW qs \in QType, NEW ns \in Namespaces, NEW hs \in SUBSET Hashes,
           NEW asked \in [Hashes -> SUBSET Peers]
    PROVE  /\ Started(qs, ns, hs, asked) \in QType
           /\ Started(qs, ns, hs, asked).by_hash = qs.by_hash
           /\ Started(qs, ns, hs, asked).by_namespace = qs.by_namespace
           /\ Started(qs, ns, hs, asked).task
                = [h \in Hashes |->
                      IF h \in hs THEN [ns |-> ns, asked |-> asked[h], res |-> "running"]
                      ELSE qs.task[h]]
<1> DEFINE tk == [h \in Hashes |->
                    IF h \in hs THEN [ns |-> ns, asked |-> asked[h], res |-> "running"]
                    ELSE qs.task[h]]
<1>1. tk \in [Hashes -> Task]
  <2> SUFFICES ASSUME NEW h \in Hashes
               PROVE  (IF h \in hs THEN [ns |-> ns, asked |-> asked[h], res |-> "running"]
                       ELSE qs.task[h]) \in Task
    OBVIOUS
  <2>1. asked[h] \in SUBSET Peers /\ qs.task[h] \in Task
    BY QueueRecord
  <2> QED
    BY <2>1, TaskIsNew
<1>2. Started(qs, ns, hs, asked) = [qs EXCEPT !.task = tk]
  BY DEF Started
<1> HIDE DEF tk
<1>3. [qs EXCEPT !.task = tk] \in QType
  BY <1>1 DEF QType
<1>4. /\ Started(qs, ns, hs, asked).by_hash = qs.by_hash
      /\ Started(qs, ns, hs, asked).by_namespace = qs.by_namespace
      /\ Started(qs, ns, hs, asked).task = tk
  BY <1>2 DEF QType
<1> QED
  BY <1>2, <1>3, <1>4 DEF tk

\* Queueing hashes keeps the queue consistent when exactly those are started that
\* are not under way.
Enqueued(qs, r, ns, add, new) ==
    /\ \A h \in add \ new : qs.by_hash[h] # {}
    /\ \A h \in new : h \in add /\ r.task[h] # NoTask /\ r.task[h].ns = ns
    /\ \A h \in Hashes \ new : r.task[h] = qs.task[h]
    /\ \A h \in Hashes : r.by_hash[h] = IF h \in add THEN qs.by_hash[h] \cup {ns}
                                        ELSE qs.by_hash[h]
    /\ \A n \in Namespaces : r.by_namespace[n] = IF n = ns THEN qs.by_namespace[n] \cup add
                                                 ELSE qs.by_namespace[n]

LEMMA Enqueue ==
    ASSUME NEW qs \in QType, Agrees(qs), NEW ns \in Namespaces,
           NEW add, NEW new, NEW r, Enqueued(qs, r, ns, add, new)
    PROVE  Agrees(r)
<1> USE DEF Enqueued
<1> SUFFICES ASSUME NEW h \in Hashes
             PROVE  /\ r.by_hash[h] = {n \in Namespaces : h \in r.by_namespace[n]}
                    /\ r.by_hash[h] = {} <=> r.task[h] = NoTask
                    /\ r.task[h] # NoTask => r.task[h].ns \in r.by_hash[h]
  BY DEF Agrees
<1>1. /\ qs.by_hash[h] = {n \in Namespaces : h \in qs.by_namespace[n]}
      /\ qs.by_hash[h] = {} <=> qs.task[h] = NoTask
      /\ qs.task[h] # NoTask => qs.task[h].ns \in qs.by_hash[h]
  BY DEF Agrees
<1>2. r.by_hash[h] = {n \in Namespaces : h \in r.by_namespace[n]}
  <2>1. CASE h \in add
    BY <1>1, <2>1, ZenonT(30)
  <2>2. CASE h \notin add
    BY <1>1, <2>2, ZenonT(30)
  <2> QED
    BY <2>1, <2>2
<1>3. CASE h \in new
  <2>1. ns \in r.by_hash[h]
    BY <1>3, Zenon
  <2> QED
    BY <1>2, <1>3, <2>1
<1>4. CASE h \notin new
  <2>1. h \in add => qs.by_hash[h] # {}
    BY <1>4
  <2>2. r.task[h] = qs.task[h]
    BY <1>4
  <2>3. r.by_hash[h] = IF h \in add THEN qs.by_hash[h] \cup {ns} ELSE qs.by_hash[h]
    OBVIOUS
  <2> QED
    BY <1>1, <1>2, <2>1, <2>2, <2>3
<1> QED
  BY <1>3, <1>4

\* queue_download keeps the queue consistent and takes nothing out of it.
LEMMA QueueDownload ==
    ASSUME NEW qs \in QType, Agrees(qs), NEW ns \in Namespaces,
           NEW hs \in SUBSET Hashes, NEW asked \in [Hashes -> SUBSET Peers],
           NEW only \in BOOLEAN
    PROVE  /\ queue_download(qs, ns, hs, asked, only) \in QType
           /\ Agrees(queue_download(qs, ns, hs, asked, only))
           /\ \A n \in Namespaces :
                qs.by_namespace[n] \subseteq queue_download(qs, ns, hs, asked, only).by_namespace[n]
<1> DEFINE absent == hs \ complete
           joined == {h \in absent : qs.by_hash[h] # {}}
           new    == {h \in absent \ joined : only => <<ns, h>> \in qs.missing}
           gone   == {ns} \X (new \cup (hs \cap complete))
           add    == joined \cup new
           i == insert(qs, ns, add)
           s == Started(i, ns, new, asked)
           r == queue_download(qs, ns, hs, asked, only)
<1>1. r = [s EXCEPT !.missing = @ \ gone]
  BY DEF queue_download
<1>2. /\ add \in SUBSET Hashes /\ new \in SUBSET Hashes /\ new \in SUBSET add
      /\ \A h \in add \ new : qs.by_hash[h] # {}
  OBVIOUS
<1> HIDE DEF add, new, gone, r
<1>3. /\ i \in QType
      /\ i.by_hash = [h \in Hashes |-> IF h \in add THEN qs.by_hash[h] \cup {ns} ELSE qs.by_hash[h]]
      /\ i.by_namespace = [qs.by_namespace EXCEPT ![ns] = @ \cup add]
      /\ i.task = qs.task
  BY <1>2, InsertForm
<1> HIDE DEF i
<1>4. /\ s \in QType
      /\ s.by_hash = i.by_hash /\ s.by_namespace = i.by_namespace
      /\ s.task = [h \in Hashes |->
                     IF h \in new THEN [ns |-> ns, asked |-> asked[h], res |-> "running"]
                     ELSE i.task[h]]
  BY <1>2, <1>3, StartedForm
<1> HIDE DEF s
<1>5. s.missing \ gone \in SUBSET (Namespaces \X Hashes)
  BY <1>4, QueueRecord
<1>6. r \in QType /\ r.by_hash = s.by_hash /\ r.by_namespace = s.by_namespace /\ r.task = s.task
  BY <1>1, <1>4, <1>5 DEF QType
<1>7. \A n \in Namespaces :
         r.by_namespace[n] = IF n = ns THEN qs.by_namespace[n] \cup add ELSE qs.by_namespace[n]
  <2>1. r.by_namespace = [qs.by_namespace EXCEPT ![ns] = @ \cup add]
    BY <1>3, <1>4, <1>6
  <2>2. qs.by_namespace \in [Namespaces -> SUBSET Hashes]
    BY QueueRecord
  <2> QED
    BY <2>1, <2>2, Zenon
<1>8. \A h \in Hashes : r.by_hash[h] = IF h \in add THEN qs.by_hash[h] \cup {ns}
                                       ELSE qs.by_hash[h]
  BY <1>3, <1>4, <1>6
<1>9. /\ \A h \in new : h \in add /\ r.task[h] # NoTask /\ r.task[h].ns = ns
      /\ \A h \in Hashes \ new : r.task[h] = qs.task[h]
  <2>1. r.task = [h \in Hashes |->
                    IF h \in new THEN [ns |-> ns, asked |-> asked[h], res |-> "running"]
                    ELSE qs.task[h]]
    BY <1>3, <1>4, <1>6
  <2>2. ASSUME NEW h \in new PROVE h \in add /\ r.task[h] # NoTask /\ r.task[h].ns = ns
    <3> DEFINE t == [ns |-> ns, asked |-> asked[h], res |-> "running"]
    <3>1. h \in Hashes /\ h \in add /\ asked[h] \in SUBSET Peers
      BY <1>2
    <3>2. r.task[h] = t
      BY <2>1, <3>1
    <3>3. t # NoTask
      BY <3>1, TaskIsNew
    <3> QED
      BY <3>1, <3>2, <3>3
  <2>3. \A h \in Hashes \ new : r.task[h] = qs.task[h]
    BY <2>1
  <2> QED
    BY <2>2, <2>3
<1>10. Agrees(r)
  <2>1. Enqueued(qs, r, ns, add, new)
    BY <1>2, <1>7, <1>8, <1>9 DEF Enqueued
  <2> QED
    BY <2>1, Enqueue
<1>11. \A n \in Namespaces : qs.by_namespace[n] \subseteq r.by_namespace[n]
  BY <1>7, Zenon
<1> QED
  BY <1>6, <1>10, <1>11 DEF r

\* remove_hash together with the end of the task keeps the queue consistent.
LEMMA Dequeue ==
    ASSUME NEW qs \in QType, Agrees(qs), NEW h \in Hashes,
           NEW r,
           \A g \in Hashes : /\ r.by_hash[g] = IF g = h THEN {} ELSE qs.by_hash[g]
                             /\ r.task[g] = IF g = h THEN NoTask ELSE qs.task[g],
           \A n \in Namespaces : r.by_namespace[n] = qs.by_namespace[n] \ {h}
    PROVE  Agrees(r)
<1> SUFFICES ASSUME NEW g \in Hashes
             PROVE  /\ r.by_hash[g] = {n \in Namespaces : g \in r.by_namespace[n]}
                    /\ r.by_hash[g] = {} <=> r.task[g] = NoTask
                    /\ r.task[g] # NoTask => r.task[g].ns \in r.by_hash[g]
  BY DEF Agrees
<1>1. /\ qs.by_hash[g] = {n \in Namespaces : g \in qs.by_namespace[n]}
      /\ qs.by_hash[g] = {} <=> qs.task[g] = NoTask
      /\ qs.task[g] # NoTask => qs.task[g].ns \in qs.by_hash[g]
  BY DEF Agrees
<1>2. CASE g = h
  BY <1>2
<1>3. CASE g # h
  BY <1>1, <1>3
<1> QED
  BY <1>2, <1>3

LEMMA RemoveHash ==
    ASSUME NEW qs \in QType, Agrees(qs), NEW h \in Hashes
    PROVE  LET r == [remove_hash(qs, h) EXCEPT !.task[h] = NoTask]
           IN  /\ r \in QType
               /\ Agrees(r)
               /\ r.missing = qs.missing /\ r.retry = qs.retry
               /\ \A n \in Namespaces : r.by_namespace[n] = qs.by_namespace[n] \ {h}
<1> DEFINE bn == [n \in Namespaces |-> IF n \in qs.by_hash[h] THEN qs.by_namespace[n] \ {h}
                                       ELSE qs.by_namespace[n]]
           o  == remove_hash(qs, h)
           r  == [o EXCEPT !.task[h] = NoTask]
<1>1. bn \in [Namespaces -> SUBSET Hashes]
  BY QueueRecord
<1>2. NoTask \in Task
  BY DEF Task
<1>3. o = [qs EXCEPT !.by_hash[h] = {}, !.by_namespace = bn]
  BY DEF remove_hash
<1>4. \A n \in Namespaces : bn[n] = qs.by_namespace[n] \ {h}
  <2>1. qs.by_hash[h] = {n \in Namespaces : h \in qs.by_namespace[n]}
    BY DEF Agrees
  <2> QED
    BY <2>1
<1> HIDE DEF bn, o
<1>5. o \in QType
  BY <1>1, <1>3, Zenon DEF QType
<1>6. /\ o.by_hash = [qs.by_hash EXCEPT ![h] = {}] /\ o.by_namespace = bn
      /\ o.task = qs.task /\ o.missing = qs.missing /\ o.retry = qs.retry
  BY <1>3 DEF QType
<1>7. r \in QType
  BY <1>2, <1>5, Zenon DEF QType
<1>8. /\ r.by_hash = o.by_hash /\ r.by_namespace = o.by_namespace
      /\ r.task = [o.task EXCEPT ![h] = NoTask]
      /\ r.missing = o.missing /\ r.retry = o.retry
  BY <1>5 DEF QType
<1> HIDE DEF r
<1>9. \A g \in Hashes : /\ r.by_hash[g] = IF g = h THEN {} ELSE qs.by_hash[g]
                        /\ r.task[g] = IF g = h THEN NoTask ELSE qs.task[g]
  <2>1. r.by_hash = [qs.by_hash EXCEPT ![h] = {}] /\ r.task = [qs.task EXCEPT ![h] = NoTask]
    BY <1>6, <1>8
  <2>2. qs.by_hash \in [Hashes -> SUBSET Namespaces] /\ qs.task \in [Hashes -> Task]
    BY QueueRecord
  <2> QED
    BY <2>1, <2>2
<1>10. \A n \in Namespaces : r.by_namespace[n] = qs.by_namespace[n] \ {h}
  BY <1>4, <1>6, <1>8
<1>11. Agrees(r)
  BY <1>9, <1>10, Dequeue
<1> QED
  BY <1>6, <1>7, <1>8, <1>10, <1>11 DEF r, o
-----------------------------------------------------------------------------
(* The invariant                                                           *)

LEMMA InitInv == Init => Inv
<1> SUFFICES ASSUME Init PROVE Inv
  OBVIOUS
<1>1. NoTask \in Task
  BY DEF Task
<1>2. q \in QType
  BY <1>1 DEF Init, QType
<1>3. Agrees(q)
  BY DEF Init, Agrees
<1>4. TypeOK
  BY <1>2, QueueRecord, DownloadsAssumption DEF Init, TypeOK
<1> QED
  BY <1>2, <1>3, <1>4 DEF Init, Inv

\* Types of the queue's fields in TypeOK follow from the queue's type.
LEMMA TypeFromQueue ==
    ASSUME q \in QType
    PROVE  /\ q.by_hash \in [Hashes -> SUBSET Namespaces]
           /\ q.by_namespace \in [Namespaces -> SUBSET Hashes]
           /\ q.missing \subseteq Namespaces \X Hashes
           /\ q.retry \subseteq Namespaces \X Hashes
           /\ q.task \in [Hashes -> Task]
BY QueueRecord

\* The other variables.
RestOK == /\ providers \in [Hashes -> SUBSET Peers]
          /\ complete \subseteq Hashes
          /\ syncing \subseteq Namespaces
          /\ may_emit \subseteq syncing
          /\ holders \in [Hashes -> SUBSET Peers]
          /\ events \in 0 .. MaxEvents
          /\ ready \cup owed \subseteq Namespaces
          /\ promised \subseteq Namespaces \X Hashes

LEMMA InvForm ==
    Inv <=> /\ RestOK /\ q \in QType /\ Agrees(q) /\ owed = may_emit
            /\ \A n \in owed : q.by_namespace[n] # {}
BY TypeFromQueue DEF Inv, TypeOK, RestOK

\* start_download keeps the queue consistent and takes nothing out of it.
LEMMA StartDownload ==
    ASSUME NEW qs \in QType, Agrees(qs), RestOK, NEW ns \in Namespaces,
           NEW hs \in SUBSET Hashes, NEW peer \in Peers, NEW only \in BOOLEAN,
           start_download(qs, ns, hs, peer, only)
    PROVE  /\ q' \in QType /\ Agrees(q')
           /\ providers' \in [Hashes -> SUBSET Peers]
           /\ \A n \in Namespaces : qs.by_namespace[n] \subseteq q'.by_namespace[n]
<1>1. providers' \in [Hashes -> SUBSET Peers]
  BY DEF start_download, Registered, RestOK
<1>2. q' = queue_download(qs, ns, hs, providers', only)
  BY DEF start_download
<1> QED
  BY <1>1, <1>2, QueueDownload, Zenon

LEMMA EventCounts == ASSUME RestOK, Event PROVE events' \in 0 .. MaxEvents /\ events' # events
BY DownloadsAssumption DEF RestOK, Event

\* Steps that grow the queue and leave the flags alone.
LEMMA GrowingStep ==
    ASSUME Inv, q' \in QType, Agrees(q'), providers' \in [Hashes -> SUBSET Peers],
           \A n \in Namespaces : q.by_namespace[n] \subseteq q'.by_namespace[n],
           Event, ready' = {}, UNCHANGED <<complete, syncing, may_emit, holders, owed>>,
           promised' \subseteq Namespaces \X Hashes
    PROVE  Inv'
<1>1. RestOK'
  BY InvForm, EventCounts DEF RestOK
<1>2. \A n \in owed' : q'.by_namespace[n] # {}
  BY InvForm DEF RestOK
<1> QED
  BY <1>1, <1>2, InvForm DEF Inv, TypeOK, RestOK, QType

\* Only missing or retry changes.
LEMMA SideTables ==
    ASSUME NEW qs \in QType, Agrees(qs), NEW m \in SUBSET (Namespaces \X Hashes)
    PROVE  /\ [qs EXCEPT !.missing = m] \in QType /\ Agrees([qs EXCEPT !.missing = m])
           /\ [qs EXCEPT !.missing = m].by_namespace = qs.by_namespace
           /\ [qs EXCEPT !.missing = m].retry = qs.retry
           /\ [qs EXCEPT !.retry = m] \in QType /\ Agrees([qs EXCEPT !.retry = m])
           /\ [qs EXCEPT !.retry = m].by_namespace = qs.by_namespace
           /\ [qs EXCEPT !.retry = m].missing = qs.missing
<1>1. [qs EXCEPT !.missing = m] \in QType /\ [qs EXCEPT !.retry = m] \in QType
  BY DEF QType
<1>2. /\ [qs EXCEPT !.missing = m].by_hash = qs.by_hash
      /\ [qs EXCEPT !.missing = m].by_namespace = qs.by_namespace
      /\ [qs EXCEPT !.missing = m].task = qs.task
      /\ [qs EXCEPT !.missing = m].retry = qs.retry
  BY DEF QType
<1>3. /\ [qs EXCEPT !.retry = m].by_hash = qs.by_hash
      /\ [qs EXCEPT !.retry = m].by_namespace = qs.by_namespace
      /\ [qs EXCEPT !.retry = m].task = qs.task
      /\ [qs EXCEPT !.retry = m].missing = qs.missing
  BY DEF QType
<1>4. Agrees([qs EXCEPT !.missing = m])
  BY <1>2, Zenon DEF Agrees
<1>5. Agrees([qs EXCEPT !.retry = m])
  BY <1>3, Zenon DEF Agrees
<1> QED
  BY <1>1, <1>2, <1>3, <1>4, <1>5

\* The end of a download takes its hash out, and at most puts it back.
LEMMA AfterDownloadForm ==
    ASSUME Inv, NEW h \in Hashes, q.task[h].res \in {"Ok", "Err"}
    PROVE  /\ AfterDownload(h) \in QType
           /\ Agrees(AfterDownload(h))
           /\ \A n \in Namespaces : q.by_namespace[n] \ {h} \subseteq AfterDownload(h).by_namespace[n]
<1> DEFINE ns  == q.task[h].ns
           out == [remove_hash(q, h) EXCEPT !.task[h] = NoTask]
           ok  == [out EXCEPT !.retry = {p \in @ : p[2] # h}]
           pk  == [out EXCEPT !.missing = @ \cup {<<ns, h>>}]
           mr  == [out EXCEPT !.missing = @ \cup {<<ns, h>>}, !.retry = @ \ {<<ns, h>>}]
           ag  == queue_download(mr, ns, {h}, providers, TRUE)
           Kept(r) == /\ r \in QType /\ Agrees(r)
                      /\ \A n \in Namespaces : q.by_namespace[n] \ {h} \subseteq r.by_namespace[n]
<1>1. q \in QType /\ Agrees(q) /\ providers \in [Hashes -> SUBSET Peers]
  BY DEF Inv, TypeOK
<1>2. ns \in Namespaces
  <2>1. q.task[h] \in Task
    BY <1>1, QueueRecord
  <2>2. q.task[h] # NoTask
    BY DEF NoTask
  <2> QED
    BY <2>1, <2>2 DEF Task
<1>3. /\ out \in QType /\ Agrees(out)
      /\ \A n \in Namespaces : out.by_namespace[n] = q.by_namespace[n] \ {h}
  BY <1>1, RemoveHash
<1>4. AfterDownload(h) = IF q.task[h].res = "Ok" THEN ok
                         ELSE IF <<ns, h>> \in q.retry THEN ag ELSE pk
  BY DEF AfterDownload
<1> HIDE DEF out, ns
<1>5. /\ {p \in out.retry : p[2] # h} \in SUBSET (Namespaces \X Hashes)
      /\ out.missing \cup {<<ns, h>>} \in SUBSET (Namespaces \X Hashes)
      /\ out.retry \ {<<ns, h>>} \in SUBSET (Namespaces \X Hashes)
  BY <1>2, <1>3, QueueRecord
<1>6. Kept(ok)
  BY <1>3, <1>5, SideTables, Zenon
<1>7. Kept(pk) /\ pk.retry = out.retry
  BY <1>3, <1>5, SideTables, ZenonT(30)
<1>8. mr = [pk EXCEPT !.retry = out.retry \ {<<ns, h>>}]
  BY <1>3 DEF QType
<1>9. Kept(mr)
  <2> HIDE DEF pk, mr
  <2> QED
    BY <1>5, <1>7, <1>8, SideTables, Zenon
<1>10. Kept(ag)
  <2> HIDE DEF mr
  <2>1. {h} \in SUBSET Hashes
    OBVIOUS
  <2>2. /\ ag \in QType /\ Agrees(ag)
        /\ \A n \in Namespaces : mr.by_namespace[n] \subseteq ag.by_namespace[n]
    BY <1>1, <1>2, <1>9, <2>1, QueueDownload, Zenon
  <2> QED
    BY <1>9, <2>2, Zenon
<1> HIDE DEF ok, ag, pk
<1> QED
  BY <1>4, <1>6, <1>7, <1>10

LEMMA DownloadReadyKeepsInv ==
    ASSUME Inv, NEW h \in Hashes, on_download_ready(h)
    PROVE  Inv'
<1>1. /\ q' \in QType /\ Agrees(q')
      /\ \A n \in Namespaces : q.by_namespace[n] \ {h} \subseteq q'.by_namespace[n]
  BY AfterDownloadForm DEF on_download_ready
<1>2. RestOK /\ q \in QType /\ Agrees(q) /\ owed = may_emit /\ \A n \in owed : q.by_namespace[n] # {}
  BY InvForm
<1>3. ToTell(h) \subseteq may_emit
  BY DEF ToTell
<1>4. RestOK'
  BY <1>2, <1>3 DEF RestOK, on_download_ready
<1>5. owed' = may_emit'
  BY <1>2 DEF on_download_ready
<1>6. ASSUME NEW n \in owed' PROVE q'.by_namespace[n] # {}
  <2>1. n \in Namespaces /\ n \in may_emit /\ q.by_namespace[n] # {} /\ n \notin ToTell(h)
    BY <1>2 DEF on_download_ready, RestOK
  <2>2. n \notin q.by_hash[h] \/ q.by_namespace[n] # {h}
    BY <2>1 DEF ToTell, completed_namespaces
  <2>3. n \in q.by_hash[h] <=> h \in q.by_namespace[n]
    BY <1>2, <2>1 DEF Agrees
  <2>4. q.by_namespace[n] \ {h} # {}
    BY <2>1, <2>2, <2>3
  <2> QED
    BY <1>1, <2>1, <2>4
<1> QED
  BY <1>1, <1>4, <1>5, <1>6, TypeFromQueue DEF Inv, TypeOK, RestOK, QType

\* The exchange's part that touches the queue.
LEMMA RetryContentForm ==
    ASSUME Inv, NEW ns \in Namespaces, NEW peer \in Peers, RetryContent(ns, peer)
    PROVE  /\ q' \in QType /\ Agrees(q')
           /\ providers' \in [Hashes -> SUBSET Peers]
           /\ promised' \subseteq Namespaces \X Hashes
           /\ \A n \in Namespaces : q.by_namespace[n] \subseteq q'.by_namespace[n]
<1> DEFINE hs == Parked(q, ns) \cup q.by_namespace[ns]
<1>1. RestOK /\ q \in QType /\ Agrees(q)
  BY InvForm
<1>2. hs \in SUBSET Hashes
  BY <1>1, QueueRecord DEF Parked
<1>3. Retried(q, ns) = [q EXCEPT !.retry = q.retry \cup ({ns} \X q.by_namespace[ns])]
  BY DEF Retried
<1>4. q.retry \cup ({ns} \X q.by_namespace[ns]) \in SUBSET (Namespaces \X Hashes)
  BY <1>1, QueueRecord
<1>5. Retried(q, ns) \in QType /\ Agrees(Retried(q, ns))
      /\ Retried(q, ns).by_namespace = q.by_namespace
  <2> DEFINE m == q.retry \cup ({ns} \X q.by_namespace[ns])
  <2>1. m \in SUBSET (Namespaces \X Hashes) /\ Retried(q, ns) = [q EXCEPT !.retry = m]
    BY <1>3, <1>4
  <2> HIDE DEF m
  <2> QED
    BY <1>1, <2>1, SideTables, ZenonT(30)
<1>6. start_download(Retried(q, ns), ns, hs, peer, TRUE)
  BY Zenon DEF RetryContent
<1>7. promised' \subseteq Namespaces \X Hashes
  BY <1>1, <1>2 DEF RetryContent, RestOK
<1> HIDE DEF hs
<1>8. /\ q' \in QType /\ Agrees(q')
      /\ providers' \in [Hashes -> SUBSET Peers]
      /\ \A n \in Namespaces : Retried(q, ns).by_namespace[n] \subseteq q'.by_namespace[n]
  BY <1>1, <1>2, <1>5, <1>6, StartDownload, Zenon
<1> QED
  BY <1>5, <1>7, <1>8

LEMMA SyncFinishedKeepsInv ==
    ASSUME Inv, NEW ns \in Namespaces, NEW peer \in Peers, NEW ok \in BOOLEAN,
           NEW expected \in BOOLEAN, on_sync_finished(ns, peer, ok, expected)
    PROVE  Inv'
<1>1. RestOK /\ q \in QType /\ Agrees(q) /\ owed = may_emit /\ \A n \in owed : q.by_namespace[n] # {}
  BY InvForm
<1>2. /\ q' \in QType /\ Agrees(q')
      /\ providers' \in [Hashes -> SUBSET Peers]
      /\ promised' \subseteq Namespaces \X Hashes
      /\ \A n \in Namespaces : q.by_namespace[n] \subseteq q'.by_namespace[n]
  <2>1. CASE ok
    BY <2>1, RetryContentForm DEF on_sync_finished
  <2>2. CASE ~ ok
    BY <1>1, <2>2 DEF on_sync_finished, RestOK
  <2> QED
    BY <2>1, <2>2
<1>3. events' \in 0 .. MaxEvents
  BY <1>1, EventCounts DEF on_sync_finished
<1>4. /\ may_emit' \subseteq syncing /\ owed' = may_emit'
      /\ ready' \subseteq Namespaces /\ owed' \subseteq Namespaces
      /\ \A n \in owed' : q'.by_namespace[n] # {}
  <2>1. \A n \in owed : n \in Namespaces /\ q'.by_namespace[n] # {}
    BY <1>1, <1>2 DEF RestOK
  <2>2. CASE expected /\ q'.by_namespace[ns] # {}
    <3>1. may_emit' = may_emit \cup {ns} /\ owed' = owed \cup {ns} /\ ready' = {} /\ ns \in syncing
      BY <2>2, Zenon DEF on_sync_finished, TellReady
    <3>2. may_emit \subseteq syncing /\ owed \subseteq Namespaces
      BY <1>1 DEF RestOK
    <3> QED
      BY <1>1, <2>1, <2>2, <3>1, <3>2, Zenon
  <2>3. CASE expected /\ q'.by_namespace[ns] = {}
    BY <1>1, <2>1, <2>3, Zenon DEF on_sync_finished, TellReady, RestOK
  <2>4. CASE ~ expected
    BY <1>1, <2>1, <2>4 DEF on_sync_finished, RestOK
  <2> QED
    BY <2>2, <2>3, <2>4
<1>5. RestOK'
  BY <1>1, <1>2, <1>3, <1>4 DEF RestOK, on_sync_finished
<1> QED
  BY <1>2, <1>4, <1>5 DEF Inv, TypeOK, RestOK, QType

LEMMA DownloadEndsKeepsInv ==
    ASSUME Inv, NEW h \in Hashes, NEW ok \in BOOLEAN, DownloadEnds(h, ok)
    PROVE  Inv'
<1> DEFINE res == IF ok THEN "Ok" ELSE "Err"
           t   == [q.task[h] EXCEPT !.res = res]
<1>1. RestOK /\ q \in QType /\ Agrees(q) /\ owed = may_emit /\ \A n \in owed : q.by_namespace[n] # {}
  BY InvForm
<1>2. q.task[h] \in Task /\ q.task[h] # NoTask
  <2>1. q.task[h] \in Task
    BY <1>1, QueueRecord
  <2> QED
    BY <2>1 DEF DownloadEnds, NoTask
<1>3. t \in Task /\ t # NoTask /\ t.ns = q.task[h].ns
  <2>1. q.task[h] \in [ns : Namespaces, asked : SUBSET Peers, res : {"running", "Ok", "Err"}]
    BY <1>2 DEF Task
  <2>2. t \in [ns : Namespaces, asked : SUBSET Peers, res : {"running", "Ok", "Err"}]
    BY <2>1
  <2>3. t.res # "none" /\ t.ns = q.task[h].ns
    BY <2>1
  <2> QED
    BY <2>2, <2>3 DEF Task, NoTask
<1>4. q' = [q EXCEPT !.task = [q.task EXCEPT ![h] = t]]
  BY <1>1 DEF DownloadEnds, QType
<1> HIDE DEF t
<1>5. q' \in QType
  BY <1>1, <1>3, <1>4 DEF QType
<1>6. /\ q'.by_hash = q.by_hash /\ q'.by_namespace = q.by_namespace
      /\ \A g \in Hashes : q'.task[g] = IF g = h THEN t ELSE q.task[g]
  BY <1>1, <1>4 DEF QType
<1>7. Agrees(q')
  <2> SUFFICES ASSUME NEW g \in Hashes
               PROVE  /\ q'.by_hash[g] = {n \in Namespaces : g \in q'.by_namespace[n]}
                      /\ q'.by_hash[g] = {} <=> q'.task[g] = NoTask
                      /\ q'.task[g] # NoTask => q'.task[g].ns \in q'.by_hash[g]
    BY DEF Agrees
  <2>1. /\ q.by_hash[g] = {n \in Namespaces : g \in q.by_namespace[n]}
        /\ q.by_hash[g] = {} <=> q.task[g] = NoTask
        /\ q.task[g] # NoTask => q.task[g].ns \in q.by_hash[g]
    BY <1>1 DEF Agrees
  <2>2. CASE g = h
    BY <1>2, <1>3, <1>6, <2>1, <2>2
  <2>3. CASE g # h
    BY <1>6, <2>1, <2>3
  <2> QED
    BY <2>2, <2>3
<1>8. RestOK'
  BY <1>1 DEF RestOK, DownloadEnds
<1>9. owed' = may_emit' /\ \A n \in owed' : q'.by_namespace[n] # {}
  BY <1>1, <1>6 DEF DownloadEnds
<1> QED
  BY <1>5, <1>7, <1>8, <1>9 DEF Inv, TypeOK, RestOK, QType

LEMMA NextInv == Inv /\ [Next]_vars => Inv'
<1> SUFFICES ASSUME Inv, [Next]_vars PROVE Inv'
  OBVIOUS
<1>1. RestOK /\ q \in QType /\ Agrees(q) /\ owed = may_emit /\ \A n \in owed : q.by_namespace[n] # {}
  BY InvForm
<1>2. ASSUME NEW ns \in Namespaces, NEW h \in Hashes, NEW peer \in Peers,
             NEW c \in BOOLEAN, RemoteInsert(ns, h, peer, c)
      PROVE  Inv'
  <2>1. CASE c
    <3>1. start_download(q, ns, {h}, peer, FALSE)
      BY <1>2, <2>1, Zenon DEF RemoteInsert
    <3>2. {h} \in SUBSET Hashes
      OBVIOUS
    <3>3. /\ q' \in QType /\ Agrees(q') /\ providers' \in [Hashes -> SUBSET Peers]
          /\ \A n \in Namespaces : q.by_namespace[n] \subseteq q'.by_namespace[n]
      BY <1>1, <3>1, <3>2, StartDownload, Zenon
    <3> QED
      BY <1>1, <1>2, <3>3, GrowingStep DEF RemoteInsert, RestOK
  <2>2. CASE ~ c
    <3>1. q' = [q EXCEPT !.missing = q.missing \cup {<<ns, h>>}] /\ providers' = providers
      BY <1>2, <2>2 DEF RemoteInsert
    <3>2. q.missing \cup {<<ns, h>>} \in SUBSET (Namespaces \X Hashes)
      BY <1>1, QueueRecord
    <3>3. q' \in QType /\ Agrees(q') /\ q'.by_namespace = q.by_namespace
      BY <1>1, <3>1, <3>2, SideTables, Zenon
    <3> QED
      BY <1>1, <1>2, <3>1, <3>3, GrowingStep DEF RemoteInsert, RestOK
  <2> QED
    BY <2>1, <2>2
<1>3. ASSUME NEW ns \in Namespaces, NEW h \in Hashes, NEW peer \in Peers,
             on_neighbor_content_ready(ns, h, peer)
      PROVE  Inv'
  <2>1. start_download(q, ns, {h}, peer, TRUE)
    BY <1>3, Zenon DEF on_neighbor_content_ready
  <2>2. {h} \in SUBSET Hashes
    OBVIOUS
  <2>3. /\ q' \in QType /\ Agrees(q') /\ providers' \in [Hashes -> SUBSET Peers]
        /\ \A n \in Namespaces : q.by_namespace[n] \subseteq q'.by_namespace[n]
    BY <1>1, <2>1, <2>2, StartDownload, Zenon
  <2> QED
    BY <1>1, <1>3, <2>3, GrowingStep DEF on_neighbor_content_ready, RestOK
<1>4. ASSUME NEW ns \in Namespaces, leave(ns) \/ start_sync(ns) PROVE Inv'
  <2>1. events' \in 0 .. MaxEvents
    BY <1>1, <1>4, EventCounts DEF leave, start_sync
  <2>2. q' = q /\ RestOK' /\ owed' = may_emit' /\ owed' \subseteq owed
    BY <1>1, <1>4, <2>1, Zenon DEF leave, start_sync, RestOK
  <2> QED
    BY <1>1, <2>2 DEF Inv, TypeOK, RestOK, QType
<1>5. CASE UNCHANGED vars
  BY <1>1, <1>5 DEF vars, Inv, TypeOK, RestOK, QType
<1> QED
  BY <1>2, <1>3, <1>4, <1>5, SyncFinishedKeepsInv, DownloadReadyKeepsInv, DownloadEndsKeepsInv
     DEF Next

-----------------------------------------------------------------------------
(* The theorems                                                            *)

\* The inductive invariant holds in every state the live actor reaches.
THEOREM InvHolds == Spec => []Inv
BY InitInv, NextInv, PTL DEF Spec

\* The live actor's download tables stay well typed.
THEOREM DownloadsTypeCorrect == Spec => []TypeOK
<1>1. Inv => TypeOK
  BY DEF Inv
<1> QED
  BY <1>1, InvHolds, PTL

\* Through joins, failures and second tries (queue_download, on_download_ready), a
\* hash is queued exactly while its one download is under way, and the two maps
\* of QueuedHashes agree.
THEOREM QueueFollowsTheDownloads == Spec => []QueuedIsDownloading
<1>1. Inv => QueuedIsDownloading
  BY DEF Inv, Agrees, QueuedIsDownloading
<1> QED
  BY <1>1, InvHolds, PTL

\* A namespace that is owed its PendingContentReady has a download under way whose
\* end emits it (may_emit_ready, remove_hash).
THEOREM OwedEventsWillCome == Spec => []OwedIsQueued
<1>1. Inv => OwedIsQueued
  BY DEF Inv, OwedIsQueued
<1> QED
  BY <1>1, InvHolds, PTL

\* Every PendingContentReady answers a finished sync, and none is answered twice
\* (on_sync_finished, on_download_ready).
THEOREM ReadyOnceForASync == Spec => ReadyAnswersASync
<1>1. Inv /\ [Next]_vars => [\A n \in ready' : n \in owed \/ events' # events]_vars
  <2> SUFFICES ASSUME Inv, Next, NEW n \in ready', events' = events
               PROVE  n \in owed
    BY DEF vars
  <2>1. RestOK /\ owed = may_emit
    BY InvForm
  <2>2. ~ Event
    BY <2>1, EventCounts
  <2>3. PICK h \in Hashes : on_download_ready(h) \/ \E ok \in BOOLEAN : DownloadEnds(h, ok)
    BY <2>2, Zenon DEF Next, RemoteInsert, on_neighbor_content_ready, on_sync_finished, leave, start_sync
  <2>4. on_download_ready(h)
    BY <2>3 DEF DownloadEnds
  <2> QED
    BY <2>1, <2>4 DEF on_download_ready, ToTell
<1> QED
  BY <1>1, InvHolds, PTL DEF Spec, ReadyAnswersASync
=============================================================================
