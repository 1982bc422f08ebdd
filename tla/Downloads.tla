----------------------------- MODULE Downloads -----------------------------
(***************************************************************************)
(* The content downloads of one live actor (engine/live.rs): which hashes  *)
(* are queued, which are parked until a provider shows up, when a failed   *)
(* download is tried again, and when subscribers are told that all pending *)
(* content is there.                                                       *)
(*                                                                         *)
(*   q          the queue: by_hash and by_namespace (QueuedHashes), missing*)
(*              (missing_hashes), retry (retry_after_failure), and the     *)
(*              download task of each hash (download_tasks)                *)
(*   providers  hash_providers                                             *)
(*   complete   the hashes whose content is in the blob store              *)
(*   syncing    the namespaces in NamespaceStates                          *)
(*   may_emit   NamespaceState::may_emit_ready                             *)
(*   holders    the peers that really have the content of a hash           *)
(*   events     events from outside so far (bounded by MaxEvents)          *)
(* The downloader is external: it asks the providers known when a download *)
(* starts, finds the content if one of these has it, and may find it at a  *)
(* provider that was registered later.                                     *)
(* History: ready, the namespaces PendingContentReady went out for in the  *)
(* last step; owed, those with a SyncFinished it has not followed yet; and *)
(* promised, the content a namespace waited for or downloaded when it      *)
(* finished a sync with a peer that has it.                                *)
(***************************************************************************)
EXTENDS Integers, FiniteSets

CONSTANTS Namespaces, Hashes, Peers, NoNamespace, MaxEvents

ASSUME DownloadsAssumption == NoNamespace \notin Namespaces /\ MaxEvents \in Nat

VARIABLES q, providers, complete, syncing, may_emit, holders, events, ready, owed, promised

vars == <<q, providers, complete, syncing, may_emit, holders, events, ready, owed, promised>>

NoTask == [ns |-> NoNamespace, asked |-> {}, res |-> "none"]

Task == [ns : Namespaces, asked : SUBSET Peers, res : {"running", "Ok", "Err"}] \cup {NoTask}

TypeOK ==
    /\ q.by_hash \in [Hashes -> SUBSET Namespaces]
    /\ q.by_namespace \in [Namespaces -> SUBSET Hashes]
    /\ q.missing \subseteq Namespaces \X Hashes
    /\ q.retry \subseteq Namespaces \X Hashes
    /\ q.task \in [Hashes -> Task]
    /\ providers \in [Hashes -> SUBSET Peers]
    /\ complete \subseteq Hashes
    /\ syncing \subseteq Namespaces
    /\ may_emit \subseteq syncing
    /\ holders \in [Hashes -> SUBSET Peers]
    /\ events \in 0 .. MaxEvents
    /\ ready \cup owed \subseteq Namespaces
    /\ promised \subseteq Namespaces \X Hashes

Init ==
    /\ q = [by_hash |-> [h \in Hashes |-> {}], by_namespace |-> [n \in Namespaces |-> {}],
            missing |-> {}, retry |-> {}, task |-> [h \in Hashes |-> NoTask]]
    /\ providers = [h \in Hashes |-> {}]
    /\ complete = {}
    /\ syncing = Namespaces
    /\ may_emit = {}
    /\ holders \in [Hashes -> SUBSET Peers]
    /\ events = 0
    /\ ready = {}
    /\ owed = {}
    /\ promised = {}

-----------------------------------------------------------------------------
(* The queue                                                               *)

\* QueuedHashes::insert, for each of the hashes.
insert(qs, ns, hs) ==
    [qs EXCEPT !.by_hash = [h \in Hashes |-> IF h \in hs THEN @[h] \cup {ns} ELSE @[h]],
               !.by_namespace[ns] = @ \cup hs]

\* Variant: only one of the maps is brought up to date.
remove_hash_by_hash_only(qs, h) == [qs EXCEPT !.by_hash[h] = {}]

\* QueuedHashes::remove_hash.
remove_hash(qs, h) ==
    [qs EXCEPT !.by_hash[h] = {},
               !.by_namespace = [n \in Namespaces |->
                                   IF n \in qs.by_hash[h] THEN @[n] \ {h} ELSE @[n]]]

\* The namespaces remove_hash leaves without queued hashes.
completed_namespaces(qs, h) == {n \in qs.by_hash[h] : qs.by_namespace[n] = {h}}

Started(qs, ns, hs, asked) ==
    [qs EXCEPT !.task = [h \in Hashes |->
        IF h \in hs THEN [ns |-> ns, asked |-> asked[h], res |-> "running"] ELSE @[h]]]

\* queue_download for each of the hashes, with the providers registered so far:
\* content that is there is not missing any more, a download under way is joined,
\* and one is started for the others, if asked to only for those that are missing.
queue_download(qs, ns, hs, asked, only_if_missing) ==
    LET absent == hs \ complete
        joined == {h \in absent : qs.by_hash[h] # {}}
        new    == {h \in absent \ joined : only_if_missing => <<ns, h>> \in qs.missing}
        gone   == {ns} \X (new \cup (hs \cap complete))
    IN  [Started(insert(qs, ns, joined \cup new), ns, new, asked) EXCEPT !.missing = @ \ gone]

Registered(hs, peer) == [h \in Hashes |-> IF h \in hs THEN providers[h] \cup {peer} ELSE providers[h]]

\* start_download for each of the hashes.
start_download(qs, ns, hs, peer, only_if_missing) ==
    /\ providers' = Registered(hs, peer)
    /\ q' = queue_download(qs, ns, hs, providers', only_if_missing)

-----------------------------------------------------------------------------
(* The handlers                                                            *)

Event == events < MaxEvents /\ events' = events + 1

\* RemoteInsert, for an entry the download policy wants.
RemoteInsert(ns, h, peer, status_complete) ==
    /\ Event
    /\ IF status_complete
       THEN start_download(q, ns, {h}, peer, FALSE)
       ELSE q' = [q EXCEPT !.missing = @ \cup {<<ns, h>>}] /\ UNCHANGED providers
    /\ ready' = {}
    /\ UNCHANGED <<complete, syncing, may_emit, holders, owed, promised>>

on_neighbor_content_ready(ns, h, peer) ==
    /\ Event
    /\ start_download(q, ns, {h}, peer, TRUE)
    /\ ready' = {}
    /\ UNCHANGED <<complete, syncing, may_emit, holders, owed, promised>>

\* Variant: no second try for a download that already runs.
Retried_parked_only(qs, ns) == qs

\* The downloads of the namespace that already run are to be tried once more if
\* they fail.
Retried(qs, ns) == [qs EXCEPT !.retry = @ \cup ({ns} \X qs.by_namespace[ns])]

Parked(qs, ns) == {h \in Hashes : <<ns, h>> \in qs.missing}

\* on_sync_finished with a successful exchange: what is parked is tried with the
\* peer, what is queued gets it as a provider.
RetryContent(ns, peer) ==
    LET hs == Parked(q, ns) \cup q.by_namespace[ns]
    IN  /\ start_download(Retried(q, ns), ns, hs, peer, TRUE)
        /\ promised' = promised \cup ({ns} \X {h \in hs \ complete : peer \in holders[h]})

\* Variant: the flag stays after the event.
TellReady_again(ns, queued) ==
    /\ may_emit' = may_emit \cup {ns}
    /\ ready' = IF queued THEN {} ELSE {ns}
    /\ owed' = IF queued THEN owed \cup {ns} ELSE owed \ {ns}

\* The end of on_sync_finished: PendingContentReady, now or once nothing is queued.
TellReady(ns, queued) ==
    /\ may_emit' = IF queued THEN may_emit \cup {ns} ELSE may_emit \ {ns}
    /\ ready' = IF queued THEN {} ELSE {ns}
    /\ owed' = IF queued THEN owed \cup {ns} ELSE owed \ {ns}

\* The finish is expected when the namespace syncs and the pair is running.
on_sync_finished(ns, peer, ok, expected) ==
    /\ Event
    /\ expected => ns \in syncing
    /\ IF ok THEN RetryContent(ns, peer) ELSE UNCHANGED <<q, providers, promised>>
    /\ IF expected
       THEN TellReady(ns, q'.by_namespace[ns] # {})
       ELSE ready' = {} /\ UNCHANGED <<may_emit, owed>>
    /\ UNCHANGED <<complete, syncing, holders>>

\* Variant: a download is tried again as often as it fails.
AfterDownload_again(h) ==
    LET ns == q.task[h].ns
        out == [remove_hash(q, h) EXCEPT !.task[h] = NoTask]
    IN  IF q.task[h].res = "Ok"
        THEN [out EXCEPT !.retry = {p \in @ : p[2] # h}]
        ELSE IF <<ns, h>> \in q.retry
        THEN queue_download([out EXCEPT !.missing = @ \cup {<<ns, h>>}], ns, {h}, providers, TRUE)
        ELSE [out EXCEPT !.missing = @ \cup {<<ns, h>>}]

\* on_download_ready up to the events: the queue after the result of the task.
AfterDownload(h) ==
    LET ns == q.task[h].ns
        out == [remove_hash(q, h) EXCEPT !.task[h] = NoTask]
    IN  IF q.task[h].res = "Ok"
        THEN [out EXCEPT !.retry = {p \in @ : p[2] # h}]
        ELSE IF <<ns, h>> \in q.retry
        THEN queue_download([out EXCEPT !.missing = @ \cup {<<ns, h>>}, !.retry = @ \ {<<ns, h>>}],
                            ns, {h}, providers, TRUE)
        ELSE [out EXCEPT !.missing = @ \cup {<<ns, h>>}]

\* Variant: only the namespace the download was started for is told.
ToTell_starter(h) == completed_namespaces(q, h) \cap may_emit \cap {q.task[h].ns}

ToTell(h) == completed_namespaces(q, h) \cap may_emit

on_download_ready(h) ==
    /\ q.task[h].res \in {"Ok", "Err"}
    /\ q' = AfterDownload(h)
    /\ ready' = ToTell(h)
    /\ may_emit' = may_emit \ ToTell(h)
    /\ owed' = owed \ ToTell(h)
    /\ UNCHANGED <<providers, complete, syncing, holders, events, promised>>

\* leave: the state of the namespace goes, its downloads run on.
leave(ns) ==
    /\ Event
    /\ ns \in syncing
    /\ syncing' = syncing \ {ns}
    /\ may_emit' = may_emit \ {ns}
    /\ owed' = owed \ {ns}
    /\ ready' = {}
    /\ UNCHANGED <<q, providers, complete, holders, promised>>

start_sync(ns) ==
    /\ Event
    /\ ns \notin syncing
    /\ syncing' = syncing \cup {ns}
    /\ ready' = {}
    /\ UNCHANGED <<q, providers, complete, may_emit, holders, owed, promised>>

-----------------------------------------------------------------------------
(* The downloader                                                          *)

DownloadEnds(h, ok) ==
    /\ q.task[h].res = "running"
    /\ IF ok THEN providers[h] \cap holders[h] # {} ELSE q.task[h].asked \cap holders[h] = {}
    /\ q' = [q EXCEPT !.task[h].res = IF ok THEN "Ok" ELSE "Err"]
    /\ complete' = IF ok THEN complete \cup {h} ELSE complete
    /\ ready' = {}
    /\ UNCHANGED <<providers, syncing, may_emit, holders, events, owed, promised>>

-----------------------------------------------------------------------------

Next ==
    \/ \E ns \in Namespaces, h \in Hashes, peer \in Peers :
          \/ \E status_complete \in BOOLEAN : RemoteInsert(ns, h, peer, status_complete)
          \/ on_neighbor_content_ready(ns, h, peer)
    \/ \E ns \in Namespaces, peer \in Peers, ok, expected \in BOOLEAN :
          on_sync_finished(ns, peer, ok, expected)
    \/ \E h \in Hashes : on_download_ready(h)
    \/ \E ns \in Namespaces : leave(ns) \/ start_sync(ns)
    \/ \E h \in Hashes, ok \in BOOLEAN : DownloadEnds(h, ok)

Spec == Init /\ [][Next]_vars

\* Every download ends, and the actor's loop gets to every finished one.
Fairness ==
    \A h \in Hashes :
        /\ WF_vars(on_download_ready(h))
        /\ WF_vars(\E ok \in BOOLEAN : DownloadEnds(h, ok))

FairSpec == Spec /\ Fairness

-----------------------------------------------------------------------------
(* Properties                                                              *)

\* A hash is queued, for whatever namespaces, exactly while one download of it is
\* under way, and the two maps of QueuedHashes say the same: through joins,
\* failures and second tries no queued hash is left that nothing will remove, and
\* no download runs twice.
QueuedIsDownloading ==
    \A h \in Hashes :
        /\ q.by_hash[h] = {n \in Namespaces : h \in q.by_namespace[n]}
        /\ q.by_hash[h] = {} <=> q.task[h] = NoTask
        /\ q.task[h] # NoTask => q.task[h].ns \in q.by_hash[h]

\* "The next PendingContentReady event may then only be emitted after the next
\* sync completes" (live.rs:728): the event answers a SyncFinished, and none
\* twice.
ReadyAnswersASync == [][\A n \in ready' : n \in owed \/ events' # events]_vars

\* A namespace that waits for the event still has something queued whose end will
\* emit it.
OwedIsQueued == \A n \in owed : n \in may_emit /\ q.by_namespace[n] # {}

\* "It signals that all currently pending downloads have been completed"
\* (live.rs:136): after a finished sync the event comes, however downloads fail,
\* are joined by other namespaces or are tried again, unless the namespace is left.
ReadyComes == \A n \in Namespaces : n \in owed ~> n \notin owed

\* "Content already being downloaded gets the peer registered as a provider, and
\* the download is retried once if it fails" (live.rs:660): when a finished sync's
\* peer has content that the namespace waits for or downloads, the content arrives.
SyncPeerIsTried ==
    \A n \in Namespaces, h \in Hashes : <<n, h>> \in promised ~> h \in complete

\* The part of it the code keeps: the download is one the namespace itself started,
\* before or after the sync, and not one of another namespace that it joined.  The
\* second try is looked up by the namespace of the task (live.rs:805).
OwnDownloadIsRetried ==
    \A n \in Namespaces, h \in Hashes :
        <<n, h>> \in promised /\ q.task[h].ns = n ~> h \in complete

\* "Retry content that is still missing for this namespace" (live.rs:653): a failed
\* download leaves its hash parked or queued for every namespace that waited for
\* it.  It is parked for the one that started it only.
FailedIsParked ==
    [][\A h \in Hashes :
         q.task[h].res = "Err" /\ q' # q =>
            \A n \in q.by_hash[h] : n \in q'.by_hash[h] \/ <<n, h>> \in q'.missing]_vars

\* "It signals that all currently pending downloads have been completed"
\* (live.rs:136): nothing is queued for the namespace when the event goes out.
ReadyMeansNothingQueued == \A n \in ready : q.by_namespace[n] = {}
=============================================================================
