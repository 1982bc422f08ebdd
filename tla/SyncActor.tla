----------------------------- MODULE SyncActor -----------------------------
(***************************************************************************)
(* The actor thread of actor.rs: which replicas are open and by how many   *)
(* handles, and the read snapshots it holds for running sync sessions.     *)
(*                                                                         *)
(* Requests come from any number of clients through one queue, so a request*)
(* is the action the actor takes when it gets to it.  The one message that *)
(* carries state while it waits is the release of a session: it holds a    *)
(* strong reference to the registration, and is lost when the queue is full*)
(* at the moment the handle is dropped.                                    *)
(*                                                                         *)
(*   stored    namespaces in the store                                     *)
(*   handles   OpenReplicas: handles per namespace, 0 when not open        *)
(*   sync      OpenReplica.sync                                            *)
(*   storeOpen Store.open_replicas                                         *)
(*   sessions  the registered snapshots: session id to namespace           *)
(*   ref       where the strong reference of a session is                  *)
(*   running   the actor loop runs                                         *)
(* History:                                                                *)
(*   epoch     how often a namespace has been opened from closed           *)
(*   startedIn the epoch of its namespace a session was started in         *)
(*   out       handles given out by open and not given back: by a close, or*)
(*             by the drop that removed the replica                        *)
(***************************************************************************)
EXTENDS Integers

CONSTANTS
    Namespaces,
    MaxSessions,   \* bound: session ids are 1..MaxSessions
    MaxHandles,    \* bound on handles per namespace
    MaxEpochs,     \* bound on openings per namespace
    NoNamespace

ASSUME ActorAssumption ==
    /\ MaxSessions \in Nat
    /\ MaxHandles \in Nat \ {0}
    /\ MaxEpochs \in Nat
    /\ NoNamespace \notin Namespaces

VARIABLES stored, handles, sync, storeOpen, sessions, ref, running,
          epoch, startedIn, out

vars == <<stored, handles, sync, storeOpen, sessions, ref, running,
          epoch, startedIn, out>>

SessionIds == 1 .. MaxSessions

RefStates == {"unissued", "reply", "handle", "queued", "gone"}

Registered(s) == sessions[s] # NoNamespace

Open(ns) == handles[ns] > 0

TypeOK ==
    /\ stored \in SUBSET Namespaces
    /\ handles \in [Namespaces -> 0 .. MaxHandles]
    /\ sync \in [Namespaces -> BOOLEAN]
    /\ storeOpen \in SUBSET Namespaces
    /\ sessions \in [SessionIds -> Namespaces \cup {NoNamespace}]
    /\ ref \in [SessionIds -> RefStates]
    /\ running \in BOOLEAN
    /\ epoch \in [Namespaces -> 0 .. MaxEpochs]
    /\ startedIn \in [SessionIds -> 0 .. MaxEpochs]
    /\ out \in [Namespaces -> 0 .. MaxHandles]

Init ==
    /\ stored = {}
    /\ handles = [ns \in Namespaces |-> 0]
    /\ sync = [ns \in Namespaces |-> FALSE]
    /\ storeOpen = {}
    /\ sessions = [s \in SessionIds |-> NoNamespace]
    /\ ref = [s \in SessionIds |-> "unissued"]
    /\ running = TRUE
    /\ epoch = [ns \in Namespaces |-> 0]
    /\ startedIn = [s \in SessionIds |-> 0]
    /\ out = [ns \in Namespaces |-> 0]

-----------------------------------------------------------------------------
(* The actor.  Before it takes an action the loop drops the snapshots no   *)
(* strong reference is left to, if the last sweep is long enough ago:      *)
(* `swept` says whether it was.                                            *)

\* Variants: the sweep takes sessions that are held, and it takes none.
reclaim_every_session(swept) ==
    [s \in SessionIds |-> IF swept THEN NoNamespace ELSE sessions[s]]

reclaim_nothing(swept) == sessions

\* reclaim_abandoned_sessions: only a registration without any reference goes.
reclaim_abandoned_sessions(swept) ==
    [s \in SessionIds |-> IF swept /\ ref[s] = "gone" THEN NoNamespace ELSE sessions[s]]

WithoutNamespace(regs, ns) ==
    [s \in SessionIds |-> IF regs[s] = ns THEN NoNamespace ELSE regs[s]]

\* An open replica gets one more handle and keeps sync on.
open_with(ns, withSync) ==
    /\ handles' = [handles EXCEPT ![ns] = @ + 1]
    /\ sync' = [sync EXCEPT ![ns] = (Open(ns) /\ @) \/ withSync]

\* Actor::open: a closed replica is loaded from the store.
open(ns, withSync, swept) ==
    /\ running
    /\ ns \in stored \/ Open(ns)
    /\ handles[ns] < MaxHandles
    /\ out[ns] < MaxHandles
    /\ ~ Open(ns) => epoch[ns] < MaxEpochs
    /\ open_with(ns, withSync)
    /\ out' = [out EXCEPT ![ns] = @ + 1]
    /\ storeOpen' = storeOpen \cup {ns}
    /\ epoch' = [epoch EXCEPT ![ns] = IF Open(ns) THEN @ ELSE @ + 1]
    /\ sessions' = reclaim_abandoned_sessions(swept)
    /\ UNCHANGED <<stored, ref, running, startedIn>>

\* OpenReplicas::close answers true for a replica that is not open.
LastHandle(ns) == handles[ns] <= 1

\* Variants: the store is not told of the last close; the sessions stay; the
\* count of a replica that is not open goes down too.
CloseHandle_store_not_told(ns, swept) ==
    /\ handles' = [handles EXCEPT ![ns] = IF @ = 0 THEN 0 ELSE @ - 1]
    /\ sessions' = IF LastHandle(ns)
                   THEN WithoutNamespace(reclaim_abandoned_sessions(swept), ns)
                   ELSE reclaim_abandoned_sessions(swept)
    /\ UNCHANGED storeOpen

CloseHandle_sessions_stay(ns, swept) ==
    /\ handles' = [handles EXCEPT ![ns] = IF @ = 0 THEN 0 ELSE @ - 1]
    /\ sessions' = reclaim_abandoned_sessions(swept)
    /\ storeOpen' = IF LastHandle(ns) THEN storeOpen \ {ns} ELSE storeOpen

CloseHandle_uncounted(ns, swept) ==
    /\ handles' = [handles EXCEPT ![ns] = @ - 1]
    /\ sessions' = IF LastHandle(ns)
                   THEN WithoutNamespace(reclaim_abandoned_sessions(swept), ns)
                   ELSE reclaim_abandoned_sessions(swept)
    /\ storeOpen' = IF LastHandle(ns) THEN storeOpen \ {ns} ELSE storeOpen

\* Actor::close: the last handle takes the sessions of the namespace along.
CloseHandle(ns, swept) ==
    /\ handles' = [handles EXCEPT ![ns] = IF @ = 0 THEN 0 ELSE @ - 1]
    /\ sessions' = IF LastHandle(ns)
                   THEN WithoutNamespace(reclaim_abandoned_sessions(swept), ns)
                   ELSE reclaim_abandoned_sessions(swept)
    /\ storeOpen' = IF LastHandle(ns) THEN storeOpen \ {ns} ELSE storeOpen

close(ns, swept) ==
    /\ running
    /\ CloseHandle(ns, swept)
    /\ out' = [out EXCEPT ![ns] = IF @ = 0 THEN 0 ELSE @ - 1]
    /\ UNCHANGED <<stored, sync, ref, running, epoch, startedIn>>

\* Variant: the store does not refuse.
DropReplica_unrefused(ns, swept) ==
    /\ running
    /\ CloseHandle(ns, swept)
    /\ stored' = stored \ {ns}
    /\ out' = [out EXCEPT ![ns] = IF @ = 0 THEN @ ELSE @ - 1]
    /\ UNCHANGED <<sync, ref, running, epoch, startedIn>>

\* DropReplica closes one handle, whoever holds it, and then asks the store,
\* which refuses while the replica is open.
DropReplica(ns, swept) ==
    /\ running
    /\ CloseHandle(ns, swept)
    /\ stored' = IF ns \in storeOpen' THEN stored ELSE stored \ {ns}
    /\ out' = [out EXCEPT ![ns] = IF ns \in storeOpen' \/ @ = 0 THEN @ ELSE @ - 1]
    /\ UNCHANGED <<sync, ref, running, epoch, startedIn>>

ImportNamespace(ns, swept) ==
    /\ running
    /\ stored' = stored \cup {ns}
    /\ sessions' = reclaim_abandoned_sessions(swept)
    /\ UNCHANGED <<handles, sync, storeOpen, ref, running, epoch, startedIn, out>>

SetSync(ns, b, swept) ==
    /\ running
    /\ Open(ns)
    /\ sync' = [sync EXCEPT ![ns] = b]
    /\ sessions' = reclaim_abandoned_sessions(swept)
    /\ UNCHANGED <<stored, handles, storeOpen, ref, running, epoch, startedIn, out>>

\* InsertLocal, DeletePrefix, InsertRemote: writes to an open replica.
ReplicaWrite(ns, swept) ==
    /\ running
    /\ Open(ns)
    /\ sessions' = reclaim_abandoned_sessions(swept)
    /\ UNCHANGED <<stored, handles, sync, storeOpen, ref, running, epoch, startedIn, out>>

\* The requests that only pass through to the store.
StoreRequest(swept) ==
    /\ running
    /\ sessions' = reclaim_abandoned_sessions(swept)
    /\ UNCHANGED <<stored, handles, sync, storeOpen, ref, running, epoch, startedIn, out>>

\* next_session_id: ids are issued in order and never again.
NextSession(s) ==
    /\ ref[s] = "unissued"
    /\ \A t \in SessionIds : t < s => ref[t] # "unissued"

SyncSessionStart(ns, s, swept) ==
    /\ running
    /\ Open(ns) /\ sync[ns]
    /\ NextSession(s)
    /\ sessions' = [reclaim_abandoned_sessions(swept) EXCEPT ![s] = ns]
    /\ ref' = [ref EXCEPT ![s] = "reply"]
    /\ startedIn' = [startedIn EXCEPT ![s] = epoch[ns]]
    /\ UNCHANGED <<stored, handles, sync, storeOpen, running, epoch, out>>

\* A round of an exchange (SyncInitialMessage, SyncProcessMessage): it reads
\* through the session's snapshot, or fails when session_replica does.
session_replica(s) == Registered(s) /\ Open(sessions[s]) /\ sync[sessions[s]]

SyncProcessMessage(s, swept) ==
    /\ running
    /\ ref[s] = "handle"
    /\ session_replica(s)
    /\ sessions' = reclaim_abandoned_sessions(swept)
    /\ UNCHANGED <<stored, handles, sync, storeOpen, ref, running, epoch, startedIn, out>>

SyncSessionEnd(s, swept) ==
    /\ running
    /\ ref[s] = "queued"
    /\ sessions' = [reclaim_abandoned_sessions(swept) EXCEPT ![s] = NoNamespace]
    /\ ref' = [ref EXCEPT ![s] = "gone"]
    /\ UNCHANGED <<stored, handles, sync, storeOpen, running, epoch, startedIn, out>>

\* The loop's timeout arm: it sleeps longer than the sweep interval.
Tick ==
    /\ running
    /\ sessions' = reclaim_abandoned_sessions(TRUE)
    /\ UNCHANGED <<stored, handles, sync, storeOpen, ref, running, epoch, startedIn, out>>

\* Shutdown ends the loop; what is still queued is dropped with its references.
Shutdown ==
    /\ running
    /\ running' = FALSE
    /\ handles' = [ns \in Namespaces |-> 0]
    /\ sync' = [ns \in Namespaces |-> FALSE]
    /\ storeOpen' = {}
    /\ sessions' = [s \in SessionIds |-> NoNamespace]
    /\ ref' = [s \in SessionIds |-> IF ref[s] = "queued" THEN "gone" ELSE ref[s]]
    /\ UNCHANGED <<stored, epoch, startedIn, out>>

-----------------------------------------------------------------------------
(* The callers                                                             *)

\* The reply reaches the caller, who holds the session from now on, or the
\* caller was cancelled and the reference goes with the undelivered reply.
ReceiveSession(s) ==
    /\ ref[s] = "reply"
    /\ \E to \in {"handle", "gone"} : ref' = [ref EXCEPT ![s] = to]
    /\ UNCHANGED <<stored, handles, sync, storeOpen, sessions, running, epoch, startedIn, out>>

\* SyncSession::drop: try_send, which fails on a full or closed queue.
DropSession(s) ==
    /\ ref[s] = "handle"
    /\ \E to \in {"queued", "gone"} :
          /\ to = "queued" => running
          /\ ref' = [ref EXCEPT ![s] = to]
    /\ UNCHANGED <<stored, handles, sync, storeOpen, sessions, running, epoch, startedIn, out>>

-----------------------------------------------------------------------------

OnAction(swept) ==
    \/ \E ns \in Namespaces :
          \/ \E b \in BOOLEAN : open(ns, b, swept) \/ SetSync(ns, b, swept)
          \/ close(ns, swept)
          \/ DropReplica(ns, swept)
          \/ ImportNamespace(ns, swept)
          \/ ReplicaWrite(ns, swept)
          \/ \E s \in SessionIds : SyncSessionStart(ns, s, swept)
    \/ \E s \in SessionIds : SyncProcessMessage(s, swept) \/ SyncSessionEnd(s, swept)
    \/ StoreRequest(swept)

Next ==
    \/ \E swept \in BOOLEAN : OnAction(swept)
    \/ Tick
    \/ Shutdown
    \/ \E s \in SessionIds : ReceiveSession(s) \/ DropSession(s)

Spec == Init /\ [][Next]_vars

\* The loop runs on: it either idles into the timeout arm or takes an action
\* later than MAX_COMMIT_DELAY after the last sweep, and it gets to every queued
\* release.
Fairness ==
    /\ WF_vars(Tick \/ OnAction(TRUE))
    /\ \A s \in SessionIds : WF_vars(\E swept \in BOOLEAN : SyncSessionEnd(s, swept))

FairSpec == Spec /\ Fairness

-----------------------------------------------------------------------------
(* Properties                                                              *)

\* The store's own list of open replicas, which decides whether a replica may be
\* removed, agrees with the actor's handle counts through failed opens, closes
\* of what is not open, and refused drops.
StoreOpenAgrees == storeOpen = {ns \in Namespaces : Open(ns)}

\* No sequence of opens, closes and drops removes a replica that is open.
OpenIsStored == \A ns \in Namespaces : Open(ns) => ns \in stored

\* "A closed replica has no sessions" (actor.rs:1269): every registered snapshot
\* is of an open replica, and of the very opening the session was started under,
\* so an exchange that outlives a close and a new open cannot go on serving the
\* old view.
SessionsOfThisOpening ==
    \A s \in SessionIds :
        Registered(s) => Open(sessions[s]) /\ startedIn[s] = epoch[sessions[s]]

\* While a caller holds a session, or the reply with it is under way, its
\* snapshot goes only with the replica: neither the sweep nor another session's
\* release takes it.
HeldSnapshotStays ==
    [][\A s \in SessionIds :
         (Registered(s) /\ ref[s] \in {"reply", "handle"} /\ sessions'[s] = NoNamespace)
         => handles'[sessions[s]] = 0]_vars

\* An id is issued once: it never comes to name another registration, so a late
\* release cannot end someone else's session.
SessionIdsAreNotReused ==
    [][\A s \in SessionIds :
         (ref[s] # "unissued" /\ ~ Registered(s)) => sessions'[s] = NoNamespace]_vars

\* "An entry therefore outlives both by no more than the actor's next tick"
\* (actor.rs:288): once no caller holds the session its snapshot is released,
\* whether the release message arrived or was lost.
DroppedSessionIsReleased ==
    \A s \in SessionIds : (ref[s] \in {"queued", "gone"}) ~> ~ Registered(s)

\* "The store has to enforce that a replica cannot be removed while it is still
\* open" (fs.rs:475): the replica goes only when no handle but the dropping
\* caller's own is given out.
RemovedOnlyWhenClosed ==
    [][\A ns \in stored : ns \notin stored' => out[ns] <= 1]_vars
=============================================================================
