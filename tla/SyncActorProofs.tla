-------------------------- MODULE SyncActorProofs --------------------------
(***************************************************************************)
(* Proofs about SyncActor, for any namespaces and any bounds.              *)
(*                                                                         *)
(* OpenIsStored is not inductive by itself: DropReplica removes what the   *)
(* store believes closed, so the store's list has to agree with the handle *)
(* counts.  SessionsOfThisOpening needs to be carried along for all        *)
(* sessions, since an opening changes the epoch of a namespace.  Their     *)
(* conjunction with the type invariant is inductive.                       *)
(***************************************************************************)
EXTENDS SyncActor, TLAPS

Inv == TypeOK /\ StoreOpenAgrees /\ OpenIsStored /\ SessionsOfThisOpening

-----------------------------------------------------------------------------
(* What happens to the registered sessions                                 *)

SessionTable == [SessionIds -> Namespaces \cup {NoNamespace}]

\* reclaim_abandoned_sessions keeps a registration or drops it, and keeps it
\* while a reference is left.
LEMMA ReclaimKeeps ==
    ASSUME TypeOK, NEW swept \in BOOLEAN
    PROVE  /\ reclaim_abandoned_sessions(swept) \in SessionTable
           /\ \A s \in SessionIds :
                 /\ reclaim_abandoned_sessions(swept)[s] \in {sessions[s], NoNamespace}
                 /\ ref[s] # "gone" => reclaim_abandoned_sessions(swept)[s] = sessions[s]
  BY DEF TypeOK, reclaim_abandoned_sessions, SessionTable

\* Dropping the sessions of a namespace, as the last close does, leaves none of it
\* and touches no other.
LEMMA WithoutNamespaceKeepsOthers ==
    ASSUME NEW regs \in SessionTable, NEW ns \in Namespaces
    PROVE  /\ WithoutNamespace(regs, ns) \in SessionTable
           /\ \A s \in SessionIds :
                 /\ WithoutNamespace(regs, ns)[s] \in {regs[s], NoNamespace}
                 /\ WithoutNamespace(regs, ns)[s] # ns
                 /\ regs[s] # ns => WithoutNamespace(regs, ns)[s] = regs[s]
  BY ActorAssumption DEF WithoutNamespace, SessionTable

\* A step after which every registration is an old one, of a namespace that is
\* open as before and was not opened anew, keeps SessionsOfThisOpening.
LEMMA OldSessionsOnly ==
    ASSUME TypeOK, SessionsOfThisOpening,
           \A s \in SessionIds : sessions'[s] \in {sessions[s], NoNamespace},
           \A s \in SessionIds : sessions'[s] # NoNamespace =>
               handles'[sessions[s]] > 0 /\ epoch'[sessions[s]] = epoch[sessions[s]],
           startedIn' = startedIn
    PROVE  SessionsOfThisOpening'
  BY DEF SessionsOfThisOpening, Registered, Open

\* Actor::close: counts, the store's list and the sessions change together.
LEMMA CloseHandleKeeps ==
    ASSUME Inv, NEW ns \in Namespaces, NEW swept \in BOOLEAN, CloseHandle(ns, swept)
    PROVE  /\ handles' \in [Namespaces -> 0 .. MaxHandles]
           /\ storeOpen' \in SUBSET Namespaces
           /\ sessions' \in SessionTable
           /\ StoreOpenAgrees'
           /\ \A m \in Namespaces : handles'[m] > 0 => handles[m] > 0
           /\ \A s \in SessionIds : sessions'[s] \in {sessions[s], NoNamespace}
           /\ \A s \in SessionIds : sessions'[s] # NoNamespace => handles'[sessions[s]] > 0
           /\ \A s \in SessionIds :
                 (sessions[s] # NoNamespace /\ ref[s] # "gone" /\ sessions'[s] = NoNamespace)
                 => handles'[sessions[s]] = 0
<1> USE DEF Inv
<1> DEFINE swp == reclaim_abandoned_sessions(swept)
<1>1. /\ swp \in SessionTable
      /\ \A s \in SessionIds : /\ swp[s] \in {sessions[s], NoNamespace}
                               /\ ref[s] # "gone" => swp[s] = sessions[s]
  BY ReclaimKeeps
<1>2. /\ WithoutNamespace(swp, ns) \in SessionTable
      /\ \A s \in SessionIds : /\ WithoutNamespace(swp, ns)[s] \in {swp[s], NoNamespace}
                               /\ WithoutNamespace(swp, ns)[s] # ns
                               /\ swp[s] # ns => WithoutNamespace(swp, ns)[s] = swp[s]
  BY <1>1, WithoutNamespaceKeepsOthers
<1>3. /\ sessions' = IF LastHandle(ns) THEN WithoutNamespace(swp, ns) ELSE swp
      /\ handles' = [handles EXCEPT ![ns] = IF @ = 0 THEN 0 ELSE @ - 1]
      /\ storeOpen' = IF LastHandle(ns) THEN storeOpen \ {ns} ELSE storeOpen
  BY DEF CloseHandle
<1> HIDE DEF swp
<1>4. handles' \in [Namespaces -> 0 .. MaxHandles]
  BY <1>3, ActorAssumption DEF TypeOK
<1>5. storeOpen' \in SUBSET Namespaces
  BY <1>3 DEF TypeOK
<1>6. sessions' \in SessionTable
  BY <1>1, <1>2, <1>3
<1>7. StoreOpenAgrees'
  BY <1>3, <1>4, ActorAssumption DEF TypeOK, StoreOpenAgrees, Open, LastHandle
<1>8. \A m \in Namespaces : handles'[m] > 0 => handles[m] > 0
  BY <1>3, ActorAssumption DEF TypeOK
<1>9. \A s \in SessionIds : sessions'[s] \in {sessions[s], NoNamespace}
  BY <1>1, <1>2, <1>3
<1>10. ASSUME NEW s \in SessionIds, sessions'[s] # NoNamespace
       PROVE  handles'[sessions[s]] > 0
  <2>1. sessions[s] \in Namespaces /\ handles[sessions[s]] > 0
    BY <1>9, <1>10 DEF TypeOK, SessionsOfThisOpening, Registered, Open
  <2>2. CASE sessions[s] = ns
    <3>1. ~ LastHandle(ns)
      BY <1>1, <1>2, <1>3, <1>10, <2>2
    <3> QED
      BY <1>3, <2>1, <2>2, <3>1, ActorAssumption DEF TypeOK, LastHandle
  <2>3. CASE sessions[s] # ns
    BY <1>3, <2>1, <2>3 DEF TypeOK
  <2> QED
    BY <2>2, <2>3
<1>11. ASSUME NEW s \in SessionIds, sessions[s] # NoNamespace, ref[s] # "gone",
              sessions'[s] = NoNamespace
       PROVE  handles'[sessions[s]] = 0
  <2>1. LastHandle(ns) /\ sessions[s] = ns
    BY <1>1, <1>2, <1>3, <1>11
  <2> QED
    BY <1>3, <2>1, ActorAssumption DEF TypeOK, LastHandle
<1> QED
  BY <1>4, <1>5, <1>6, <1>7, <1>8, <1>9, <1>10, <1>11

-----------------------------------------------------------------------------
(* The inductive invariant                                                 *)

\* The inductive invariant holds when the actor is spawned (SyncHandle::spawn).
LEMMA InitInv == Init => Inv
  BY ActorAssumption DEF Init, Inv, TypeOK, StoreOpenAgrees, OpenIsStored,
                         SessionsOfThisOpening, Registered, Open, RefStates

\* A step that leaves the replicas alone and drops sessions at most.
LEMMA QuietStepKeepsInv ==
    ASSUME Inv, NEW regs \in SessionTable, sessions' = regs,
           \A s \in SessionIds : regs[s] \in {sessions[s], NoNamespace},
           stored \subseteq stored', stored' \in SUBSET Namespaces,
           sync' \in [Namespaces -> BOOLEAN],
           ref' \in [SessionIds -> RefStates],
           running' \in BOOLEAN,
           UNCHANGED <<handles, storeOpen, epoch, startedIn, out>>
    PROVE  Inv'
<1>1. TypeOK'
  BY DEF Inv, TypeOK, SessionTable
<1>2. StoreOpenAgrees' /\ OpenIsStored'
  BY DEF Inv, StoreOpenAgrees, OpenIsStored, Open
<1>3. SessionsOfThisOpening'
  BY DEF Inv, TypeOK, SessionsOfThisOpening, Registered, Open
<1> QED
  BY <1>1, <1>2, <1>3 DEF Inv

\* Actor::open: the replica is in the store before it is counted as open.
LEMMA OpenKeepsInv ==
    ASSUME Inv, NEW ns \in Namespaces, NEW b \in BOOLEAN, NEW swept \in BOOLEAN,
           open(ns, b, swept)
    PROVE  Inv'
<1>1. /\ sessions' \in SessionTable
      /\ \A s \in SessionIds : sessions'[s] \in {sessions[s], NoNamespace}
  BY ReclaimKeeps DEF Inv, open
<1>2. TypeOK'
  BY <1>1, ActorAssumption DEF Inv, TypeOK, open, open_with, Open, SessionTable
<1>3. StoreOpenAgrees'
  BY ActorAssumption DEF Inv, TypeOK, StoreOpenAgrees, open, open_with, Open
<1>4. OpenIsStored'
  BY ActorAssumption DEF Inv, TypeOK, OpenIsStored, open, open_with, Open
<1>5. ASSUME NEW s \in SessionIds, sessions'[s] # NoNamespace
      PROVE  handles'[sessions[s]] > 0 /\ epoch'[sessions[s]] = epoch[sessions[s]]
  <2>1. sessions[s] \in Namespaces /\ handles[sessions[s]] > 0
    BY <1>1, <1>5 DEF Inv, TypeOK, SessionsOfThisOpening, Registered, Open
  <2> QED
    BY <2>1, ActorAssumption DEF Inv, TypeOK, open, open_with, Open
<1>6. SessionsOfThisOpening'
  BY <1>1, <1>5, OldSessionsOnly DEF Inv, open
<1> QED
  BY <1>2, <1>3, <1>4, <1>6 DEF Inv

\* Actor::close and Open/DropReplica, which closes first and removes only what no
\* handle is left of.
LEMMA CloseKeepsInv ==
    ASSUME Inv, NEW ns \in Namespaces, NEW swept \in BOOLEAN,
           close(ns, swept) \/ DropReplica(ns, swept)
    PROVE  Inv'
<1>0. CloseHandle(ns, swept)
  BY DEF close, DropReplica
<1>1. /\ handles' \in [Namespaces -> 0 .. MaxHandles]
      /\ storeOpen' \in SUBSET Namespaces
      /\ sessions' \in SessionTable
      /\ StoreOpenAgrees'
      /\ \A m \in Namespaces : handles'[m] > 0 => handles[m] > 0
      /\ \A s \in SessionIds : sessions'[s] \in {sessions[s], NoNamespace}
      /\ \A s \in SessionIds : sessions'[s] # NoNamespace => handles'[sessions[s]] > 0
  BY <1>0, CloseHandleKeeps
<1>2. /\ UNCHANGED <<sync, ref, running, epoch, startedIn>>
      /\ stored' \in {stored, stored \ {ns}}
      /\ stored' = stored \/ ns \notin storeOpen'
  BY DEF close, DropReplica
<1>3. out' \in [Namespaces -> 0 .. MaxHandles]
  BY ActorAssumption DEF Inv, TypeOK, close, DropReplica
<1>4. TypeOK'
  BY <1>1, <1>2, <1>3 DEF Inv, TypeOK, SessionTable
<1>5. OpenIsStored'
  <2> SUFFICES ASSUME NEW m \in Namespaces, handles'[m] > 0
               PROVE  m \in stored'
    BY DEF OpenIsStored, Open
  <2>1. m \in stored
    BY <1>1 DEF Inv, OpenIsStored, Open
  <2>2. m \in storeOpen'
    BY <1>1 DEF StoreOpenAgrees, Open
  <2> QED
    BY <1>2, <2>1, <2>2
<1>6. SessionsOfThisOpening'
  BY <1>1, <1>2, OldSessionsOnly DEF Inv
<1> QED
  BY <1>1, <1>4, <1>5, <1>6 DEF Inv

\* SyncSessionStart registers under a fresh id, for a replica that is open now.
LEMMA StartKeepsInv ==
    ASSUME Inv, NEW ns \in Namespaces, NEW t \in SessionIds, NEW swept \in BOOLEAN,
           SyncSessionStart(ns, t, swept)
    PROVE  Inv'
<1> DEFINE swp == reclaim_abandoned_sessions(swept)
<1>1. /\ swp \in SessionTable
      /\ \A s \in SessionIds : swp[s] \in {sessions[s], NoNamespace}
  BY ReclaimKeeps DEF Inv
<1>2. /\ sessions' = [swp EXCEPT ![t] = ns]
      /\ Open(ns)
      /\ ref' = [ref EXCEPT ![t] = "reply"]
      /\ startedIn' = [startedIn EXCEPT ![t] = epoch[ns]]
      /\ UNCHANGED <<stored, handles, sync, storeOpen, running, epoch, out>>
  BY DEF SyncSessionStart
<1> HIDE DEF swp
<1>3. TypeOK'
  BY <1>1, <1>2 DEF Inv, TypeOK, SessionTable, RefStates
<1>4. StoreOpenAgrees' /\ OpenIsStored'
  BY <1>2 DEF Inv, StoreOpenAgrees, OpenIsStored, Open
<1>5. ASSUME NEW s \in SessionIds, sessions'[s] # NoNamespace
      PROVE  handles'[sessions'[s]] > 0 /\ startedIn'[s] = epoch'[sessions'[s]]
  <2>1. CASE s = t
    BY <1>1, <1>2, <2>1 DEF Inv, TypeOK, SessionTable, Open
  <2>2. CASE s # t
    <3>1. sessions'[s] = swp[s] /\ startedIn'[s] = startedIn[s]
      BY <1>1, <1>2, <2>2 DEF Inv, TypeOK, SessionTable
    <3>2. sessions'[s] = sessions[s]
      BY <1>1, <1>5, <3>1
    <3> QED
      BY <1>2, <1>5, <3>1, <3>2 DEF Inv, SessionsOfThisOpening, Registered, Open
  <2> QED
    BY <2>1, <2>2
<1>6. SessionsOfThisOpening'
  BY <1>5 DEF SessionsOfThisOpening, Registered, Open
<1> QED
  BY <1>3, <1>4, <1>6 DEF Inv

\* The end of run_async closes every replica and with them every session.
LEMMA ShutdownKeepsInv == ASSUME Inv, Shutdown PROVE Inv'
<1>1. TypeOK'
  <2>1. ref' \in [SessionIds -> RefStates]
    BY DEF Inv, TypeOK, Shutdown, RefStates
  <2>2. running' \in BOOLEAN /\ sync' \in [Namespaces -> BOOLEAN]
    BY Zenon DEF Shutdown
  <2>3. /\ handles' \in [Namespaces -> 0 .. MaxHandles]
        /\ sessions' \in [SessionIds -> Namespaces \cup {NoNamespace}]
        /\ storeOpen' \in SUBSET Namespaces
    BY ActorAssumption DEF Shutdown
  <2>4. UNCHANGED <<stored, epoch, startedIn, out>>
    BY DEF Shutdown
  <2> QED
    BY <2>1, <2>2, <2>3, <2>4 DEF Inv, TypeOK
<1>2. StoreOpenAgrees' /\ OpenIsStored' /\ SessionsOfThisOpening'
  BY DEF Inv, Shutdown, StoreOpenAgrees, OpenIsStored, SessionsOfThisOpening, Registered, Open
<1> QED
  BY <1>1, <1>2 DEF Inv

\* No request, tick or client step breaks the inductive invariant.
LEMMA NextInv == Inv /\ [Next]_vars => Inv'
<1> SUFFICES ASSUME Inv, [Next]_vars PROVE Inv'
  OBVIOUS
<1>1. ASSUME NEW swept \in BOOLEAN, NEW ns \in Namespaces, NEW b \in BOOLEAN,
             open(ns, b, swept)
      PROVE  Inv'
  BY <1>1, OpenKeepsInv
<1>2. ASSUME NEW swept \in BOOLEAN, NEW ns \in Namespaces,
             close(ns, swept) \/ DropReplica(ns, swept)
      PROVE  Inv'
  BY <1>2, CloseKeepsInv
<1>3. ASSUME NEW swept \in BOOLEAN, NEW ns \in Namespaces, NEW s \in SessionIds,
             SyncSessionStart(ns, s, swept)
      PROVE  Inv'
  BY <1>3, StartKeepsInv
<1>4. ASSUME NEW swept \in BOOLEAN, NEW ns \in Namespaces, ImportNamespace(ns, swept)
      PROVE  Inv'
  BY <1>4, ReclaimKeeps, QuietStepKeepsInv DEF ImportNamespace, Inv, TypeOK
<1>5. ASSUME NEW swept \in BOOLEAN, NEW ns \in Namespaces, NEW b \in BOOLEAN,
             SetSync(ns, b, swept)
      PROVE  Inv'
  BY <1>5, ReclaimKeeps, QuietStepKeepsInv DEF SetSync, Inv, TypeOK
<1>6. ASSUME NEW swept \in BOOLEAN, NEW s \in SessionIds, SyncProcessMessage(s, swept)
      PROVE  Inv'
  BY <1>6, ReclaimKeeps, QuietStepKeepsInv DEF SyncProcessMessage, Inv, TypeOK
<1>12. ASSUME NEW swept \in BOOLEAN, NEW ns \in Namespaces, ReplicaWrite(ns, swept)
       PROVE  Inv'
  BY <1>12, ReclaimKeeps, QuietStepKeepsInv DEF ReplicaWrite, Inv, TypeOK
<1>13. ASSUME NEW swept \in BOOLEAN, StoreRequest(swept)
       PROVE  Inv'
  BY <1>13, ReclaimKeeps, QuietStepKeepsInv DEF StoreRequest, Inv, TypeOK
<1>7. ASSUME NEW swept \in BOOLEAN, NEW s \in SessionIds, SyncSessionEnd(s, swept)
      PROVE  Inv'
  <2> DEFINE regs == [reclaim_abandoned_sessions(swept) EXCEPT ![s] = NoNamespace]
  <2>1. /\ regs \in SessionTable
        /\ \A t \in SessionIds : regs[t] \in {sessions[t], NoNamespace}
    BY ReclaimKeeps DEF Inv, SessionTable
  <2>2. ref' \in [SessionIds -> RefStates]
    BY <1>7 DEF SyncSessionEnd, Inv, TypeOK, RefStates
  <2>3. /\ sessions' = regs
        /\ UNCHANGED <<stored, handles, sync, storeOpen, running, epoch, startedIn, out>>
    BY <1>7 DEF SyncSessionEnd
  <2> HIDE DEF regs
  <2> QED
    BY <2>1, <2>2, <2>3, QuietStepKeepsInv DEF Inv, TypeOK
<1>8. CASE Tick
  BY <1>8, ReclaimKeeps, QuietStepKeepsInv, Zenon DEF Tick, Inv, TypeOK
<1>9. CASE Shutdown
  BY <1>9, ShutdownKeepsInv
<1>10. ASSUME NEW s \in SessionIds, ReceiveSession(s) \/ DropSession(s)
       PROVE  Inv'
  <2>1. ref' \in [SessionIds -> RefStates]
    BY <1>10 DEF ReceiveSession, DropSession, Inv, TypeOK, RefStates
  <2>2. UNCHANGED <<stored, handles, sync, storeOpen, sessions, running, epoch, startedIn, out>>
    BY <1>10 DEF ReceiveSession, DropSession
  <2> QED
    BY <2>1, <2>2, QuietStepKeepsInv DEF Inv, TypeOK, SessionTable
<1>11. CASE UNCHANGED vars
  BY <1>11 DEF vars, Inv, TypeOK, StoreOpenAgrees, OpenIsStored, SessionsOfThisOpening,
               Registered, Open
<1> QED
  BY <1>1, <1>2, <1>3, <1>4, <1>5, <1>6, <1>7, <1>8, <1>9, <1>10, <1>11,
     <1>12, <1>13 DEF Next, OnAction

\* The inductive invariant holds of every behaviour of the actor.
THEOREM InvHolds == Spec => []Inv
  BY InitInv, NextInv, PTL DEF Spec

-----------------------------------------------------------------------------
(* The theorems                                                            *)

\* Every state of the actor has its type: no handle count goes below zero, no
\* request takes a count past its bound.
THEOREM TypeCorrect == Spec => []TypeOK
<1>1. Inv => TypeOK
  BY DEF Inv
<1> QED
  BY <1>1, InvHolds, PTL

\* The store's list of open replicas (fs.rs open_replicas) is the actor's, whatever
\* is opened, closed too often or dropped, by however many clients.
THEOREM StoreAndActorAgree == Spec => []StoreOpenAgrees
<1>1. Inv => StoreOpenAgrees
  BY DEF Inv
<1> QED
  BY <1>1, InvHolds, PTL

\* No replica that the actor holds open is missing from the store: DropReplica
\* never takes it.
THEOREM OpenReplicasAreStored == Spec => []OpenIsStored
<1>1. Inv => OpenIsStored
  BY DEF Inv
<1> QED
  BY <1>1, InvHolds, PTL

\* A registered snapshot is of the opening its session was started under: closing
\* a replica ends its sessions (actor.rs:1269).
THEOREM SessionsEndWithTheirOpening == Spec => []SessionsOfThisOpening
<1>1. Inv => SessionsOfThisOpening
  BY DEF Inv
<1> QED
  BY <1>1, InvHolds, PTL

-----------------------------------------------------------------------------
(* Action properties, from the same invariant                              *)

\* What a step does to a registered session, by the reference there is to it.
LEMMA HeldSessionStep ==
    ASSUME Inv, Next, NEW s \in SessionIds, sessions[s] # NoNamespace,
           ref[s] \in {"reply", "handle"}, sessions'[s] = NoNamespace
    PROVE  handles'[sessions[s]] = 0
<1>0. sessions[s] \in Namespaces
  BY DEF Inv, TypeOK
<1>1. \A swept \in BOOLEAN : reclaim_abandoned_sessions(swept)[s] = sessions[s]
  BY ReclaimKeeps DEF Inv
<1>2. ASSUME NEW swept \in BOOLEAN, NEW ns \in Namespaces,
             close(ns, swept) \/ DropReplica(ns, swept)
      PROVE  handles'[sessions[s]] = 0
  BY <1>2, CloseHandleKeeps DEF close, DropReplica
<1>3. CASE Shutdown
  BY <1>0, <1>3 DEF Shutdown
<1>4. ASSUME NEW swept \in BOOLEAN, NEW ns \in Namespaces, NEW b \in BOOLEAN,
             open(ns, b, swept) \/ SetSync(ns, b, swept) \/ ImportNamespace(ns, swept)
      PROVE  FALSE
  BY <1>1, <1>4 DEF open, SetSync, ImportNamespace
<1>5. ASSUME NEW swept \in BOOLEAN, NEW ns \in Namespaces, NEW t \in SessionIds,
             SyncSessionStart(ns, t, swept)
      PROVE  FALSE
  <2>1. /\ reclaim_abandoned_sessions(swept) \in SessionTable
        /\ sessions' = [reclaim_abandoned_sessions(swept) EXCEPT ![t] = ns]
    BY <1>5, ReclaimKeeps DEF Inv, SyncSessionStart
  <2> QED
    BY <1>1, <2>1, ActorAssumption DEF SessionTable
<1>6. ASSUME NEW swept \in BOOLEAN, NEW t \in SessionIds, SyncSessionEnd(t, swept)
      PROVE  FALSE
  <2>1. /\ reclaim_abandoned_sessions(swept) \in SessionTable
        /\ sessions' = [reclaim_abandoned_sessions(swept) EXCEPT ![t] = NoNamespace]
        /\ t # s
    BY <1>6, ReclaimKeeps DEF Inv, SyncSessionEnd
  <2> QED
    BY <1>1, <2>1 DEF SessionTable
<1>7. ASSUME NEW swept \in BOOLEAN, NEW t \in SessionIds, SyncProcessMessage(t, swept)
      PROVE  FALSE
  BY <1>1, <1>7 DEF SyncProcessMessage
<1>8. CASE Tick
  BY <1>1, <1>8, Zenon DEF Tick
<1>9. ASSUME NEW t \in SessionIds, ReceiveSession(t) \/ DropSession(t)
      PROVE  FALSE
  BY <1>9 DEF ReceiveSession, DropSession
<1>10. ASSUME NEW swept \in BOOLEAN, NEW ns \in Namespaces, ReplicaWrite(ns, swept)
       PROVE  FALSE
  BY <1>1, <1>10, ReclaimKeeps DEF ReplicaWrite, Inv
<1>11. ASSUME NEW swept \in BOOLEAN, StoreRequest(swept)
       PROVE  FALSE
  BY <1>1, <1>11, ReclaimKeeps DEF StoreRequest, Inv
<1> QED
  BY <1>2, <1>3, <1>4, <1>5, <1>6, <1>7, <1>8, <1>9, <1>10, <1>11 DEF Next, OnAction

\* A snapshot somebody holds, or will once the reply arrives, goes only with the
\* last handle of its replica: no sweep and no other session's end takes it.
THEOREM HeldSnapshotsStay == Spec => HeldSnapshotStays
<1>1. Inv /\ [Next]_vars =>
        [\A s \in SessionIds :
           (Registered(s) /\ ref[s] \in {"reply", "handle"} /\ sessions'[s] = NoNamespace)
           => handles'[sessions[s]] = 0]_vars
  BY HeldSessionStep DEF Registered
<1> QED
  BY <1>1, InvHolds, PTL DEF Spec, HeldSnapshotStays

\* No step registers anything under an id that was issued before and has lost its
\* registration.
LEMMA IssuedIdStep ==
    ASSUME Inv, Next, NEW s \in SessionIds, ref[s] # "unissued", sessions[s] = NoNamespace
    PROVE  sessions'[s] = NoNamespace
<1>1. \A swept \in BOOLEAN : reclaim_abandoned_sessions(swept)[s] = NoNamespace
  BY ReclaimKeeps DEF Inv
<1>2. ASSUME NEW swept \in BOOLEAN, NEW ns \in Namespaces,
             close(ns, swept) \/ DropReplica(ns, swept)
      PROVE  sessions'[s] = NoNamespace
  BY <1>2, CloseHandleKeeps DEF close, DropReplica
<1>3. CASE Shutdown
  BY <1>3 DEF Shutdown
<1>4. ASSUME NEW swept \in BOOLEAN, NEW ns \in Namespaces, NEW b \in BOOLEAN,
             open(ns, b, swept) \/ SetSync(ns, b, swept) \/ ImportNamespace(ns, swept)
      PROVE  sessions'[s] = NoNamespace
  BY <1>1, <1>4 DEF open, SetSync, ImportNamespace
<1>5. ASSUME NEW swept \in BOOLEAN, NEW ns \in Namespaces, NEW t \in SessionIds,
             SyncSessionStart(ns, t, swept)
      PROVE  sessions'[s] = NoNamespace
  <2>1. /\ reclaim_abandoned_sessions(swept) \in SessionTable
        /\ sessions' = [reclaim_abandoned_sessions(swept) EXCEPT ![t] = ns]
        /\ t # s
    BY <1>5, ReclaimKeeps DEF Inv, SyncSessionStart, NextSession
  <2> QED
    BY <1>1, <2>1 DEF SessionTable
<1>6. ASSUME NEW swept \in BOOLEAN, NEW t \in SessionIds, SyncSessionEnd(t, swept)
      PROVE  sessions'[s] = NoNamespace
  <2>1. /\ reclaim_abandoned_sessions(swept) \in SessionTable
        /\ sessions' = [reclaim_abandoned_sessions(swept) EXCEPT ![t] = NoNamespace]
    BY <1>6, ReclaimKeeps DEF Inv, SyncSessionEnd
  <2> QED
    BY <1>1, <2>1 DEF SessionTable
<1>7. ASSUME NEW swept \in BOOLEAN, NEW t \in SessionIds, SyncProcessMessage(t, swept)
      PROVE  sessions'[s] = NoNamespace
  BY <1>1, <1>7 DEF SyncProcessMessage
<1>8. CASE Tick
  BY <1>1, <1>8, Zenon DEF Tick
<1>9. ASSUME NEW t \in SessionIds, ReceiveSession(t) \/ DropSession(t)
      PROVE  sessions'[s] = NoNamespace
  BY <1>9 DEF ReceiveSession, DropSession
<1>10. ASSUME NEW swept \in BOOLEAN, NEW ns \in Namespaces, ReplicaWrite(ns, swept)
       PROVE  sessions'[s] = NoNamespace
  BY <1>1, <1>10, ReclaimKeeps DEF ReplicaWrite, Inv
<1>11. ASSUME NEW swept \in BOOLEAN, StoreRequest(swept)
       PROVE  sessions'[s] = NoNamespace
  BY <1>1, <1>11, ReclaimKeeps DEF StoreRequest, Inv
<1> QED
  BY <1>2, <1>3, <1>4, <1>5, <1>6, <1>7, <1>8, <1>9, <1>10, <1>11 DEF Next, OnAction

\* next_session_id: an id names one registration for as long as the actor runs, so
\* a release that arrives late ends nobody else's session.
THEOREM SessionIdsNameOneSession == Spec => SessionIdsAreNotReused
<1>1. Inv /\ [Next]_vars =>
        [\A s \in SessionIds :
           (ref[s] # "unissued" /\ ~ Registered(s)) => sessions'[s] = NoNamespace]_vars
  BY IssuedIdStep DEF Registered
<1> QED
  BY <1>1, InvHolds, PTL DEF Spec, SessionIdsAreNotReused
=============================================================================
