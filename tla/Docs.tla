-------------------------------- MODULE Docs --------------------------------
(***************************************************************************)
(* The docs API around one document: clients with Doc objects, the mailbox *)
(* of the RpcActor that serves them one at a time, and what its handlers do*)
(* to the sync actor's open replica, to the live actor and to the gossip   *)
(* topic (Gossip), up to the shutdown of the engine.                       *)
(*                                                                         *)
(*   at       what each client is doing                                    *)
(*   doc      its Doc object, and that object's closed flag                *)
(*   mail     the RpcActor's mailbox                                       *)
(*   busy     the request its handler is at; a handler that awaits two     *)
(*            replies goes on as a request of its own                      *)
(*   stored, handles, sync, fed   the sync actor: is the namespace in the  *)
(*            store, the open replica's handle count, its sync flag, and   *)
(*            whether it sends its events to the live actor                *)
(*   live     the live actor: "up", "stopping" (in shutdown), "down"       *)
(*   syncing  the document is in the live actor's state                    *)
(*   subs     clients whose event stream is among the live subscribers     *)
(*   held     clients whose Doc still has its handle; one that opens again  *)
(*            lets its first Doc go without giving its handle back         *)
(*   takenTwice  some handle was given back twice                          *)
(*   importers   clients in import_and_subscribe, or done with it, whose   *)
(*            document was not dropped since                               *)
(*   following   those of them whose sync the live actor has started       *)
(*                                                                         *)
(* Only requests of the RpcActor open and close replicas, so a handler's   *)
(* await points matter only for the shutdown that may come between them.   *)
(***************************************************************************)
EXTENDS Gossip, Sequences, FiniteSets

CONSTANTS Clients, MaxCalls

ASSUME DocsAssumption == MaxCalls \in Nat

VARIABLES at, doc, mail, busy, stored, handles, sync, fed, live, syncing, subs,
          held, takenTwice, importers, following, calls

rpcVars    == <<mail, busy>>
clientVars == <<at, doc, calls>>
syncVars   == <<stored, handles, sync, fed>>
liveVars   == <<live, syncing, subs>>
ghostVars  == <<held, takenTwice, importers, following>>
vars == <<at, doc, mail, busy, stored, handles, sync, fed, live, syncing, subs, held,
          takenTwice, importers, following, calls, active, task, disowned>>

\* Requests that need a Doc that is not closed (ensure_open), and those that do not.
DocOps  == {"start", "start_scoped", "leave", "leave_gossip", "share", "subscribe", "use"}
FreeOps == {"import", "import_and_subscribe", "open", "drop"}
Ops     == DocOps \cup FreeOps \cup {"close"}

Request == [client : Clients, op : Ops]

\* The second halves: open after import, start after share, the others as named.
Work == [client : Clients, op : Ops \cup {"remove", "follow"}]
Idle == <<>>

TypeOK ==
    /\ at \in [Clients -> {"idle", "waiting", "importing", "subscribing", "starting", "started"}]
    /\ doc \in [Clients -> {"none", "open", "closed"}]
    /\ mail \in Seq(Request)
    /\ busy \in Seq(Work) /\ Len(busy) <= 1
    /\ stored \in BOOLEAN /\ sync \in BOOLEAN /\ fed \in BOOLEAN
    /\ handles \in Nat
    /\ live \in {"up", "stopping", "down"}
    /\ syncing \in BOOLEAN
    /\ subs \subseteq Clients /\ held \subseteq Clients
    /\ importers \subseteq Clients /\ following \subseteq Clients
    /\ takenTwice \in BOOLEAN
    /\ calls \in 0 .. MaxCalls
    /\ GossipTypeOK

Init ==
    /\ at = [c \in Clients |-> "idle"]
    /\ doc = [c \in Clients |-> "none"]
    /\ mail = << >> /\ busy = Idle
    /\ stored = FALSE /\ handles = 0 /\ sync = FALSE /\ fed = FALSE
    /\ live = "up" /\ syncing = FALSE /\ subs = {}
    /\ held = {} /\ takenTwice = FALSE /\ importers = {} /\ following = {}
    /\ calls = 0
    /\ GossipInit

-----------------------------------------------------------------------------
(* Clients                                                                 *)

Send(c, op) == mail' = Append(mail, [client |-> c, op |-> op])

\* Doc::close marks the Doc before it sends, and does not look at the mark.
MayCall(c, op) == \/ op \in FreeOps
                  \/ op \in DocOps /\ doc[c] = "open"
                  \/ op = "close" /\ doc[c] # "none"

Call(c, op) ==
    /\ at[c] = "idle"
    /\ calls < MaxCalls
    /\ MayCall(c, op)
    /\ Send(c, IF op = "import_and_subscribe" THEN "import" ELSE op)
    /\ at' = [at EXCEPT ![c] = IF op = "import_and_subscribe" THEN "importing"
                               ELSE IF op = "subscribe" THEN "idle"
                               ELSE "waiting"]
    /\ doc' = IF op = "close" THEN [doc EXCEPT ![c] = "closed"] ELSE doc
    /\ importers' = IF op = "import_and_subscribe" THEN importers \cup {c} ELSE importers
    /\ calls' = calls + 1
    /\ UNCHANGED <<busy, syncVars, liveVars, held, takenTwice, following, gossipVars>>

\* Variant: the sync is started first.
ImportSubscribes_last(c) ==
    \/ /\ at[c] = "subscribing"
       /\ Send(c, "start")
       /\ at' = [at EXCEPT ![c] = "starting"]
       /\ UNCHANGED <<doc, calls, busy, syncVars, liveVars, ghostVars, gossipVars>>
    \/ /\ at[c] = "starting"
       /\ Send(c, "subscribe")
       /\ at' = [at EXCEPT ![c] = "started"]
       /\ UNCHANGED <<doc, calls, busy, syncVars, liveVars, ghostVars, gossipVars>>

\* import_and_subscribe, once the document is imported: the subscription is sent
\* and not waited for, then the start of the sync is sent.
ImportSubscribes(c) ==
    \/ /\ at[c] = "subscribing"
       /\ Send(c, "subscribe")
       /\ at' = [at EXCEPT ![c] = "starting"]
       /\ UNCHANGED <<doc, calls, busy, syncVars, liveVars, ghostVars, gossipVars>>
    \/ /\ at[c] = "starting"
       /\ Send(c, "start")
       /\ at' = [at EXCEPT ![c] = "started"]
       /\ UNCHANGED <<doc, calls, busy, syncVars, liveVars, ghostVars, gossipVars>>

-----------------------------------------------------------------------------
(* The RpcActor                                                            *)

Receive ==
    /\ busy = Idle
    /\ mail # << >>
    /\ busy' = <<Head(mail)>>
    /\ mail' = Tail(mail)
    /\ UNCHANGED <<clientVars, syncVars, liveVars, ghostVars, gossipVars>>

Serving(c, op) == busy = <<[client |-> c, op |-> op]>>

GoOn(c, op) == busy' = <<[client |-> c, op |-> op]>> /\ UNCHANGED <<mail, clientVars>>

\* The reply reaches the client.
Reply(c, ok) ==
    /\ busy' = Idle
    /\ at' = [at EXCEPT ![c] = IF @ = "importing" /\ ok THEN "subscribing"
                               ELSE IF @ \in {"importing", "waiting", "started"} THEN "idle"
                               ELSE @]
    /\ UNCHANGED <<mail, calls>>

Fail(c) == /\ Reply(c, FALSE)
           /\ UNCHANGED <<doc, syncVars, liveVars, ghostVars, gossipVars>>

\* Nobody waits for the answer to a subscription: it is the stream, and if it fails
\* the stream is an error.
Subscribed == busy' = Idle /\ UNCHANGED <<mail, clientVars>>

SubscribeFails(c) ==
    /\ Subscribed
    /\ importers' = importers \ {c}
    /\ UNCHANGED <<syncVars, liveVars, held, takenTwice, following, gossipVars>>

\* A call to the sync actor fails once the actor has been shut down; one to the
\* live actor waits while that shuts down and fails when it is gone.
SyncUp    == live = "up"
LiveReady == live # "stopping"

-----------------------------------------------------------------------------
(* The sync actor's part                                                   *)

open_with(forLive) ==
    /\ handles' = handles + 1
    /\ sync' = (sync \/ forLive)
    /\ fed' = (fed \/ forLive)

\* OpenReplicas::close: the last handle takes the open replica with it.
close_one ==
    /\ handles' = IF handles = 0 THEN 0 ELSE handles - 1
    /\ sync' = (sync /\ handles > 1)
    /\ fed' = (fed /\ handles > 1)

doc_import(c) ==
    /\ Serving(c, "import")
    /\ \/ /\ SyncUp
          /\ stored' = TRUE
          /\ GoOn(c, "open")
          /\ UNCHANGED <<handles, sync, fed, liveVars, ghostVars, gossipVars>>
       \/ ~ SyncUp /\ Fail(c)

doc_open(c) ==
    /\ Serving(c, "open")
    /\ \/ /\ SyncUp /\ stored
          /\ open_with(FALSE)
          /\ held' = held \cup {c}
          /\ doc' = [doc EXCEPT ![c] = "open"]
          /\ Reply(c, TRUE)
          /\ UNCHANGED <<stored, liveVars, takenTwice, importers, following, gossipVars>>
       \/ ~ (SyncUp /\ stored) /\ Fail(c)

\* The handle c gives back is its own, or was somebody else's.
GivesBack(c) == /\ held' = held \ {c}
                /\ takenTwice' = (takenTwice \/ (c \notin held /\ handles > 0))

doc_close(c) ==
    /\ Serving(c, "close")
    /\ \/ /\ SyncUp
          /\ close_one
          /\ GivesBack(c)
          /\ Reply(c, TRUE)
          /\ UNCHANGED <<doc, stored, liveVars, importers, following, gossipVars>>
       \/ ~ SyncUp /\ Fail(c)

\* The other requests on a Doc: reads, writes, policies.  They need the open
\* replica and leave all of this as it is.
doc_use(c) == /\ Serving(c, "use")
              /\ Reply(c, SyncUp /\ handles > 0)
              /\ UNCHANGED <<doc, syncVars, liveVars, ghostVars, gossipVars>>

-----------------------------------------------------------------------------
(* The live actor's part                                                   *)

\* Variant: a replica that is open already is not opened once more.
start_sync_shares ==
    /\ IF handles > 0 THEN handles' = handles /\ sync' = TRUE /\ fed' = TRUE
                      ELSE open_with(TRUE)
    /\ syncing' = TRUE

\* LiveActor::start_sync, up to the join: a handle of its own, once.
start_sync ==
    /\ IF syncing THEN UNCHANGED <<handles, sync, fed>> ELSE open_with(TRUE)
    /\ syncing' = TRUE

\* The join of the topic may fail: the document stays in the state.
doc_start_sync(c, op) ==
    /\ Serving(c, op)
    /\ LiveReady
    /\ \/ /\ live = "up" /\ (syncing \/ stored)
          /\ start_sync
          /\ \/ /\ IF op = "start" THEN join ELSE UNCHANGED gossipVars
                /\ following' = following \cup (importers \cap {c})
                /\ Reply(c, TRUE)
             \/ /\ op = "start"
                /\ UNCHANGED <<following, gossipVars>>
                /\ Reply(c, FALSE)
          /\ UNCHANGED <<doc, stored, live, subs, held, takenTwice, importers>>
       \/ ~ (live = "up" /\ (syncing \/ stored)) /\ Fail(c)

\* doc_share exports the secret key, unless only a read ticket is asked for.
doc_share(c) ==
    /\ Serving(c, "share")
    /\ \/ /\ GoOn(c, "start")
          /\ UNCHANGED <<syncVars, liveVars, ghostVars, gossipVars>>
       \/ Fail(c)

KillSubscribers == subs' = {} /\ importers' = {} /\ following' = {}

\* Variant: the topic is not quit.
leave_in_swarm ==
    /\ syncing' = FALSE
    /\ IF syncing
       THEN /\ handles' = handles - 1
            /\ sync' = FALSE
            /\ fed' = FALSE
       ELSE UNCHANGED <<handles, sync, fed>>
    /\ UNCHANGED gossipVars

\* LiveActor::leave when nothing fails on the way: the replica stops syncing and
\* feeding the live actor, its handle goes back, the topic is quit.
leave ==
    /\ syncing' = FALSE
    /\ IF syncing
       THEN /\ handles' = handles - 1
            /\ sync' = FALSE
            /\ fed' = FALSE
            /\ quit
       ELSE UNCHANGED <<handles, sync, fed, gossipVars>>

\* The replica was closed under the live actor: set_sync fails, and leave returns
\* before it quits the topic and before it drops the subscribers.
LeaveFails(c) ==
    /\ syncing /\ handles = 0
    /\ syncing' = FALSE
    /\ Reply(c, FALSE)
    /\ UNCHANGED <<doc, syncVars, live, subs, ghostVars, gossipVars>>

doc_leave(c) ==
    /\ Serving(c, "leave")
    /\ LiveReady
    /\ \/ /\ live = "up" /\ (syncing => handles > 0)
          /\ leave
          /\ Reply(c, TRUE)
          /\ UNCHANGED <<doc, stored, live, subs, ghostVars>>
       \/ live = "up" /\ LeaveFails(c)
       \/ live = "down" /\ Fail(c)

doc_leave_gossip(c) ==
    /\ Serving(c, "leave_gossip")
    /\ LiveReady
    /\ \/ /\ live = "up"
          /\ quit
          /\ Reply(c, TRUE)
          /\ UNCHANGED <<doc, syncVars, liveVars, ghostVars>>
       \/ live = "down" /\ Fail(c)

\* Engine::subscribe: with the open replica, then with the live actor
doc_subscribe(c) ==
    /\ Serving(c, "subscribe")
    /\ \/ /\ SyncUp /\ handles > 0
          /\ GoOn(c, "follow")
          /\ UNCHANGED <<syncVars, liveVars, ghostVars, gossipVars>>
       \/ ~ (SyncUp /\ handles > 0) /\ SubscribeFails(c)

doc_follow(c) ==
    /\ Serving(c, "follow")
    /\ LiveReady
    /\ \/ /\ live = "up"
          /\ subs' = subs \cup {c}
          /\ Subscribed
          /\ UNCHANGED <<syncVars, live, syncing, ghostVars, gossipVars>>
       \/ live = "down" /\ SubscribeFails(c)

\* doc_drop: leave and drop the subscribers, then remove the replica
doc_drop(c) ==
    /\ Serving(c, "drop")
    /\ LiveReady
    /\ \/ /\ live = "up" /\ (syncing => handles > 0)
          /\ leave
          /\ KillSubscribers
          /\ GoOn(c, "remove")
          /\ UNCHANGED <<stored, live, held, takenTwice>>
       \/ live = "up" /\ LeaveFails(c)
       \/ live = "down" /\ Fail(c)

\* The sync actor's DropReplica: one handle is closed; remove_replica refuses
\* while the replica is still open.
doc_remove(c) ==
    /\ Serving(c, "remove")
    /\ \/ /\ SyncUp
          /\ close_one
          /\ GivesBack(c)
          /\ stored' = (stored /\ handles > 1)
          /\ Reply(c, handles <= 1)
          /\ UNCHANGED <<doc, liveVars, importers, following, gossipVars>>
       \/ ~ SyncUp /\ Fail(c)

-----------------------------------------------------------------------------
(* The gossip loops, and the shutdown of the engine                        *)

GossipStep(t) ==
    /\ \/ LoopEnds(t)
       \/ LoopCancelled(t)
       \/ live = "up" /\ active # 0 /\ progress(t)
       \/ live = "stopping" /\ progress(t)
    /\ UNCHANGED <<clientVars, rpcVars, syncVars, liveVars, ghostVars>>

\* Variant: the receive loops are not aborted.
Shutdown_waits ==
    /\ live = "up"
    /\ live' = "stopping"
    /\ KillSubscribers
    /\ UNCHANGED gossipVars
    /\ handles' = 0 /\ sync' = FALSE /\ fed' = FALSE
    /\ held' = {}
    /\ UNCHANGED <<clientVars, rpcVars, stored, syncing, takenTwice>>

\* LiveActor::shutdown: the subscribers go, the topics are quit, the sync actor
\* flushes and closes all replicas.
Shutdown ==
    /\ live = "up"
    /\ live' = "stopping"
    /\ KillSubscribers
    /\ quit
    /\ handles' = 0 /\ sync' = FALSE /\ fed' = FALSE
    /\ held' = {}
    /\ UNCHANGED <<clientVars, rpcVars, stored, syncing, takenTwice>>

\* ... and it returns when every receive loop has been joined.
ShutdownEnds ==
    /\ live = "stopping"
    /\ AllReaped
    /\ live' = "down"
    /\ UNCHANGED <<clientVars, rpcVars, syncVars, syncing, subs, ghostVars, gossipVars>>

Handler(c) ==
    \/ doc_import(c) \/ doc_open(c) \/ doc_close(c) \/ doc_use(c)
    \/ doc_start_sync(c, "start") \/ doc_start_sync(c, "start_scoped") \/ doc_share(c)
    \/ doc_leave(c) \/ doc_leave_gossip(c)
    \/ doc_subscribe(c) \/ doc_follow(c)
    \/ doc_drop(c) \/ doc_remove(c)

Next ==
    \/ \E c \in Clients : \/ \E op \in Ops : Call(c, op)
                           \/ ImportSubscribes(c)
                           \/ Handler(c)
    \/ Receive
    \/ \E t \in Tasks : GossipStep(t)
    \/ Shutdown \/ ShutdownEnds

Spec == Init /\ [][Next]_vars

\* The tasks of the runtime run: the RpcActor and the live actor take their next
\* step, an aborted loop is cancelled, a client goes on with its call.
FairSpec ==
    /\ Spec
    /\ WF_vars(Receive)
    /\ \A c \in Clients : WF_vars(Handler(c)) /\ WF_vars(ImportSubscribes(c))
    /\ WF_vars(ShutdownEnds)
    /\ \A t \in Tasks : /\ WF_vars(LoopCancelled(t) /\ GossipStep(t))
                         /\ WF_vars(progress(t) /\ GossipStep(t))

-----------------------------------------------------------------------------
(* Properties                                                              *)

\* While the live actor has a document in its sync set, the replica is open,
\* enabled for sync, and feeds it its events, whatever clients open, close, drop
\* and share meanwhile, as long as no handle is given back twice (Doc::close
\* does not look at the closed flag, and DropReplica closes a handle).
LiveHoldsItsHandle ==
    live = "up" /\ syncing /\ ~ takenTwice => handles > 0 /\ sync /\ fed

\* Once a document is left or dropped nothing of the live sync stays behind: no
\* topic entry and no receive loop that runs on without one, no sync flag, no event
\* feed, and for a removed document no subscriber (Engine::leave, doc_drop).  Left
\* out are a handle given back twice, which makes leave return early, and of the
\* loops one whose entry progress removed for another: see LeavingLeavesTheSwarm.
LeftIsLeft ==
    live = "up" /\ ~ syncing /\ ~ takenTwice =>
        /\ active = 0 /\ ~ sync /\ ~ fed
        /\ ~ disowned => \A t \in Tasks : task[t] # "running"
        /\ ~ stored => subs = {}

\* "Stop the live sync for a document and leave the gossip swarm" (engine.rs:220):
\* no receive loop of the topic runs on when the document is left.
LeavingLeavesTheSwarm ==
    live = "up" /\ ~ syncing /\ ~ takenTwice => \A t \in Tasks : task[t] # "running"

\* An importer whose sync has been started is among the live subscribers: the
\* subscription sent first is also served first, though its reply is not awaited
\* ("guaranteed to not miss any sync events", DocsApi::import_and_subscribe).
ImportMissesNothing == following \subseteq subs

\* Every call of the API returns, also one that the shutdown overtakes, unless
\* progress has removed the entry of a receive loop that ran: nothing aborts that
\* loop, and the shutdown waits for it.
EveryCallReturns ==
    \/ \A c \in Clients : (at[c] # "idle") ~> (at[c] = "idle")
    \/ <>disowned
=============================================================================
