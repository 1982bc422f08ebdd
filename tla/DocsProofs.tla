----------------------------- MODULE DocsProofs -----------------------------
(***************************************************************************)
(* Proofs about Docs, for every set of clients and every bound.            *)
(*                                                                         *)
(* Two inductive invariants.  HandleInv counts: while no handle is given   *)
(* back twice, the replica has at least one handle for every Doc that      *)
(* still holds one, and one more for the live actor.  QueueInv orders: the *)
(* subscription of an importer is always ahead of the start of its sync,   *)
(* which takes an account of what a client may have in the mailbox.  A     *)
(* third, LoopsOwned, is about the receive loops alone.                    *)
(***************************************************************************)
EXTENDS Docs, FiniteSetTheorems, TLAPS

-----------------------------------------------------------------------------
(* The invariants                                                          *)

\* The handles that are spoken for.
Claims == Cardinality(held) + (IF syncing THEN 1 ELSE 0)

Counted == handles >= Claims

OpenIsStored == /\ handles > 0 => stored
                /\ handles = 0 => ~ sync /\ ~ fed

FedWhileSyncing == IF syncing THEN sync /\ fed ELSE ~ sync /\ ~ fed /\ active = 0

NoStraySubs == ~ syncing /\ ~ stored => subs = {}

\* What the first half of a handler established still holds at the second half.
ServesOpen ==
    \A c \in Clients : /\ Serving(c, "follow") => handles > 0
                       /\ Serving(c, "remove") => ~ syncing /\ subs = {}

HandleInv ==
    /\ IsFiniteSet(held)
    /\ live = "up" => /\ OpenIsStored
                      /\ ServesOpen
                      /\ ~ takenTwice => Counted /\ FedWhileSyncing /\ NoStraySubs

\* Requests that subscribe, and requests that lead to the start of a sync.
SubscribeOps == {"subscribe", "follow"}
StartOps     == {"start", "start_scoped", "share"}
WorkOps      == Ops \cup {"remove", "follow"}

\* Request i of the mailbox is one that client c waits for.
Pending(c, i) == mail[i].client = c /\ mail[i].op \notin SubscribeOps

\* A client waits for one request at a time, and an import for its two halves.
ClientInv ==
    \A c \in Clients :
        /\ \A i \in 1 .. Len(mail) :
              Pending(c, i) => \/ at[c] \in {"waiting", "started"}
                               \/ at[c] = "importing" /\ mail[i].op = "import"
        /\ \A i, j \in 1 .. Len(mail) : Pending(c, i) /\ Pending(c, j) => i = j
        /\ \A op \in WorkOps \ SubscribeOps :
              Serving(c, op) =>
                  /\ \/ at[c] \in {"waiting", "started"}
                     \/ at[c] = "importing" /\ op \in {"import", "open"}
                  /\ \A i \in 1 .. Len(mail) : ~ Pending(c, i)
        /\ Serving(c, "open") /\ at[c] = "importing" => stored

\* The subscription of c is in the mailbox, ahead of every start.
SubscribesFirst(c) ==
    \E j \in 1 .. Len(mail) :
        /\ mail[j] = [client |-> c, op |-> "subscribe"]
        /\ \A i \in 1 .. j - 1 : mail[i].client = c => mail[i].op \notin StartOps

\* An importer that is not subscribed yet has its subscription still to come, and
\* no start before it.
OrderInv ==
    \A c \in importers \ subs :
        /\ \A op \in StartOps : ~ Serving(c, op)
        /\ \/ at[c] \in {"importing", "subscribing"}
           \/ \E op \in SubscribeOps : Serving(c, op)
           \/ SubscribesFirst(c)

QueueInv ==
    /\ following \subseteq subs
    /\ live = "up" => ClientInv /\ OrderInv

-----------------------------------------------------------------------------
(* Types                                                                   *)

RpcTypes ==
    /\ at \in [Clients -> {"idle", "waiting", "importing", "subscribing", "starting", "started"}]
    /\ doc \in [Clients -> {"none", "open", "closed"}]
    /\ mail \in Seq(Request)
    /\ busy \in Seq(Work) /\ Len(busy) <= 1
    /\ calls \in 0 .. MaxCalls

StateTypes ==
    /\ stored \in BOOLEAN /\ sync \in BOOLEAN /\ fed \in BOOLEAN
    /\ handles \in Nat
    /\ live \in {"up", "stopping", "down"}
    /\ syncing \in BOOLEAN
    /\ takenTwice \in BOOLEAN

ClientSets ==
    /\ subs \subseteq Clients /\ held \subseteq Clients
    /\ importers \subseteq Clients /\ following \subseteq Clients

LEMMA TypeParts == TypeOK <=> RpcTypes /\ StateTypes /\ ClientSets /\ GossipTypeOK
  BY DEF TypeOK, RpcTypes, StateTypes, ClientSets

LEMMA InitTypes == Init => TypeOK
<1> SUFFICES ASSUME Init PROVE TypeOK
  OBVIOUS
<1>1. RpcTypes
  BY DocsAssumption DEF Init, RpcTypes, Idle
<1>2. StateTypes /\ ClientSets
  BY Zenon DEF Init, StateTypes, ClientSets
<1>3. GossipTypeOK
  BY Zenon DEF Init, GossipTypeOK, GossipInit, TaskStates
<1> QED
  BY <1>1, <1>2, <1>3, TypeParts

LEMMA GossipTypes ==
    ASSUME GossipTypeOK, join \/ quit \/ UNCHANGED gossipVars \/
                         (\E t \in Tasks : LoopEnds(t) \/ LoopCancelled(t) \/ progress(t))
    PROVE  GossipTypeOK'
<1>1. disowned' \in BOOLEAN
  BY Zenon DEF GossipTypeOK, join, quit, gossipVars, LoopEnds, LoopCancelled, progress
<1>2. active' \in Tasks \cup {0} /\ task' \in [Tasks -> TaskStates]
  BY DEF GossipTypeOK, join, quit, gossipVars, LoopEnds, LoopCancelled, progress, TaskStates, Tasks
<1> QED
  BY <1>1, <1>2 DEF GossipTypeOK

\* How a reply leaves the client it goes to.
AfterReply(c) ==
    \/ at[c] = "importing" /\ at' = [at EXCEPT ![c] = "subscribing"]
    \/ at[c] \in {"importing", "waiting", "started"} /\ at' = [at EXCEPT ![c] = "idle"]
    \/ at[c] \notin {"importing", "waiting", "started"} /\ at' = at

\* What a handler does to its client and to the mailbox: it goes on, it ends
\* without a reply, or it replies.
LEMMA ReplyForm ==
    ASSUME RpcTypes, NEW c \in Clients, NEW ok, Reply(c, ok)
    PROVE  busy' = Idle /\ AfterReply(c) /\ mail' = mail /\ calls' = calls
  BY Zenon DEF RpcTypes, Reply, AfterReply

LEMMA HandlerForm ==
    ASSUME RpcTypes, NEW c \in Clients, Handler(c)
    PROVE  /\ mail' = mail /\ calls' = calls
           /\ doc' = doc \/ doc' = [doc EXCEPT ![c] = "open"]
           /\ \/ \E op \in {"open", "start", "follow", "remove"} :
                    busy' = <<[client |-> c, op |-> op]>> /\ at' = at
              \/ busy' = Idle /\ at' = at
              \/ busy' = Idle /\ AfterReply(c)
<1>1. \A ok : Reply(c, ok) => busy' = Idle /\ AfterReply(c) /\ mail' = mail /\ calls' = calls
  BY ReplyForm
<1>2. Fail(c) \/ LeaveFails(c) => Reply(c, FALSE) /\ doc' = doc
  BY Zenon DEF Fail, LeaveFails
<1>3. CASE doc_import(c) \/ doc_share(c) \/ doc_subscribe(c) \/ doc_follow(c) \/ doc_drop(c)
  BY <1>1, <1>2, <1>3, Zenon
  DEF doc_import, doc_share, doc_subscribe, doc_follow, doc_drop, GoOn, SubscribeFails, Subscribed,
      clientVars
<1>4. CASE doc_open(c) \/ doc_close(c) \/ doc_use(c) \/ doc_remove(c)
  BY <1>1, <1>2, <1>4, Zenon DEF doc_open, doc_close, doc_use, doc_remove
<1>5. CASE doc_leave(c) \/ doc_leave_gossip(c)
  BY <1>1, <1>2, <1>5, Zenon DEF doc_leave, doc_leave_gossip
<1>6. CASE doc_start_sync(c, "start") \/ doc_start_sync(c, "start_scoped")
  BY <1>1, <1>2, <1>6, Zenon DEF doc_start_sync
<1> QED
  BY <1>3, <1>4, <1>5, <1>6 DEF Handler

LEMMA StepRpcTypes == RpcTypes /\ [Next]_vars => RpcTypes'
<1> SUFFICES ASSUME RpcTypes, [Next]_vars PROVE RpcTypes'
  OBVIOUS
<1>1. ASSUME NEW c \in Clients, NEW op \in Ops, Call(c, op) PROVE RpcTypes'
  <2>1. [client |-> c, op |-> IF op = "import_and_subscribe" THEN "import" ELSE op] \in Request
    BY DEF Request, Ops, FreeOps
  <2>2. mail' \in Seq(Request)
    BY <1>1, <2>1 DEF Call, Send, RpcTypes
  <2>3. at' \in [Clients -> {"idle", "waiting", "importing", "subscribing", "starting", "started"}]
    BY <1>1 DEF Call, RpcTypes
  <2>4. doc' \in [Clients -> {"none", "open", "closed"}] /\ calls' \in 0 .. MaxCalls
    BY <1>1, DocsAssumption DEF Call, RpcTypes
  <2>5. busy' = busy
    BY <1>1 DEF Call
  <2> QED
    BY <2>2, <2>3, <2>4, <2>5 DEF RpcTypes
<1>2. ASSUME NEW c \in Clients, ImportSubscribes(c) PROVE RpcTypes'
  <2>1. \A op \in {"subscribe", "start"} : [client |-> c, op |-> op] \in Request
    BY DEF Request, Ops, DocOps
  <2>2. mail' \in Seq(Request)
    <3>1. \E op \in {"subscribe", "start"} : Send(c, op)
      BY <1>2 DEF ImportSubscribes
    <3> QED
      BY <2>1, <3>1 DEF Send, RpcTypes
  <2>3. at' \in [Clients -> {"idle", "waiting", "importing", "subscribing", "starting", "started"}]
    BY <1>2 DEF ImportSubscribes, RpcTypes
  <2>4. busy' = busy /\ doc' = doc /\ calls' = calls
    BY <1>2 DEF ImportSubscribes
  <2> QED
    BY <2>2, <2>3, <2>4 DEF RpcTypes
<1>3. CASE Receive
  <2>1. Head(mail) \in Request /\ mail' \in Seq(Request) /\ busy' = <<Head(mail)>>
    BY <1>3 DEF RpcTypes, Receive
  <2>2. Head(mail) \in Work
    BY <2>1 DEF Request, Work
  <2>3. busy' \in Seq(Work) /\ Len(busy') <= 1
    BY <2>1, <2>2
  <2>4. at' = at /\ doc' = doc /\ calls' = calls
    BY <1>3 DEF Receive, clientVars
  <2> QED
    BY <2>1, <2>3, <2>4 DEF RpcTypes
<1>4. ASSUME NEW c \in Clients, Handler(c) PROVE RpcTypes'
  <2>1. /\ mail' = mail /\ calls' = calls
        /\ doc' = doc \/ doc' = [doc EXCEPT ![c] = "open"]
        /\ at' = at \/ AfterReply(c)
        /\ busy' = Idle
           \/ \E op \in {"open", "start", "follow", "remove"} : busy' = <<[client |-> c, op |-> op]>>
    BY <1>4, HandlerForm
  <2>2. busy' \in Seq(Work) /\ Len(busy') <= 1
    <3>1. \A op \in {"open", "start", "follow", "remove"} : [client |-> c, op |-> op] \in Work
      BY DEF Work, Ops, FreeOps, DocOps
    <3>2. CASE busy' = Idle
      BY <3>2 DEF Idle
    <3>3. ASSUME NEW op \in {"open", "start", "follow", "remove"},
                 busy' = <<[client |-> c, op |-> op]>>
          PROVE  busy' \in Seq(Work) /\ Len(busy') <= 1
      BY <3>1, <3>3
    <3> QED
      BY <2>1, <3>2, <3>3
  <2>3. at' \in [Clients -> {"idle", "waiting", "importing", "subscribing", "starting", "started"}]
    BY <2>1 DEF AfterReply, RpcTypes
  <2>4. doc' \in [Clients -> {"none", "open", "closed"}]
    BY <2>1 DEF RpcTypes
  <2> QED
    BY <2>1, <2>2, <2>3, <2>4 DEF RpcTypes
<1>5. CASE UNCHANGED <<clientVars, rpcVars>>
  BY <1>5 DEF RpcTypes, clientVars, rpcVars
<1> QED
  BY <1>1, <1>2, <1>3, <1>4, <1>5
  DEF Next, GossipStep, Shutdown, ShutdownEnds, vars, clientVars, rpcVars

\* The actions that do more than pass requests and replies on.
LEMMA StepForm ==
    ASSUME [Next]_vars
    PROVE  \/ \E c \in Clients : Handler(c)
           \/ \E t \in Tasks : GossipStep(t)
           \/ Shutdown \/ ShutdownEnds
           \/ /\ UNCHANGED <<syncVars, liveVars, held, takenTwice, following, gossipVars>>
              /\ importers' = importers \/ \E c \in Clients : importers' = importers \cup {c}
  BY DEF Next, Call, ImportSubscribes, Receive, vars, syncVars, liveVars, ghostVars, gossipVars

HandleTypes == handles \in Nat /\ sync \in BOOLEAN /\ fed \in BOOLEAN

LEMMA OpenTypes ==
    ASSUME HandleTypes, open_with(FALSE) \/ open_with(TRUE)
    PROVE  HandleTypes'
<1>1. handles' \in Nat
  BY DEF HandleTypes, open_with
<1>2. sync' \in BOOLEAN /\ fed' \in BOOLEAN
  BY Zenon DEF open_with
<1> QED
  BY <1>1, <1>2 DEF HandleTypes

LEMMA CloseTypes == ASSUME HandleTypes, close_one PROVE HandleTypes'
<1>1. handles' \in Nat
  BY DEF HandleTypes, close_one
<1>2. sync' \in BOOLEAN /\ fed' \in BOOLEAN
  BY Zenon DEF close_one
<1> QED
  BY <1>1, <1>2 DEF HandleTypes

LEMMA LeaveTypes ==
    ASSUME HandleTypes, leave, syncing => handles > 0
    PROVE  HandleTypes' /\ syncing' = FALSE
<1>1. CASE syncing
  <2>1. handles' = handles - 1 /\ sync' = FALSE /\ fed' = FALSE /\ syncing' = FALSE
    BY <1>1 DEF leave
  <2>2. handles > 0
    BY <1>1
  <2>3. handles' \in Nat
    BY <2>1, <2>2 DEF HandleTypes
  <2> QED
    BY <2>1, <2>3, Zenon DEF HandleTypes
<1>2. CASE ~ syncing
  <2>1. handles' = handles /\ sync' = sync /\ fed' = fed /\ syncing' = FALSE
    BY <1>2 DEF leave
  <2> QED
    BY <2>1 DEF HandleTypes
<1> QED
  BY <1>1, <1>2, Zenon

LEMMA StartTypes ==
    ASSUME HandleTypes, start_sync
    PROVE  HandleTypes' /\ syncing' = TRUE
<1>1. CASE syncing
  BY <1>1 DEF HandleTypes, start_sync
<1>2. CASE ~ syncing
  <2>1. open_with(TRUE) /\ syncing' = TRUE
    BY <1>2, Zenon DEF start_sync
  <2> QED
    BY <2>1, OpenTypes
<1> QED
  BY <1>1, <1>2, Zenon

LEMMA GivesBackTypes == ASSUME NEW c, GivesBack(c) PROVE takenTwice' \in BOOLEAN /\ held' = held \ {c}
  BY DEF GivesBack

LEMMA StepStateTypes ==
    ASSUME StateTypes, ClientSets, [Next]_vars
    PROVE  StateTypes' /\ ClientSets'
<1>0. HandleTypes /\ (HandleTypes' => handles' \in Nat /\ sync' \in BOOLEAN /\ fed' \in BOOLEAN)
  BY DEF StateTypes, HandleTypes
<1>1. ASSUME NEW c \in Clients, Handler(c) PROVE StateTypes' /\ ClientSets'
  <2>1. Fail(c) \/ SubscribeFails(c) \/ LeaveFails(c) => StateTypes' /\ ClientSets'
    BY Zenon DEF Fail, SubscribeFails, LeaveFails, StateTypes, ClientSets, syncVars, liveVars, ghostVars
  <2>2. CASE doc_import(c) \/ doc_share(c) \/ doc_subscribe(c) \/ doc_follow(c) \/ doc_use(c)
    BY <2>1, <2>2, Zenon
    DEF doc_import, doc_share, doc_subscribe, doc_follow, doc_use, StateTypes, ClientSets, syncVars,
        liveVars, ghostVars
  <2>3. CASE doc_open(c)
    BY <1>0, <2>1, <2>3, OpenTypes, Zenon DEF doc_open, StateTypes, ClientSets, liveVars
  <2>4. CASE doc_close(c)
    BY <1>0, <2>1, <2>4, CloseTypes, GivesBackTypes, Zenon DEF doc_close, StateTypes, ClientSets, liveVars
  <2>5. CASE doc_remove(c)
    <3>1. CASE SyncUp
      <4>1. HandleTypes' /\ takenTwice' \in BOOLEAN /\ held' = held \ {c}
        BY <1>0, <2>5, <3>1, CloseTypes, GivesBackTypes DEF doc_remove
      <4>2. stored' \in BOOLEAN
        BY <2>5, <3>1 DEF doc_remove
      <4>3. UNCHANGED <<liveVars, importers, following>>
        BY <2>5, <3>1 DEF doc_remove
      <4> QED
        BY <1>0, <4>1, <4>2, <4>3 DEF StateTypes, ClientSets, liveVars
    <3> QED
      BY <2>1, <2>5, <3>1 DEF doc_remove
  <2>6. CASE doc_leave(c)
    BY <1>0, <2>1, <2>6, LeaveTypes, Zenon DEF doc_leave, StateTypes, ClientSets, liveVars, ghostVars
  <2>7. CASE doc_drop(c)
    BY <1>0, <2>1, <2>7, LeaveTypes, Zenon DEF doc_drop, KillSubscribers, StateTypes, ClientSets
  <2>8. CASE doc_start_sync(c, "start") \/ doc_start_sync(c, "start_scoped")
    BY <1>0, <2>1, <2>8, StartTypes, Zenon DEF doc_start_sync, StateTypes, ClientSets
  <2>9. CASE doc_leave_gossip(c)
    BY <2>1, <2>9, Zenon DEF doc_leave_gossip, StateTypes, ClientSets, syncVars, liveVars, ghostVars
  <2> QED
    BY <1>1, <2>2, <2>3, <2>4, <2>5, <2>6, <2>7, <2>8, <2>9 DEF Handler
<1>2. ASSUME NEW t \in Tasks, GossipStep(t) PROVE StateTypes' /\ ClientSets'
  BY <1>2 DEF GossipStep, StateTypes, ClientSets, syncVars, liveVars, ghostVars
<1>3. CASE Shutdown \/ ShutdownEnds
  <2>1. CASE Shutdown
    BY <2>1, Zenon DEF Shutdown, KillSubscribers, StateTypes, ClientSets
  <2>2. CASE ShutdownEnds
    BY <2>2 DEF ShutdownEnds, StateTypes, ClientSets, syncVars, ghostVars
  <2> QED
    BY <1>3, <2>1, <2>2
<1>4. CASE /\ UNCHANGED <<syncVars, liveVars, held, takenTwice, following, gossipVars>>
           /\ importers' = importers \/ \E c \in Clients : importers' = importers \cup {c}
  BY <1>4 DEF StateTypes, ClientSets, syncVars, liveVars
<1> QED
  BY <1>1, <1>2, <1>3, <1>4, StepForm

LEMMA StepGossip ==
    ASSUME [Next]_vars
    PROVE  join \/ quit \/ UNCHANGED gossipVars \/
           (\E t \in Tasks : LoopEnds(t) \/ LoopCancelled(t) \/ progress(t))
<1>1. ASSUME NEW c \in Clients, Handler(c) PROVE join \/ quit \/ UNCHANGED gossipVars
  <2>1. Fail(c) \/ SubscribeFails(c) \/ LeaveFails(c) => UNCHANGED gossipVars
    BY Zenon DEF Fail, SubscribeFails, LeaveFails
  <2> QED
    BY <1>1, <2>1, Zenon
    DEF Handler, doc_import, doc_open, doc_close, doc_use, doc_start_sync, doc_share, doc_leave,
        doc_leave_gossip, doc_subscribe, doc_follow, doc_drop, doc_remove, leave
<1> QED
  BY <1>1, StepForm, Zenon DEF GossipStep, Shutdown, ShutdownEnds

\* Every state of the API is well typed: no handler leaves the mailbox, the handle
\* count or a client's call outside its range.
THEOREM DocsTypeCorrect == Spec => []TypeOK
<1>1. TypeOK /\ [Next]_vars => TypeOK'
  <2> SUFFICES ASSUME TypeOK, [Next]_vars PROVE TypeOK'
    OBVIOUS
  <2>1. RpcTypes' /\ StateTypes' /\ ClientSets' /\ GossipTypeOK'
    BY TypeParts, StepRpcTypes, StepStateTypes, StepGossip, GossipTypes
  <2> QED
    BY <2>1 DEF TypeOK, RpcTypes, StateTypes, ClientSets
<1> QED
  BY <1>1, InitTypes, PTL DEF Spec

-----------------------------------------------------------------------------
(* The handles                                                             *)

LEMMA HeldCounts ==
    ASSUME IsFiniteSet(held), NEW c
    PROVE  /\ Cardinality(held) \in Nat
           /\ IsFiniteSet(held \cup {c}) /\ Cardinality(held \cup {c}) \in Nat
           /\ Cardinality(held \cup {c}) <= Cardinality(held) + 1
           /\ IsFiniteSet(held \ {c}) /\ Cardinality(held \ {c}) \in Nat
           /\ c \in held => Cardinality(held) >= 1 /\ Cardinality(held \ {c}) = Cardinality(held) - 1
           /\ c \notin held => held \ {c} = held
<1>1. Cardinality(held) \in Nat
  BY FS_CardinalityType
<1>2. IsFiniteSet(held \cup {c}) /\ Cardinality(held \cup {c}) \in Nat
      /\ Cardinality(held \cup {c}) <= Cardinality(held) + 1
  <2>1. IsFiniteSet(held \cup {c})
    BY FS_AddElement
  <2>2. Cardinality(held \cup {c}) \in Nat
    BY <2>1, FS_CardinalityType
  <2>3. Cardinality(held \cup {c}) = IF c \in held THEN Cardinality(held) ELSE Cardinality(held) + 1
    BY FS_AddElement
  <2> QED
    BY <1>1, <2>1, <2>2, <2>3
<1>3. IsFiniteSet(held \ {c}) /\ Cardinality(held \ {c}) \in Nat
  BY FS_RemoveElement, FS_CardinalityType
<1>4. c \in held => Cardinality(held \ {c}) = Cardinality(held) - 1
  BY FS_RemoveElement
<1>5. c \in held => Cardinality(held) >= 1
  BY <1>1, <1>3, <1>4
<1>6. c \notin held => held \ {c} = held
  OBVIOUS
<1> QED
  BY <1>1, <1>2, <1>3, <1>4, <1>5, <1>6

LEMMA OpenKeeps ==
    ASSUME TypeOK, HandleInv, live = "up", NEW c \in Clients, stored, open_with(FALSE),
           held' = held \cup {c}, UNCHANGED <<stored, syncing, subs, takenTwice, active>>
    PROVE  OpenIsStored' /\ (~ takenTwice' => Counted' /\ FedWhileSyncing' /\ NoStraySubs')
<1>1. handles \in Nat /\ handles' = handles + 1
  BY DEF TypeOK, open_with
<1>2. sync' = sync /\ fed' = fed
  BY Zenon DEF TypeOK, open_with
<1>3. OpenIsStored'
  BY <1>1 DEF OpenIsStored
<1>4. ASSUME ~ takenTwice PROVE Counted'
  <2>1. Counted /\ IsFiniteSet(held)
    BY <1>4 DEF HandleInv
  <2>2. Cardinality(held) \in Nat /\ Cardinality(held') \in Nat
        /\ Cardinality(held') <= Cardinality(held) + 1
    BY <2>1, HeldCounts, Zenon
  <2>3. CASE syncing
    BY <1>1, <2>1, <2>2, <2>3 DEF Counted, Claims
  <2>4. CASE ~ syncing
    BY <1>1, <2>1, <2>2, <2>4 DEF Counted, Claims
  <2> QED
    BY <2>3, <2>4
<1>5. ASSUME ~ takenTwice PROVE FedWhileSyncing' /\ NoStraySubs'
  BY <1>2, <1>5 DEF HandleInv, FedWhileSyncing, NoStraySubs
<1> QED
  BY <1>3, <1>4, <1>5

LEMMA CloseKeeps ==
    ASSUME TypeOK, HandleInv, live = "up", NEW c \in Clients, close_one, GivesBack(c),
           UNCHANGED <<syncing, subs, active>>,
           handles > 1 => stored' = stored,
           stored' = stored \/ subs = {}
    PROVE  OpenIsStored' /\ (~ takenTwice' => Counted' /\ FedWhileSyncing' /\ NoStraySubs')
<1>1. handles \in Nat /\ handles' = IF handles = 0 THEN 0 ELSE handles - 1
  BY DEF TypeOK, close_one
<1>2. handles > 1 => sync' = sync /\ fed' = fed
  BY Zenon DEF TypeOK, close_one
<1>3. ~ (handles > 1) => sync' = FALSE /\ fed' = FALSE
  BY Zenon DEF close_one
<1>4. OpenIsStored'
  <2>1. handles' > 0 => stored'
    BY <1>1 DEF HandleInv, OpenIsStored
  <2>2. handles' = 0 => ~ (handles > 1)
    BY <1>1
  <2> QED
    BY <1>3, <2>1, <2>2 DEF OpenIsStored
<1>5. ASSUME ~ takenTwice' PROVE Counted' /\ FedWhileSyncing' /\ NoStraySubs'
  <2>1. ~ takenTwice /\ (c \in held \/ ~ (handles > 0)) /\ held' = held \ {c}
    BY <1>5, Zenon DEF GivesBack
  <2>2. Counted /\ FedWhileSyncing /\ NoStraySubs /\ IsFiniteSet(held)
    BY <2>1 DEF HandleInv
  <2>c. /\ Cardinality(held) \in Nat /\ Cardinality(held') \in Nat
        /\ c \in held => Cardinality(held) >= 1 /\ Cardinality(held') = Cardinality(held) - 1
        /\ c \notin held => held' = held
    BY <2>1, <2>2, HeldCounts, Zenon
  <2>3. Counted'
    <3>1. CASE syncing
      BY <1>1, <2>1, <2>2, <2>c, <3>1 DEF Counted, Claims
    <3>2. CASE ~ syncing
      <4>1. handles >= Cardinality(held) /\ Claims' = Cardinality(held')
        BY <2>2, <2>c, <3>2 DEF Counted, Claims
      <4>2. handles' >= Cardinality(held')
        BY <1>1, <2>1, <2>c, <4>1
      <4> QED
        BY <4>1, <4>2 DEF Counted
    <3> QED
      BY <3>1, <3>2
  <2>4. syncing => handles > 1
    BY <1>1, <2>1, <2>2, <2>c DEF Counted, Claims
  <2>5. FedWhileSyncing'
    <3>1. CASE syncing
      BY <1>2, <2>2, <2>4, <3>1 DEF FedWhileSyncing
    <3>2. CASE ~ syncing
      BY <1>2, <1>3, <2>2, <3>2 DEF FedWhileSyncing
    <3> QED
      BY <3>1, <3>2
  <2>6. NoStraySubs'
    BY <2>2 DEF NoStraySubs
  <2> QED
    BY <2>3, <2>5, <2>6
<1> QED
  BY <1>4, <1>5

LEMMA StartKeeps ==
    ASSUME TypeOK, HandleInv, live = "up", syncing \/ stored, start_sync,
           UNCHANGED <<stored, subs, held, takenTwice>>
    PROVE  OpenIsStored' /\ (~ takenTwice' => Counted' /\ FedWhileSyncing' /\ NoStraySubs')
<1>1. CASE syncing
  <2>1. UNCHANGED <<handles, sync, fed, syncing>>
    BY <1>1 DEF TypeOK, start_sync
  <2>2. OpenIsStored'
    BY <2>1 DEF HandleInv, OpenIsStored
  <2>3. ASSUME ~ takenTwice PROVE Counted' /\ FedWhileSyncing' /\ NoStraySubs'
    BY <1>1, <2>1, <2>3 DEF HandleInv, Counted, Claims, FedWhileSyncing, NoStraySubs
  <2> QED
    BY <2>2, <2>3
<1>2. CASE ~ syncing
  <2>1. handles \in Nat /\ handles' = handles + 1 /\ syncing' = TRUE
    BY <1>2 DEF TypeOK, start_sync, open_with
  <2>2. sync' = TRUE /\ fed' = TRUE
    BY <1>2, Zenon DEF start_sync, open_with
  <2>3. OpenIsStored'
    BY <1>2, <2>1 DEF OpenIsStored
  <2>4. ASSUME ~ takenTwice PROVE Counted' /\ FedWhileSyncing' /\ NoStraySubs'
    <3>1. Counted /\ IsFiniteSet(held)
      BY <2>4 DEF HandleInv
    <3>2. Counted'
      <4>1. Cardinality(held) \in Nat /\ held' = held
        BY <3>1, HeldCounts, Zenon
      <4> QED
        BY <1>2, <2>1, <3>1, <4>1 DEF Counted, Claims
    <3>3. FedWhileSyncing' /\ NoStraySubs'
      BY <2>1, <2>2 DEF FedWhileSyncing, NoStraySubs
    <3> QED
      BY <3>2, <3>3
  <2> QED
    BY <2>3, <2>4
<1> QED
  BY <1>1, <1>2

LEMMA LeaveKeeps ==
    ASSUME TypeOK, HandleInv, live = "up", syncing => handles > 0, leave,
           subs' = subs \/ subs' = {}, UNCHANGED <<stored, held, takenTwice>>
    PROVE  OpenIsStored' /\ (~ takenTwice' => Counted' /\ FedWhileSyncing' /\ NoStraySubs')
<1>1. CASE syncing
  <2>1. handles \in Nat /\ handles > 0 /\ handles' = handles - 1
    BY <1>1 DEF TypeOK, leave
  <2>2. sync' = FALSE /\ fed' = FALSE /\ syncing' = FALSE /\ active' = 0
    BY <1>1 DEF leave, quit
  <2>3. stored
    BY <2>1 DEF HandleInv, OpenIsStored
  <2>4. OpenIsStored'
    BY <2>2, <2>3 DEF OpenIsStored
  <2>5. ASSUME ~ takenTwice PROVE Counted'
    <3>1. Counted /\ IsFiniteSet(held)
      BY <2>5 DEF HandleInv
    <3>2. Cardinality(held) \in Nat /\ held' = held
      BY <3>1, HeldCounts, Zenon
    <3> QED
      BY <1>1, <2>1, <2>2, <3>1, <3>2 DEF Counted, Claims
  <2>6. FedWhileSyncing' /\ NoStraySubs'
    BY <2>2, <2>3 DEF FedWhileSyncing, NoStraySubs
  <2> QED
    BY <2>4, <2>5, <2>6
<1>2. CASE ~ syncing
  <2>1. UNCHANGED <<handles, sync, fed, active>> /\ ~ syncing'
    BY <1>2 DEF leave, gossipVars
  <2>2. OpenIsStored'
    BY <2>1 DEF HandleInv, OpenIsStored
  <2>3. ASSUME ~ takenTwice PROVE Counted' /\ FedWhileSyncing' /\ NoStraySubs'
    BY <1>2, <2>1, <2>3 DEF HandleInv, Counted, Claims, FedWhileSyncing, NoStraySubs
  <2> QED
    BY <2>2, <2>3
<1> QED
  BY <1>1, <1>2

\* A step that leaves the replica's handles and the sync alone.
LEMMA SameKeeps ==
    ASSUME HandleInv, live = "up", UNCHANGED <<handles, sync, fed, syncing, held, takenTwice>>,
           stored => stored', active' = active \/ active' = 0,
           subs' = subs \/ handles > 0
    PROVE  OpenIsStored' /\ (~ takenTwice' => Counted' /\ FedWhileSyncing' /\ NoStraySubs')
<1>1. OpenIsStored'
  BY DEF HandleInv, OpenIsStored
<1>2. ASSUME ~ takenTwice PROVE Counted' /\ FedWhileSyncing'
  BY <1>2 DEF HandleInv, Counted, Claims, FedWhileSyncing
<1>3. ASSUME ~ takenTwice PROVE NoStraySubs'
  BY <1>3 DEF HandleInv, NoStraySubs, OpenIsStored
<1> QED
  BY <1>1, <1>2, <1>3

LEMMA StepHeld ==
    ASSUME [Next]_vars
    PROVE  \E c : held' = held \/ held' = held \cup {c} \/ held' = held \ {c} \/ held' = {}
<1>1. ASSUME NEW c \in Clients, Handler(c)
      PROVE  held' = held \/ held' = held \cup {c} \/ held' = held \ {c}
  <2>1. Fail(c) \/ SubscribeFails(c) \/ LeaveFails(c) => held' = held
    BY Zenon DEF Fail, SubscribeFails, LeaveFails, ghostVars
  <2> QED
    BY <1>1, <2>1, Zenon
    DEF Handler, doc_import, doc_open, doc_close, doc_use, doc_start_sync, doc_share, doc_leave,
        doc_leave_gossip, doc_subscribe, doc_follow, doc_drop, doc_remove, GivesBack, ghostVars
<1> QED
  BY <1>1, StepForm, Zenon DEF GossipStep, Shutdown, ShutdownEnds, ghostVars

\* The engine does not come back up.
LEMMA StepLive == ASSUME [Next]_vars, live' = "up" PROVE live = "up"
<1>1. ASSUME NEW c \in Clients, Handler(c) PROVE live' = live
  <2>1. Fail(c) \/ SubscribeFails(c) \/ LeaveFails(c) => live' = live
    BY Zenon DEF Fail, SubscribeFails, LeaveFails, liveVars
  <2> QED
    BY <1>1, <2>1, Zenon
    DEF Handler, doc_import, doc_open, doc_close, doc_use, doc_start_sync, doc_share, doc_leave,
        doc_leave_gossip, doc_subscribe, doc_follow, doc_drop, doc_remove, liveVars
<1> QED
  BY <1>1, StepForm DEF GossipStep, Shutdown, ShutdownEnds, liveVars

LEMMA ServesKeeps ==
    ASSUME TypeOK, HandleInv, live = "up", [Next]_vars, live' = "up"
    PROVE  ServesOpen'
<1>0. ServesOpen
  BY DEF HandleInv
<1>1. ASSUME busy' = busy, UNCHANGED <<handles, syncing, subs>> PROVE ServesOpen'
  BY <1>0, <1>1 DEF ServesOpen, Serving
<1>2. ASSUME busy' = Idle PROVE ServesOpen'
  BY <1>2 DEF ServesOpen, Serving, Idle
<1>3. CASE Receive
  <2>1. Head(mail) \in Request /\ busy' = <<Head(mail)>>
    BY <1>3 DEF TypeOK, Receive
  <2>2. Head(mail).op \notin {"follow", "remove"}
    BY <2>1 DEF Request, Ops, DocOps, FreeOps
  <2> QED
    BY <2>1, <2>2 DEF ServesOpen, Serving
<1>4. ASSUME NEW c \in Clients, Handler(c) PROVE ServesOpen'
  <2>1. \A ok : Reply(c, ok) => busy' = Idle
    BY DEF Reply
  <2>2. Fail(c) \/ LeaveFails(c) \/ SubscribeFails(c) => busy' = Idle
    BY <2>1, Zenon DEF Fail, LeaveFails, SubscribeFails, Subscribed
  <2>3. CASE doc_import(c) \/ doc_share(c)
    <3>1. busy' = Idle \/ \E op \in {"open", "start"} : busy' = <<[client |-> c, op |-> op]>>
      BY <2>2, <2>3 DEF doc_import, doc_share, GoOn
    <3> QED
      BY <1>2, <3>1 DEF ServesOpen, Serving
  <2>4. CASE doc_subscribe(c)
    <3>1. busy' = Idle \/ (busy' = <<[client |-> c, op |-> "follow"]>> /\ handles > 0 /\ handles' = handles)
      BY <2>2, <2>4 DEF doc_subscribe, GoOn, syncVars
    <3> QED
      BY <1>2, <3>1 DEF ServesOpen, Serving
  <2>5. CASE doc_drop(c)
    <3>1. busy' = Idle \/ (busy' = <<[client |-> c, op |-> "remove"]>> /\ syncing' = FALSE /\ subs' = {})
      BY <2>2, <2>5 DEF doc_drop, GoOn, leave, KillSubscribers
    <3> QED
      BY <1>2, <3>1 DEF ServesOpen, Serving
  <2>6. CASE doc_open(c) \/ doc_close(c) \/ doc_use(c) \/ doc_leave(c) \/ doc_leave_gossip(c)
    BY <1>2, <2>1, <2>2, <2>6, Zenon DEF doc_open, doc_close, doc_use, doc_leave, doc_leave_gossip
  <2>7. CASE doc_follow(c) \/ doc_remove(c)
    BY <1>2, <2>1, <2>2, <2>7 DEF doc_follow, doc_remove, Subscribed
  <2>8. CASE doc_start_sync(c, "start") \/ doc_start_sync(c, "start_scoped")
    BY <1>2, <2>1, <2>2, <2>8, Zenon DEF doc_start_sync
  <2> QED
    BY <1>4, <2>3, <2>4, <2>5, <2>6, <2>7, <2>8 DEF Handler
<1>5. ASSUME NEW c \in Clients, (\E op \in Ops : Call(c, op)) \/ ImportSubscribes(c) PROVE ServesOpen'
  BY <1>1, <1>5 DEF Call, ImportSubscribes, syncVars, liveVars
<1>6. ASSUME NEW t \in Tasks, GossipStep(t) PROVE ServesOpen'
  BY <1>1, <1>6 DEF GossipStep, rpcVars, syncVars, liveVars
<1>7. ~ Shutdown /\ ~ ShutdownEnds
  BY DEF Shutdown, ShutdownEnds
<1>8. CASE UNCHANGED vars
  BY <1>1, <1>8 DEF vars
<1> QED
  BY <1>3, <1>4, <1>5, <1>6, <1>7, <1>8 DEF Next

LEMMA HandleStep == TypeOK /\ HandleInv /\ [Next]_vars => HandleInv'
<1> SUFFICES ASSUME TypeOK, HandleInv, [Next]_vars PROVE HandleInv'
  OBVIOUS
<1> DEFINE Kept == OpenIsStored' /\ (~ takenTwice' => Counted' /\ FedWhileSyncing' /\ NoStraySubs')
<1>1. \E c : held' = held \/ held' = held \cup {c} \/ held' = held \ {c} \/ held' = {}
  BY StepHeld, Zenon
<1>2. IsFiniteSet(held')
  BY <1>1, HeldCounts, FS_EmptySet, Zenon DEF HandleInv
<1>3. ASSUME live' = "up" PROVE live = "up"
  BY <1>3, StepLive
<1>4. ASSUME live = "up", live' = "up" PROVE Kept
  <2>1. ASSUME NEW c \in Clients, Handler(c) PROVE Kept
    <3>1. ASSUME Fail(c) \/ SubscribeFails(c) PROVE Kept
      <4>1. UNCHANGED <<handles, sync, fed, syncing, held, takenTwice, stored, active, subs>>
        BY <3>1, Zenon DEF Fail, SubscribeFails, syncVars, liveVars, ghostVars, gossipVars
      <4> QED
        BY <1>4, <4>1, SameKeeps
    <3>2. ASSUME LeaveFails(c) PROVE Kept
      <4>1. takenTwice
        <5> SUFFICES ASSUME ~ takenTwice PROVE FALSE
          OBVIOUS
        <5>1. Counted /\ IsFiniteSet(held) /\ syncing /\ handles = 0
          BY <1>4, <3>2 DEF HandleInv, LeaveFails
        <5>2. Cardinality(held) \in Nat
          BY <5>1, HeldCounts, Zenon
        <5> QED
          BY <5>1, <5>2 DEF Counted, Claims
      <4>2. takenTwice' /\ UNCHANGED syncVars
        BY <3>2, <4>1 DEF LeaveFails, ghostVars
      <4> QED
        BY <1>4, <4>2 DEF HandleInv, OpenIsStored, syncVars
    <3>3. CASE doc_import(c) \/ doc_share(c) \/ doc_use(c) \/ doc_subscribe(c) \/ doc_leave_gossip(c)
      <4>1. \/ Fail(c) \/ SubscribeFails(c)
            \/ /\ UNCHANGED <<handles, sync, fed, syncing, held, takenTwice, subs>>
               /\ stored' = stored \/ stored' = TRUE
               /\ active' = active \/ active' = 0
        BY <3>3, Zenon
        DEF doc_import, doc_share, doc_use, doc_subscribe, doc_leave_gossip, quit, syncVars,
            liveVars, ghostVars, gossipVars
      <4> QED
        BY <1>4, <3>1, <4>1, SameKeeps
    <3>4. CASE doc_follow(c)
      <4>1. handles > 0
        BY <1>4, <3>4 DEF doc_follow, HandleInv, ServesOpen
      <4> QED
        BY <1>4, <3>1, <3>4, <4>1, SameKeeps DEF doc_follow, syncVars, ghostVars, gossipVars
    <3>5. CASE doc_open(c)
      BY <1>4, <3>1, <3>5, OpenKeeps, Zenon DEF doc_open, SyncUp, liveVars, gossipVars
    <3>6. CASE doc_close(c)
      BY <1>4, <3>1, <3>6, CloseKeeps, Zenon DEF doc_close, liveVars, gossipVars
    <3>7. CASE doc_remove(c)
      <4>1. subs = {}
        BY <1>4, <3>7 DEF doc_remove, HandleInv, ServesOpen
      <4>2. stored \in BOOLEAN
        BY DEF TypeOK
      <4>3. CASE SyncUp
        <5>1. stored' = (stored /\ handles > 1)
          BY <3>7, <4>3 DEF doc_remove
        <5>2. handles > 1 => stored' = stored
          BY <4>2, <5>1, Zenon
        <5> QED
          BY <1>4, <3>7, <4>1, <4>3, <5>2, CloseKeeps DEF doc_remove, liveVars, gossipVars
      <4> QED
        BY <3>1, <3>7, <4>3 DEF doc_remove
    <3>8. CASE doc_leave(c) \/ doc_drop(c)
      BY <1>4, <3>1, <3>2, <3>8, LeaveKeeps, Zenon DEF doc_leave, doc_drop, KillSubscribers, ghostVars
    <3>9. CASE doc_start_sync(c, "start") \/ doc_start_sync(c, "start_scoped")
      BY <1>4, <3>1, <3>9, StartKeeps, Zenon DEF doc_start_sync
    <3> QED
      BY <2>1, <3>3, <3>4, <3>5, <3>6, <3>7, <3>8, <3>9, SMTT(30) DEF Handler
  <2>2. ASSUME NEW t \in Tasks, GossipStep(t) PROVE Kept
    BY <1>4, <2>2, SameKeeps
    DEF GossipStep, LoopEnds, LoopCancelled, progress, syncVars, liveVars, ghostVars
  <2>3. ~ Shutdown /\ ~ ShutdownEnds
    BY <1>4 DEF Shutdown, ShutdownEnds
  <2>4. CASE UNCHANGED <<syncVars, liveVars, held, takenTwice, following, gossipVars>>
    BY <1>4, <2>4, SameKeeps DEF syncVars, liveVars, gossipVars
  <2> QED
    BY <2>1, <2>2, <2>3, <2>4, StepForm, ZenonT(30)
<1> QED
  BY <1>2, <1>3, <1>4, ServesKeeps DEF HandleInv

LEMMA HandleStart == Init => HandleInv
  BY FS_EmptySet
  DEF Init, GossipInit, HandleInv, OpenIsStored, ServesOpen, Serving, Idle, Counted, Claims,
      FedWhileSyncing, NoStraySubs

\* The live actor keeps a handle of its own: while a document syncs, and no handle
\* has been given back twice, the replica is open, in sync and feeds the live
\* actor, for any number of clients and calls.
THEOREM LiveKeepsTheReplicaOpen == Spec => []LiveHoldsItsHandle
<1>1. TypeOK /\ HandleInv => LiveHoldsItsHandle
  <2> SUFFICES ASSUME TypeOK, HandleInv, live = "up", syncing, ~ takenTwice
               PROVE  handles > 0 /\ sync /\ fed
    BY DEF LiveHoldsItsHandle
  <2>1. Counted /\ FedWhileSyncing /\ IsFiniteSet(held)
    BY DEF HandleInv
  <2>2. Cardinality(held) \in Nat /\ handles \in Nat
    BY <2>1, HeldCounts, Zenon DEF TypeOK
  <2>3. handles > 0
    BY <2>1, <2>2 DEF Counted, Claims
  <2> QED
    BY <2>1, <2>3 DEF FedWhileSyncing
<1> QED
  BY <1>1, HandleStart, HandleStep, DocsTypeCorrect, PTL DEF Spec

\* As long as progress has not removed the entry of a running loop, the topic's
\* entry leads to every loop that runs.
LoopsOwned == ~ disowned => \A t \in Tasks : task[t] = "running" => t = active

LEMMA LoopsOwnedStep ==
    ASSUME GossipTypeOK, LoopsOwned, [Next]_vars
    PROVE  LoopsOwned'
<1>1. 0 \notin Tasks
  BY DEF Tasks
<1>2. CASE join
  BY <1>1, <1>2 DEF join, LoopsOwned, GossipTypeOK, gossipVars
<1>3. CASE quit
  BY <1>3 DEF quit, LoopsOwned, GossipTypeOK
<1>4. CASE UNCHANGED gossipVars
  BY <1>4 DEF gossipVars, LoopsOwned
<1>5. ASSUME NEW t \in Tasks, LoopEnds(t) \/ LoopCancelled(t) PROVE LoopsOwned'
  BY <1>5 DEF LoopEnds, LoopCancelled, LoopsOwned, GossipTypeOK
<1>6. ASSUME NEW t \in Tasks, progress(t) PROVE LoopsOwned'
  <2> SUFFICES ASSUME ~ disowned', NEW u \in Tasks, task'[u] = "running" PROVE u = active'
    BY DEF LoopsOwned
  <2>1. task[u] = "running"
    BY <1>6 DEF progress, GossipTypeOK
  <2>2. u = active
    <3>1. ~ disowned
      BY <1>6, Zenon DEF progress
    <3> QED
      BY <2>1, <3>1 DEF LoopsOwned
  <2>3. active' # 0
    BY <1>6, <2>1, <2>2, Zenon DEF progress
  <2> QED
    BY <1>6, <2>2, <2>3 DEF progress
<1> QED
  BY <1>2, <1>3, <1>4, <1>5, <1>6, StepGossip

\* Leaving is complete: once a document is left or dropped, and no handle has been
\* given back twice, it has no topic entry, no sync flag, no event feed and, when
\* it is removed, no subscriber; and no receive loop runs on, unless progress took
\* the result of an older loop for that of the running one (gossip.rs:112).
THEOREM LeavingIsComplete == Spec => []LeftIsLeft
<1>1. HandleInv /\ LoopsOwned => LeftIsLeft
  <2>1. 0 \notin Tasks
    BY DEF Tasks
  <2> QED
    BY <2>1 DEF HandleInv, FedWhileSyncing, NoStraySubs, LeftIsLeft, LoopsOwned
<1>2. Init => LoopsOwned
  BY DEF Init, GossipInit, LoopsOwned
<1>3. TypeOK /\ LoopsOwned /\ [Next]_vars => LoopsOwned'
  BY LoopsOwnedStep DEF TypeOK
<1> QED
  BY <1>1, <1>2, <1>3, HandleStart, HandleStep, DocsTypeCorrect, PTL DEF Spec

-----------------------------------------------------------------------------
(* The mailbox                                                             *)

\* What a handler does, seen from the mailbox, while the engine is up.
HandlerWork(c) ==
    \/ /\ Serving(c, "import") /\ busy' = <<[client |-> c, op |-> "open"]>>
       /\ at' = at /\ stored' = TRUE /\ UNCHANGED <<subs, importers, following>>
    \/ /\ Serving(c, "share") /\ busy' = <<[client |-> c, op |-> "start"]>>
       /\ at' = at /\ UNCHANGED <<subs, importers, following>>
    \/ /\ Serving(c, "drop") /\ busy' = <<[client |-> c, op |-> "remove"]>>
       /\ at' = at /\ subs' = {} /\ importers' = {} /\ following' = {}
    \/ /\ Serving(c, "subscribe") /\ busy' = <<[client |-> c, op |-> "follow"]>>
       /\ at' = at /\ UNCHANGED <<subs, importers, following>>
    \/ /\ \E op \in SubscribeOps : Serving(c, op)
       /\ busy' = Idle /\ at' = at /\ following' = following
       /\ \/ subs' = subs /\ importers' = importers \ {c}
          \/ subs' = subs \cup {c} /\ importers' = importers
    \/ \E op \in WorkOps \ SubscribeOps :
       /\ Serving(c, op) /\ op # "import"
       /\ busy' = Idle /\ AfterReply(c) /\ UNCHANGED <<subs, importers>>
       /\ op = "open" /\ stored /\ at[c] = "importing" => at'[c] = "subscribing"
       /\ following' = following
          \/ (op \in StartOps /\ following' = following \cup (importers \cap {c}))

LEMMA HandlerWorks ==
    ASSUME TypeOK, live = "up", NEW c \in Clients, Handler(c)
    PROVE  HandlerWork(c)
<1>0. RpcTypes
  BY TypeParts
<1>1. \A ok : Reply(c, ok) => busy' = Idle /\ AfterReply(c)
  BY <1>0, ReplyForm
<1>2. Fail(c) \/ LeaveFails(c) => busy' = Idle /\ AfterReply(c) /\ UNCHANGED <<subs, importers, following>>
  BY <1>1, ZenonT(30) DEF Fail, LeaveFails, liveVars, ghostVars
<1>3. SubscribeFails(c) =>
          busy' = Idle /\ at' = at /\ subs' = subs /\ importers' = importers \ {c} /\ following' = following
  BY DEF SubscribeFails, Subscribed, clientVars, liveVars
<1>4. {"open", "close", "use", "start", "start_scoped", "share", "leave", "leave_gossip", "drop",
       "remove"} \subseteq WorkOps \ SubscribeOps
  BY DEF WorkOps, SubscribeOps, Ops, DocOps, FreeOps
<1>5. CASE doc_import(c)
  BY <1>5 DEF HandlerWork, doc_import, SyncUp, GoOn, clientVars, liveVars, ghostVars
<1>6. CASE doc_share(c)
  BY <1>2, <1>4, <1>6 DEF HandlerWork, doc_share, GoOn, clientVars, liveVars, ghostVars
<1>7. CASE doc_drop(c)
  BY <1>2, <1>4, <1>7, SMTT(30) DEF HandlerWork, doc_drop, GoOn, KillSubscribers, clientVars
<1>8. CASE doc_subscribe(c)
  BY <1>3, <1>8, SMTT(30) DEF HandlerWork, doc_subscribe, GoOn, SubscribeOps, clientVars, liveVars, ghostVars
<1>9. CASE doc_follow(c)
  BY <1>3, <1>9 DEF HandlerWork, doc_follow, Subscribed, SubscribeOps, clientVars, ghostVars
<1>10. CASE doc_open(c)
  <2>1. CASE stored
    <3>1. at' = [at EXCEPT ![c] = IF @ = "importing" THEN "subscribing"
                                  ELSE IF @ \in {"importing", "waiting", "started"} THEN "idle"
                                  ELSE @]
      BY <1>10, <2>1 DEF doc_open, SyncUp, Reply
    <3>2. at[c] = "importing" => at'[c] = "subscribing"
      BY <3>1 DEF TypeOK
    <3>3. Serving(c, "open") /\ busy' = Idle /\ AfterReply(c) /\ UNCHANGED <<subs, importers, following>>
      BY <1>1, <1>10, <2>1, Zenon DEF doc_open, SyncUp, liveVars
    <3> QED
      BY <1>4, <3>2, <3>3 DEF HandlerWork
  <2>2. CASE ~ stored
    <3>1. Serving(c, "open") /\ Fail(c)
      BY <1>10, <2>2, Zenon DEF doc_open
    <3> QED
      BY <1>2, <1>4, <2>2, <3>1 DEF HandlerWork
  <2> QED
    BY <2>1, <2>2, SMTT(30)
<1>11. CASE doc_close(c) \/ doc_use(c) \/ doc_remove(c) \/ doc_leave(c) \/ doc_leave_gossip(c)
  <2>1. \E op \in {"close", "use", "remove", "leave", "leave_gossip"} : Serving(c, op)
    BY <1>11, Zenon DEF doc_close, doc_use, doc_remove, doc_leave, doc_leave_gossip
  <2>2. busy' = Idle /\ AfterReply(c) /\ UNCHANGED <<subs, importers, following>>
    BY <1>1, <1>2, <1>11, Zenon
    DEF doc_close, doc_use, doc_remove, doc_leave, doc_leave_gossip, liveVars, ghostVars
  <2> QED
    BY <1>4, <2>1, <2>2 DEF HandlerWork
<1>12. ASSUME NEW op \in {"start", "start_scoped"}, doc_start_sync(c, op) PROVE HandlerWork(c)
  <2>1. /\ Serving(c, op) /\ busy' = Idle /\ AfterReply(c) /\ UNCHANGED <<subs, importers>>
        /\ following' = following \/ following' = following \cup (importers \cap {c})
    BY <1>1, <1>2, <1>12, Zenon DEF doc_start_sync
  <2> QED
    BY <1>4, <2>1 DEF HandlerWork, StartOps
<1> QED
  BY <1>5, <1>6, <1>7, <1>8, <1>9, <1>10, <1>11, <1>12 DEF Handler

\* A step that hands no request on to the handlers: it may append one to the
\* mailbox, and it leaves the handler and everything the handlers change alone.
LEMMA AppendKeeps ==
    ASSUME TypeOK, QueueInv, live = "up", NEW c \in Clients, NEW op \in Ops,
           mail' = Append(mail, [client |-> c, op |-> op]),
           UNCHANGED <<busy, stored, subs>>,
           \A d \in Clients \ {c} : at'[d] = at[d],
           at[c] \in {"idle", "subscribing", "starting"},
           op \notin SubscribeOps => at'[c] \in {"waiting", "started"}
                                     \/ (at'[c] = "importing" /\ op = "import")
    PROVE  ClientInv'
<1>1. /\ Len(mail') = Len(mail) + 1 /\ Len(mail) \in Nat
      /\ \A i \in 1 .. Len(mail) : mail'[i] = mail[i]
      /\ mail'[Len(mail) + 1] = [client |-> c, op |-> op]
  BY DEF TypeOK
<1>2. ClientInv
  BY DEF QueueInv
<1>3. \A i \in 1 .. Len(mail) : ~ Pending(c, i)
  BY <1>2, SMTT(30) DEF ClientInv
<1>4. \A o \in WorkOps \ SubscribeOps : ~ Serving(c, o)
  BY <1>2, SMTT(30) DEF ClientInv
<1>5. ASSUME NEW d \in Clients, NEW i \in 1 .. Len(mail'), Pending(d, i)'
      PROVE  \/ d # c /\ i \in 1 .. Len(mail) /\ Pending(d, i)
             \/ d = c /\ i = Len(mail) + 1 /\ op \notin SubscribeOps /\ mail'[i].op = op
  BY <1>1, <1>3, <1>5, SMTT(30) DEF Pending
<1>6. "open" \in WorkOps \ SubscribeOps
  BY SMTT(30) DEF WorkOps, SubscribeOps, Ops, FreeOps
<1> SUFFICES ASSUME NEW d \in Clients
             PROVE  /\ \A i \in 1 .. Len(mail') :
                          Pending(d, i)' => \/ at'[d] \in {"waiting", "started"}
                                            \/ at'[d] = "importing" /\ mail'[i].op = "import"
                    /\ \A i, j \in 1 .. Len(mail') : Pending(d, i)' /\ Pending(d, j)' => i = j
                    /\ \A o \in WorkOps \ SubscribeOps :
                          Serving(d, o)' =>
                              /\ \/ at'[d] \in {"waiting", "started"}
                                 \/ at'[d] = "importing" /\ o \in {"import", "open"}
                              /\ \A i \in 1 .. Len(mail') : ~ Pending(d, i)'
                    /\ Serving(d, "open")' /\ at'[d] = "importing" => stored'
  BY SMTT(30) DEF ClientInv
<1>7. ASSUME NEW i \in 1 .. Len(mail'), Pending(d, i)'
      PROVE  \/ at'[d] \in {"waiting", "started"}
             \/ at'[d] = "importing" /\ mail'[i].op = "import"
  BY <1>1, <1>2, <1>5, <1>7, SMTT(30) DEF ClientInv
<1>8. ASSUME NEW i \in 1 .. Len(mail'), NEW j \in 1 .. Len(mail'), Pending(d, i)', Pending(d, j)'
      PROVE  i = j
  BY <1>2, <1>5, <1>8, ZenonT(30) DEF ClientInv
<1>9. ASSUME NEW o \in WorkOps \ SubscribeOps, Serving(d, o)'
      PROVE  /\ \/ at'[d] \in {"waiting", "started"}
                \/ at'[d] = "importing" /\ o \in {"import", "open"}
             /\ \A i \in 1 .. Len(mail') : ~ Pending(d, i)'
  <2>1. Serving(d, o) /\ d # c
    BY <1>4, <1>9, ZenonT(30) DEF Serving
  <2> QED
    BY <1>2, <1>5, <2>1, SMTT(30) DEF ClientInv
<1>10. Serving(d, "open")' /\ at'[d] = "importing" => stored'
  <2> SUFFICES ASSUME Serving(d, "open")', at'[d] = "importing" PROVE stored'
    BY SMTT(30)
  <2>1. Serving(d, "open") /\ d # c
    BY <1>4, <1>6, ZenonT(30) DEF Serving
  <2> QED
    BY <1>2, <2>1, ZenonT(30) DEF ClientInv
<1> QED
  BY <1>7, <1>8, <1>9, <1>10

\* A request appended at the end comes after every subscription.
LEMMA AppendFirst ==
    ASSUME mail \in Seq(Request), NEW r \in Request, mail' = Append(mail, r),
           NEW d, SubscribesFirst(d)
    PROVE  SubscribesFirst(d)'
<1>1. /\ Len(mail') = Len(mail) + 1 /\ Len(mail) \in Nat
      /\ \A i \in 1 .. Len(mail) : mail'[i] = mail[i]
  OBVIOUS
<1>2. PICK j \in 1 .. Len(mail) :
           /\ mail[j] = [client |-> d, op |-> "subscribe"]
           /\ \A i \in 1 .. j - 1 : mail[i].client = d => mail[i].op \notin StartOps
  BY SMTT(30) DEF SubscribesFirst
<1>3. j \in 1 .. Len(mail') /\ mail'[j] = mail[j] /\ \A i \in 1 .. j - 1 : mail'[i] = mail[i]
  BY <1>1
<1> QED
  BY <1>2, <1>3 DEF SubscribesFirst

LEMMA CallKeeps ==
    ASSUME TypeOK, QueueInv, live = "up", NEW c \in Clients, NEW op \in Ops, Call(c, op)
    PROVE  ClientInv' /\ OrderInv'
<1> DEFINE o == IF op = "import_and_subscribe" THEN "import" ELSE op
<1>1. o \in Ops /\ [client |-> c, op |-> o] \in Request
  BY DEF Request, Ops, FreeOps
<1>2. mail' = Append(mail, [client |-> c, op |-> o]) /\ at[c] = "idle"
  BY DEF Call, Send
<1>3. /\ UNCHANGED <<busy, stored, subs>>
      /\ importers' = importers \/ (importers' = importers \cup {c} /\ at'[c] = "importing")
      /\ \A d \in Clients \ {c} : at'[d] = at[d]
      /\ o \notin SubscribeOps => at'[c] \in {"waiting", "started"}
                                  \/ (at'[c] = "importing" /\ o = "import")
  BY SMTT(30) DEF Call, TypeOK, syncVars, liveVars, SubscribeOps
<1>4. ClientInv'
  <2> HIDE DEF o
  <2> QED
    BY <1>1, <1>2, <1>3, AppendKeeps
<1>5. OrderInv'
  <2> SUFFICES ASSUME NEW d \in importers' \ subs'
               PROVE  /\ \A q \in StartOps : ~ Serving(d, q)'
                      /\ \/ at'[d] \in {"importing", "subscribing"}
                         \/ \E q \in SubscribeOps : Serving(d, q)'
                         \/ SubscribesFirst(d)'
    BY DEF OrderInv
  <2>1. ClientInv /\ OrderInv /\ StartOps \subseteq WorkOps \ SubscribeOps
    BY SMTT(30) DEF QueueInv, StartOps, WorkOps, SubscribeOps, Ops, DocOps
  <2>2. CASE d \in importers
    <3>1. \/ d # c /\ at[d] \in {"importing", "subscribing"}
          \/ \E q \in SubscribeOps : Serving(d, q)
          \/ SubscribesFirst(d)
      BY <1>2, <1>3, <2>1, <2>2, ZenonT(30) DEF OrderInv
    <3>2. SubscribesFirst(d) => SubscribesFirst(d)'
      BY <1>1, <1>2, AppendFirst DEF TypeOK
    <3>3. d \in Clients
      BY <2>2, SMTT(30) DEF TypeOK
    <3>4. \A q \in StartOps : ~ Serving(d, q)'
      BY <1>3, <2>1, <2>2, ZenonT(30) DEF OrderInv, Serving
    <3>5. \A q \in SubscribeOps : Serving(d, q) => Serving(d, q)'
      BY <1>3, SMTT(30) DEF Serving
    <3> QED
      BY <1>3, <3>1, <3>2, <3>3, <3>4, <3>5, ZenonT(30)
  <2>3. CASE d \notin importers
    <3>1. d = c /\ at'[c] = "importing"
      BY <1>3, <2>3, SMTT(30)
    <3>2. \A q \in StartOps : ~ Serving(c, q)
      BY <1>2, <2>1, Zenon DEF ClientInv
    <3> QED
      BY <1>3, <3>1, <3>2, ZenonT(30) DEF Serving
  <2> QED
    BY <2>2, <2>3
<1> QED
  BY <1>4, <1>5

LEMMA ImportKeeps ==
    ASSUME TypeOK, QueueInv, live = "up", NEW c \in Clients, ImportSubscribes(c)
    PROVE  ClientInv' /\ OrderInv'
<1>1. PICK op \in {"subscribe", "start"} :
           /\ mail' = Append(mail, [client |-> c, op |-> op])
           /\ \/ at[c] = "subscribing" /\ op = "subscribe" /\ at' = [at EXCEPT ![c] = "starting"]
              \/ at[c] = "starting" /\ op = "start" /\ at' = [at EXCEPT ![c] = "started"]
           /\ UNCHANGED <<busy, stored, subs, importers>>
  BY DEF ImportSubscribes, Send, syncVars, liveVars, ghostVars
<1>2. op \in Ops /\ [client |-> c, op |-> op] \in Request
  BY DEF Request, Ops, DocOps
<1>3. /\ \A d \in Clients \ {c} : at'[d] = at[d]
      /\ op \notin SubscribeOps => at'[c] \in {"waiting", "started"}
      /\ at[c] \in {"subscribing", "starting"}
  BY <1>1 DEF TypeOK, SubscribeOps
<1>4. ClientInv'
  BY <1>1, <1>2, <1>3, AppendKeeps, ZenonT(30)
<1>5. OrderInv'
  <2> SUFFICES ASSUME NEW d \in importers \ subs
               PROVE  /\ \A q \in StartOps : ~ Serving(d, q)'
                      /\ \/ at'[d] \in {"importing", "subscribing"}
                         \/ \E q \in SubscribeOps : Serving(d, q)'
                         \/ SubscribesFirst(d)'
    BY <1>1 DEF OrderInv
  <2>1. ClientInv /\ OrderInv /\ d \in Clients /\ mail \in Seq(Request)
    BY SMTT(30) DEF QueueInv, TypeOK
  <2>2. \A q \in StartOps : ~ Serving(d, q)'
    BY <1>1, <2>1 DEF OrderInv, Serving
  <2>3. \A q \in SubscribeOps : Serving(d, q) => Serving(d, q)'
    BY <1>1 DEF Serving
  <2>4. SubscribesFirst(d) => SubscribesFirst(d)'
    BY <1>1, <1>2, <2>1, AppendFirst, ZenonT(30)
  <2>5. CASE d = c /\ at[c] = "subscribing"
    <3>1. /\ Len(mail') = Len(mail) + 1 /\ Len(mail) \in Nat
          /\ \A i \in 1 .. Len(mail) : mail'[i] = mail[i]
          /\ mail'[Len(mail) + 1] = [client |-> c, op |-> "subscribe"]
      BY <1>1, <2>1, <2>5, SMTT(30)
    <3>2. \A i \in 1 .. Len(mail) : ~ Pending(c, i)
      BY <2>1, <2>5 DEF ClientInv
    <3>3. \A i \in 1 .. Len(mail) : mail'[i].client = c => mail'[i].op \notin StartOps
      BY <3>1, <3>2, ZenonT(30) DEF Pending, StartOps, SubscribeOps
    <3>4. SubscribesFirst(c)'
      BY <3>1, <3>3, SMTT(30) DEF SubscribesFirst
    <3> QED
      BY <2>2, <2>5, <3>4, ZenonT(30)
  <2>6. CASE ~ (d = c /\ at[c] = "subscribing")
    <3>1. \/ d # c /\ at[d] \in {"importing", "subscribing"}
          \/ \E q \in SubscribeOps : Serving(d, q)
          \/ SubscribesFirst(d)
      BY <1>3, <2>1, <2>6 DEF OrderInv
    <3> QED
      BY <1>3, <2>1, <2>2, <2>3, <2>4, <3>1, ZenonT(30)
  <2> QED
    BY <2>5, <2>6
<1> QED
  BY <1>4, <1>5, SMTT(30)

LEMMA ReceiveKeeps ==
    ASSUME TypeOK, QueueInv, live = "up", Receive
    PROVE  ClientInv' /\ OrderInv'
<1>1. /\ busy = Idle /\ busy' = <<Head(mail)>>
      /\ UNCHANGED <<at, stored, subs, importers>>
  BY DEF Receive, clientVars, syncVars, liveVars, ghostVars
<1>2. /\ Len(mail) \in Nat \ {0} /\ Len(mail') = Len(mail) - 1
      /\ \A i \in 1 .. Len(mail') : mail'[i] = mail[i + 1]
      /\ Head(mail) = mail[1] /\ mail[1] \in Request
  BY SMTT(30) DEF Receive, TypeOK
<1>3. \A c \in Clients : \A op : Serving(c, op)' => mail[1].client = c /\ mail[1].op = op
  BY <1>1, <1>2, SMTT(30) DEF Serving
<1>4. \A c \in Clients : \A i \in 1 .. Len(mail') : Pending(c, i)' => i + 1 \in 1 .. Len(mail) /\ Pending(c, i + 1)
  BY <1>2 DEF Pending
<1>5. ClientInv /\ OrderInv
  BY DEF QueueInv
<1>6. mail[1].op \in Ops /\ 1 \in 1 .. Len(mail)
  BY <1>2, SMTT(30) DEF Request
<1>7. ClientInv'
  <2> SUFFICES ASSUME NEW d \in Clients
               PROVE  /\ \A i \in 1 .. Len(mail') :
                            Pending(d, i)' => \/ at'[d] \in {"waiting", "started"}
                                              \/ at'[d] = "importing" /\ mail'[i].op = "import"
                      /\ \A i, j \in 1 .. Len(mail') : Pending(d, i)' /\ Pending(d, j)' => i = j
                      /\ \A o \in WorkOps \ SubscribeOps :
                            Serving(d, o)' =>
                                /\ \/ at'[d] \in {"waiting", "started"}
                                   \/ at'[d] = "importing" /\ o \in {"import", "open"}
                                /\ \A i \in 1 .. Len(mail') : ~ Pending(d, i)'
                      /\ Serving(d, "open")' /\ at'[d] = "importing" => stored'
    BY SMTT(30) DEF ClientInv
  <2>1. ASSUME NEW i \in 1 .. Len(mail'), Pending(d, i)'
        PROVE  \/ at'[d] \in {"waiting", "started"}
               \/ at'[d] = "importing" /\ mail'[i].op = "import"
    BY <1>1, <1>2, <1>4, <1>5, <2>1, SMTT(30) DEF ClientInv
  <2>2. ASSUME NEW i \in 1 .. Len(mail'), NEW j \in 1 .. Len(mail'), Pending(d, i)', Pending(d, j)'
        PROVE  i = j
    <3>1. i + 1 = j + 1
      BY <1>4, <1>5, <2>2, SMTT(30) DEF ClientInv
    <3> QED
      BY <1>2, <3>1, SMTT(30)
  <2>3. ASSUME NEW o \in WorkOps \ SubscribeOps, Serving(d, o)'
        PROVE  /\ \/ at'[d] \in {"waiting", "started"}
                  \/ at'[d] = "importing" /\ o = "import"
               /\ \A i \in 1 .. Len(mail') : ~ Pending(d, i)'
    <3>1. Pending(d, 1) /\ mail[1].op = o
      BY <1>3, <2>3 DEF Pending
    <3>2. \/ at[d] \in {"waiting", "started"}
          \/ at[d] = "importing" /\ o = "import"
      BY <1>5, <1>6, <3>1 DEF ClientInv
    <3>3. ASSUME NEW i \in 1 .. Len(mail'), Pending(d, i)' PROVE FALSE
      <4>1. i + 1 = 1
        BY <1>4, <1>5, <1>6, <3>1, <3>3 DEF ClientInv
      <4> QED
        BY <1>2, <4>1, SMTT(30)
    <3> QED
      BY <1>1, <3>2, <3>3
  <2>4. "open" \in WorkOps \ SubscribeOps
    BY DEF WorkOps, SubscribeOps, Ops, FreeOps
  <2>5. ~ (Serving(d, "open")' /\ at'[d] = "importing")
    BY <2>3, <2>4, ZenonT(30)
  <2> QED
    BY <2>1, <2>2, <2>3, <2>5, ZenonT(30)
<1>8. OrderInv'
  <2> SUFFICES ASSUME NEW d \in importers \ subs
               PROVE  /\ \A q \in StartOps : ~ Serving(d, q)'
                      /\ \/ at'[d] \in {"importing", "subscribing"}
                         \/ \E q \in SubscribeOps : Serving(d, q)'
                         \/ SubscribesFirst(d)'
    BY <1>1 DEF OrderInv
  <2>1. d \in Clients /\ StartOps \cap SubscribeOps = {} /\ "import" \notin StartOps
    BY DEF TypeOK, StartOps, SubscribeOps
  <2>2. at[d] \in {"importing", "subscribing"} \/ SubscribesFirst(d)
    BY <1>1, <1>5 DEF OrderInv, Serving, Idle
  <2>3. CASE at[d] \in {"importing", "subscribing"}
    <3>1. ASSUME NEW q \in StartOps, Serving(d, q)' PROVE FALSE
      <4>1. Pending(d, 1) /\ mail[1].op = q
        BY <1>3, <2>1, <3>1, SMTT(30) DEF Pending
      <4> QED
        BY <1>5, <1>6, <2>1, <2>3, <4>1, ZenonT(30) DEF ClientInv
    <3> QED
      BY <1>1, <2>3, <3>1, ZenonT(30)
  <2>4. CASE SubscribesFirst(d)
    <3>1. PICK j \in 1 .. Len(mail) :
               /\ mail[j] = [client |-> d, op |-> "subscribe"]
               /\ \A i \in 1 .. j - 1 : mail[i].client = d => mail[i].op \notin StartOps
      BY <2>4, ZenonT(30) DEF SubscribesFirst
    <3>2. CASE j = 1
      <4>1. Serving(d, "subscribe")'
        BY <1>1, <1>2, <3>1, <3>2, ZenonT(30) DEF Serving
      <4>2. mail[1].op = "subscribe"
        BY <3>1, <3>2
      <4> QED
        BY <1>3, <2>1, <4>1, <4>2, ZenonT(30) DEF StartOps, SubscribeOps
    <3>3. CASE j # 1
      <4>1. j - 1 \in 1 .. Len(mail') /\ mail'[j - 1] = mail[j] /\ 1 \in 1 .. j - 1
        BY <1>2, <3>3
      <4>2. \A i \in 1 .. (j - 1) - 1 : mail'[i] = mail[i + 1] /\ i + 1 \in 1 .. j - 1
        BY <1>2, SMTT(30)
      <4>3. SubscribesFirst(d)'
        BY <3>1, <4>1, <4>2, ZenonT(30) DEF SubscribesFirst
      <4>4. \A q \in StartOps : ~ Serving(d, q)'
        BY <1>3, <2>1, <3>1, <4>1, ZenonT(30)
      <4> QED
        BY <4>3, <4>4
    <3> QED
      BY <3>2, <3>3, ZenonT(30)
  <2> QED
    BY <2>2, <2>3, <2>4
<1> QED
  BY <1>7, <1>8

\* The actor serves one client at a time.
LEMMA OneServed ==
    ASSUME NEW c, NEW d, c # d, NEW p, NEW op
    PROVE  /\ <<[client |-> c, op |-> p]>> # <<[client |-> d, op |-> op]>>
           /\ << >> # <<[client |-> d, op |-> op]>>
<1>1. [client |-> c, op |-> p].client # [client |-> d, op |-> op].client
  OBVIOUS
<1>2. [client |-> c, op |-> p] # [client |-> d, op |-> op]
  BY <1>1
<1>3. /\ <<[client |-> c, op |-> p]>>[1] = [client |-> c, op |-> p]
      /\ <<[client |-> d, op |-> op]>>[1] = [client |-> d, op |-> op]
  OBVIOUS
<1>4. << >> # <<[client |-> d, op |-> op]>>
  OBVIOUS
<1> QED
  BY <1>2, <1>3, <1>4

LEMMA HandlerKeeps ==
    ASSUME TypeOK, QueueInv, live = "up", NEW c \in Clients, Handler(c)
    PROVE  QueueInv'
<1>0. ClientInv /\ OrderInv /\ following \subseteq subs /\ HandlerWork(c) /\ mail' = mail
  BY HandlerWorks, HandlerForm, TypeParts, ZenonT(30) DEF QueueInv
<1>1. \E op \in WorkOps : Serving(c, op)
  BY <1>0 DEF HandlerWork, SubscribeOps, WorkOps, Ops, DocOps, FreeOps
<1>2. ASSUME NEW d \in Clients \ {c}
      PROVE  at'[d] = at[d] /\ \A op : ~ Serving(d, op) /\ ~ Serving(d, op)'
  <2>1. at'[d] = at[d]
    BY <1>0, SMTT(30) DEF HandlerWork, AfterReply, TypeOK
  <2>2. busy' = Idle \/ \E op : busy' = <<[client |-> c, op |-> op]>>
    BY <1>0, ZenonT(30) DEF HandlerWork
  <2>3. ASSUME NEW op, NEW p
        PROVE  /\ <<[client |-> c, op |-> p]>> # <<[client |-> d, op |-> op]>>
               /\ << >> # <<[client |-> d, op |-> op]>>
    BY OneServed, ZenonT(30)
  <2>4. ASSUME NEW op PROVE ~ Serving(d, op)
    BY <1>1, <2>3, ZenonT(30) DEF Serving
  <2>5. ASSUME NEW op PROVE ~ Serving(d, op)'
    BY <2>2, <2>3, ZenonT(30) DEF Serving, Idle
  <2> QED
    BY <2>1, <2>4, <2>5, ZenonT(30)
<1>3. \A d \in Clients : \A i \in 1 .. Len(mail) : Pending(d, i)' <=> Pending(d, i)
  BY <1>0, ZenonT(30) DEF Pending
\* While a request of c is served that c waits for, c has no other in the mailbox.
<1>4. ASSUME NEW op \in WorkOps \ SubscribeOps, Serving(c, op)
      PROVE  /\ \/ at[c] \in {"waiting", "started"}
                \/ at[c] = "importing" /\ op \in {"import", "open"}
             /\ \A i \in 1 .. Len(mail) : ~ Pending(c, i)
  BY <1>0, <1>4, ZenonT(30) DEF ClientInv
<1>5. \/ /\ \E op \in SubscribeOps : Serving(c, op)
         /\ at' = at /\ \A o \in WorkOps \ SubscribeOps : ~ Serving(c, o)'
      \/ /\ \A i \in 1 .. Len(mail) : ~ Pending(c, i)
         /\ \A o \in WorkOps \ SubscribeOps :
               Serving(c, o)' => \/ at'[c] \in {"waiting", "started"}
                                 \/ at'[c] = "importing" /\ o = "open" /\ stored'
  <2>1. {"import", "share", "drop"} \subseteq WorkOps \ SubscribeOps
    BY DEF WorkOps, SubscribeOps, Ops, DocOps, FreeOps
  <2>2. CASE Serving(c, "import") /\ busy' = <<[client |-> c, op |-> "open"]>> /\ at' = at /\ stored' = TRUE
    BY <1>4, <2>1, <2>2, ZenonT(30) DEF Serving
  <2>3. ASSUME NEW o \in {"share", "drop"}, Serving(c, o),
               \E q \in {"start", "remove"} : busy' = <<[client |-> c, op |-> q]>>, at' = at
        PROVE  /\ \A i \in 1 .. Len(mail) : ~ Pending(c, i)
               /\ at'[c] \in {"waiting", "started"}
    BY <1>4, <2>1, <2>3
  <2>4. ASSUME NEW op \in WorkOps \ SubscribeOps, Serving(c, op), busy' = Idle
        PROVE  /\ \A i \in 1 .. Len(mail) : ~ Pending(c, i)
               /\ \A o : ~ Serving(c, o)'
    BY <1>4, <2>4 DEF Serving, Idle
  <2>5. CASE /\ \E op \in SubscribeOps : Serving(c, op)
             /\ at' = at /\ busy' \in {Idle, <<[client |-> c, op |-> "follow"]>>}
    BY <2>5, SMTT(30) DEF Serving, Idle, SubscribeOps
  <2> QED
    BY <1>0, <2>2, <2>3, <2>4, <2>5, Zenon DEF HandlerWork, SubscribeOps
<1>6. ClientInv'
  <2> SUFFICES ASSUME NEW d \in Clients
               PROVE  /\ \A i \in 1 .. Len(mail') :
                            Pending(d, i)' => \/ at'[d] \in {"waiting", "started"}
                                              \/ at'[d] = "importing" /\ mail'[i].op = "import"
                      /\ \A i, j \in 1 .. Len(mail') : Pending(d, i)' /\ Pending(d, j)' => i = j
                      /\ \A o \in WorkOps \ SubscribeOps :
                            Serving(d, o)' =>
                                /\ \/ at'[d] \in {"waiting", "started"}
                                   \/ at'[d] = "importing" /\ o \in {"import", "open"}
                                /\ \A i \in 1 .. Len(mail') : ~ Pending(d, i)'
                      /\ Serving(d, "open")' /\ at'[d] = "importing" => stored'
    BY Zenon DEF ClientInv
  <2>1. "open" \in WorkOps \ SubscribeOps
    BY SMTT(30) DEF WorkOps, SubscribeOps, Ops, FreeOps
  <2>2. CASE d # c
    BY <1>0, <1>2, <1>3, <2>2, SMTT(30) DEF ClientInv
  <2>3. CASE d = c
    BY <1>0, <1>3, <1>5, <2>1, <2>3, ZenonT(30) DEF ClientInv
  <2> QED
    BY <2>2, <2>3, ZenonT(30)
<1>7. following' \subseteq subs'
  <2>1. ASSUME NEW op \in StartOps, Serving(c, op) PROVE importers \cap {c} \subseteq subs
    BY <1>0, <2>1 DEF OrderInv
  <2> QED
    BY <1>0, <2>1 DEF HandlerWork
<1>8. OrderInv'
  <2> SUFFICES ASSUME NEW d \in importers' \ subs'
               PROVE  /\ \A q \in StartOps : ~ Serving(d, q)'
                      /\ \/ at'[d] \in {"importing", "subscribing"}
                         \/ \E q \in SubscribeOps : Serving(d, q)'
                         \/ SubscribesFirst(d)'
    BY SMTT(30) DEF OrderInv
  <2>1. d \in importers \ subs /\ d \in Clients
    BY <1>0, ZenonT(30) DEF HandlerWork, TypeOK
  <2>2. SubscribesFirst(d)' <=> SubscribesFirst(d)
    BY <1>0, SMTT(30) DEF SubscribesFirst
  <2>3. CASE d # c
    BY <1>0, <1>2, <2>1, <2>2, <2>3, ZenonT(30) DEF OrderInv
  <2>4. CASE d = c
    <3>1. \A q \in StartOps : ~ Serving(c, q)
      BY <1>0, <2>1, <2>4, SMTT(30) DEF OrderInv
    <3>2. CASE Serving(c, "import") /\ busy' = <<[client |-> c, op |-> "open"]>> /\ at' = at
      <4>1. (\A q \in SubscribeOps : ~ Serving(c, q)) /\ \A q \in StartOps : ~ Serving(c, q)'
        BY <3>2 DEF Serving, SubscribeOps, StartOps
      <4> QED
        BY <1>0, <2>1, <2>2, <2>4, <3>2, <4>1, ZenonT(30) DEF OrderInv
    <3>3. CASE Serving(c, "subscribe") /\ busy' = <<[client |-> c, op |-> "follow"]>>
      BY <2>4, <3>3, SMTT(30) DEF Serving, SubscribeOps, StartOps
    <3>4. ASSUME NEW op \in WorkOps \ SubscribeOps, Serving(c, op), op # "import", busy' = Idle,
                 AfterReply(c),
                 op = "open" /\ stored /\ at[c] = "importing" => at'[c] = "subscribing"
          PROVE  /\ \A q \in StartOps : ~ Serving(c, q)'
                 /\ at'[c] = "subscribing" \/ SubscribesFirst(c)
      <4>1. \A q : ~ Serving(c, q)'
        BY <3>4, ZenonT(30) DEF Serving, Idle
      <4>2. (\A q \in SubscribeOps : ~ Serving(c, q)) /\ at[c] # "subscribing"
        BY <1>4, <3>4, ZenonT(30) DEF Serving
      <4>3. at[c] = "importing" => op = "open" /\ stored
        BY <1>0, <1>4, <3>4, ZenonT(30) DEF ClientInv
      <4> QED
        BY <1>0, <2>1, <2>4, <3>4, <4>1, <4>2, <4>3, ZenonT(30) DEF OrderInv
    <3>5. ~ Serving(c, "share")
      BY <3>1 DEF StartOps
    <3> QED
      BY <1>0, <2>1, <2>2, <2>4, <3>2, <3>3, <3>4, <3>5, SMTT(30) DEF HandlerWork
  <2> QED
    BY <2>3, <2>4
<1> QED
  BY <1>6, <1>7, <1>8 DEF QueueInv

LEMMA QueueStep == TypeOK /\ QueueInv /\ [Next]_vars => QueueInv'
<1> SUFFICES ASSUME TypeOK, QueueInv, [Next]_vars PROVE QueueInv'
  OBVIOUS
<1>1. ASSUME UNCHANGED <<subs, following>>, live' # "up" PROVE QueueInv'
  BY <1>1 DEF QueueInv
<1>2. ASSUME UNCHANGED <<subs, following>>, live' = "up" => ClientInv' /\ OrderInv' PROVE QueueInv'
  BY <1>2 DEF QueueInv
<1>3. ASSUME UNCHANGED <<at, mail, busy, stored, live, subs, importers, following>> PROVE QueueInv'
  <2>1. ClientInv' <=> ClientInv
    BY <1>3, SMTT(30) DEF ClientInv, Pending, Serving
  <2>2. OrderInv' <=> OrderInv
    <3>1. \A c : SubscribesFirst(c)' <=> SubscribesFirst(c)
      BY <1>3, SMTT(30) DEF SubscribesFirst
    <3>2. \A c, op : Serving(c, op)' <=> Serving(c, op)
      BY <1>3, SMTT(30) DEF Serving
    <3> QED
      BY <1>3, <3>1, <3>2, ZenonT(30) DEF OrderInv
  <2> QED
    BY <1>3, <2>1, <2>2, ZenonT(30) DEF QueueInv
<1>4. ASSUME NEW c \in Clients, NEW op \in Ops, Call(c, op) PROVE QueueInv'
  <2>1. UNCHANGED <<live, subs, following>>
    BY <1>4 DEF Call, liveVars
  <2> QED
    BY <1>2, <1>4, <2>1, CallKeeps, ZenonT(30)
<1>5. ASSUME NEW c \in Clients, ImportSubscribes(c) PROVE QueueInv'
  <2>1. UNCHANGED <<live, subs, following>>
    BY <1>5 DEF ImportSubscribes, liveVars, ghostVars
  <2> QED
    BY <1>2, <1>5, <2>1, ImportKeeps
<1>6. CASE Receive
  <2>1. UNCHANGED <<live, subs, following>>
    BY <1>6 DEF Receive, liveVars, ghostVars
  <2> QED
    BY <1>2, <1>6, <2>1, ReceiveKeeps
<1>7. ASSUME NEW c \in Clients, Handler(c) PROVE QueueInv'
  <2>1. ASSUME live # "up" PROVE UNCHANGED <<subs, following>> /\ live' # "up"
    <3>1. Fail(c) \/ SubscribeFails(c) => UNCHANGED <<subs, following>>
      BY Zenon DEF Fail, SubscribeFails, liveVars, ghostVars
    <3>2. CASE doc_import(c) \/ doc_open(c) \/ doc_close(c) \/ doc_remove(c) \/ doc_subscribe(c)
      BY <2>1, <3>1, <3>2, StepLive, Zenon DEF doc_import, doc_open, doc_close, doc_remove, doc_subscribe, SyncUp
    <3>3. CASE doc_use(c) \/ doc_share(c)
      BY <2>1, <3>1, <3>3, StepLive DEF doc_use, doc_share, liveVars, ghostVars
    <3>4. CASE doc_leave(c) \/ doc_leave_gossip(c) \/ doc_follow(c) \/ doc_drop(c)
      BY <2>1, <3>1, <3>4, StepLive, Zenon DEF doc_leave, doc_leave_gossip, doc_follow, doc_drop
    <3>5. CASE doc_start_sync(c, "start") \/ doc_start_sync(c, "start_scoped")
      BY <2>1, <3>1, <3>5, StepLive, Zenon DEF doc_start_sync
    <3> QED
      BY <1>7, <3>2, <3>3, <3>4, <3>5, SMTT(30) DEF Handler
  <2> QED
    BY <1>1, <1>7, <2>1, HandlerKeeps
<1>8. ASSUME NEW t \in Tasks, GossipStep(t) PROVE QueueInv'
  BY <1>3, <1>8 DEF GossipStep, clientVars, rpcVars, syncVars, liveVars, ghostVars
<1>9. CASE Shutdown
  BY <1>9 DEF Shutdown, KillSubscribers, QueueInv
<1>10. CASE ShutdownEnds
  BY <1>1, <1>10 DEF ShutdownEnds, ghostVars
<1>11. CASE UNCHANGED vars
  BY <1>3, <1>11, ZenonT(30) DEF vars
<1> QED
  BY <1>4, <1>5, <1>6, <1>7, <1>8, <1>9, <1>10, <1>11, ZenonT(30) DEF Next

LEMMA QueueStart == Init => QueueInv
  BY DEF Init, QueueInv, ClientInv, OrderInv, Pending, Serving, Idle

\* import_and_subscribe misses nothing: however many clients share the RpcActor and
\* whatever they call, an importer's subscription is in place when the live actor
\* starts its sync, although nobody waits for the reply to it.
THEOREM ImportSubscribesInTime == Spec => []ImportMissesNothing
<1>1. QueueInv => ImportMissesNothing
  BY DEF QueueInv, ImportMissesNothing
<1> QED
  BY <1>1, QueueStart, QueueStep, DocsTypeCorrect, PTL DEF Spec
=============================================================================
