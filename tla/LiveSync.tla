------------------------------ MODULE LiveSync ------------------------------
(***************************************************************************)
(* One namespace and one pair of nodes: the per-pair sync state of         *)
(* engine/state.rs, the live actors that drive it (engine/live.rs), and the*)
(* dial and accept tasks (net.rs, net/codec.rs) that run the exchanges.    *)
(*                                                                         *)
(* A live actor handles one message at a time, and only it touches its     *)
(* PeerState; its select is biased, so a finished task is looked at only   *)
(* when no request waits in the inbox, and a finished accept only when no  *)
(* finished dial waits.  The tasks run beside it.                          *)
(*                                                                         *)
(*   syncing   the namespace is in NamespaceStates                         *)
(*   peer      PeerState for the other node: SyncState (the reason of an   *)
(*             outgoing exchange, or "Accept") and resync_requested        *)
(*   ex        the exchanges: the dialer's task (a), the acceptor's task   *)
(*             (b), its AcceptSyncRequest in the inbox (asked), the heads  *)
(*             both sides' snapshots hold (da, db), and what the stream to *)
(*             the dialer ends with (back): an Abort frame, by its reason, *)
(*             "fin" when the acceptor just closed it, "dropped" when its  *)
(*             future was dropped, "lost" when the connection broke        *)
(*   head      timestamp of the node's own latest insert                   *)
(*   seen      latest head of the other node it holds                      *)
(*   reports   sync reports under way to a node                            *)
(* Bounds: MaxTasks exchanges at a time, MaxHead inserts by each of        *)
(* the Writers, MaxLeaves leaves, MaxFaults failures (errors, denials,     *)
(* timeouts).                                                              *)
(* History: wanted, the latest head a queued resync is to fetch; and, in an*)
(* exchange, done: the entries went over.                                  *)
(***************************************************************************)
EXTENDS Integers, FiniteSets

CONSTANTS Writers, MaxTasks, MaxHead, MaxLeaves, MaxFaults

\* Endpoint ids, compared as bytes.
Nodes == {1, 2}

ASSUME LiveAssumption ==
    /\ Writers \subseteq Nodes
    /\ MaxTasks \in Nat \ {0}
    /\ {MaxHead, MaxLeaves, MaxFaults} \subseteq Nat

VARIABLES syncing, peer, ex, head, seen, reports, leaves, faults, wanted

vars == <<syncing, peer, ex, head, seen, reports, leaves, faults, wanted>>

env == <<head, seen, reports, leaves, wanted>>

Other(n) == 3 - n

SyncReason == {"DirectJoin", "NewNeighbor", "SyncReport", "Resync"}

SyncState == SyncReason \cup {"Idle", "Accept"}

PeerState == [state : SyncState, resync : BOOLEAN]

DefaultPeer == [state |-> "Idle", resync |-> FALSE]

ConnectRes == {"Ok", "AlreadySyncing", "Err"}

AcceptRes == {"Ok", "Aborted", "Err"}

DialTask == {"dialing", "waiting", "running", "closing", "joined"} \cup ConnectRes

AcceptTask ==
    {"none", "asking", "allowed", "refuseSyncing", "refuseNotFound", "running",
     "closing", "joined"} \cup AcceptRes

AbortReason == {"AlreadySyncing", "NotFound", "InternalServerError"}

StreamEnd == {"open", "fin", "dropped", "lost"} \cup AbortReason

Free == [dialer |-> 0, reason |-> "DirectJoin", a |-> "joined", b |-> "none",
         asked |-> FALSE, da |-> 0, db |-> 0, back |-> "open", done |-> FALSE]

Tasks == 1 .. MaxTasks

TypeOK ==
    /\ syncing \in [Nodes -> BOOLEAN]
    /\ peer \in [Nodes -> PeerState]
    /\ ex \in [Tasks -> [dialer : Nodes \cup {0}, reason : SyncReason, a : DialTask,
                         b : AcceptTask, asked : BOOLEAN, da : 0 .. MaxHead,
                         db : 0 .. MaxHead, back : StreamEnd, done : BOOLEAN]]
    /\ head \in [Nodes -> 0 .. MaxHead]
    /\ seen \in [Nodes -> 0 .. MaxHead]
    /\ reports \in [Nodes -> SUBSET (1 .. MaxHead)]
    /\ leaves \in 0 .. MaxLeaves
    /\ faults \in 0 .. MaxFaults
    /\ wanted \in [Nodes -> 0 .. MaxHead]

Init ==
    /\ syncing = [n \in Nodes |-> TRUE]
    /\ peer = [n \in Nodes |-> DefaultPeer]
    /\ ex = [i \in Tasks |-> Free]
    /\ head = [n \in Nodes |-> 0]
    /\ seen = [n \in Nodes |-> 0]
    /\ reports = [n \in Nodes |-> {}]
    /\ leaves = 0
    /\ faults = 0
    /\ wanted = [n \in Nodes |-> 0]

Larger(x, y) == IF x > y THEN x ELSE y

-----------------------------------------------------------------------------
(* engine/state.rs                                                         *)

set_sync_running(origin) == [state |-> origin, resync |-> FALSE]

start_connect(p, reason) ==
    IF p.state = "Idle"
    THEN set_sync_running(reason)
    ELSE [p EXCEPT !.resync = @ \/ reason = "SyncReport"]

\* Variant: a refused dial is left to the exchange it was refused for.
abort_connect_left(p, reason) == p

abort_connect(p, reason) ==
    IF p.state = reason THEN [p EXCEPT !.state = "Idle"] ELSE p

expected_sync_direction(n) == IF n > Other(n) THEN "Accept" ELSE "Connect"

\* Variant: no tie-break, a dialing node accepts in any case.
Allows_both(n, p) == p.state # "Accept"

Allows(n, p) ==
    \/ p.state = "Idle"
    \/ p.state \in SyncReason /\ expected_sync_direction(n) = "Accept"

accept_request(n, p) == IF Allows(n, p) THEN set_sync_running("Accept") ELSE p

\* A finish of an exchange of another origin is logged and clears the state too.
finish(p, origin) == [p EXCEPT !.state = "Idle"]

-----------------------------------------------------------------------------
(* The live actor of node n                                                *)

FreeTasks == {i \in Tasks : ex[i].dialer = 0}

\* An exchange both tasks of which are over is forgotten.
Forget(e) == IF e.a = "joined" /\ e.b \in {"none", "joined"} THEN Free ELSE e

\* sync_with_peer, with the PeerState and the exchanges the handler left so far:
\* spawns a dial if the pair is idle.  (It gets the first number that is free;
\* the numbers mean nothing.)
sync_with_peer(n, reason, p, exs) ==
    /\ peer' = [peer EXCEPT ![n] = start_connect(p, reason)]
    /\ IF p.state = "Idle"
       THEN \E i \in FreeTasks :
               /\ \A j \in FreeTasks : i <= j
               /\ ex' = [exs EXCEPT ![i] =
                           [Free EXCEPT !.dialer = n, !.reason = reason, !.a = "dialing"]]
       ELSE ex' = exs

\* Bound: a trigger from outside leaves a number over for a resync.
Room == Cardinality(FreeTasks) > 1

\* join_peers: the peer is dialed if it is among the peers to join.
join_peers(n, named) ==
    IF named THEN sync_with_peer(n, "DirectJoin", peer[n], ex) ELSE UNCHANGED <<peer, ex>>

\* start_sync: the namespace joins the sync set, and the peer is dialed if the
\* caller names it or the store remembers it.
start_sync(n, named) ==
    /\ Room
    /\ syncing' = [syncing EXCEPT ![n] = TRUE]
    /\ join_peers(n, named)
    /\ UNCHANGED <<env, faults>>

leave(n) ==
    /\ syncing[n]
    /\ leaves < MaxLeaves
    /\ leaves' = leaves + 1
    /\ syncing' = [syncing EXCEPT ![n] = FALSE]
    /\ peer' = [peer EXCEPT ![n] = DefaultPeer]
    /\ UNCHANGED <<ex, head, seen, reports, faults, wanted>>

NeighborUp(n) ==
    /\ Room
    /\ syncing[n]
    /\ sync_with_peer(n, "NewNeighbor", peer[n], ex)
    /\ UNCHANGED <<syncing, env, faults>>

\* on_sync_report: the report is acted on if it names news.
on_sync_report(n, h) ==
    LET news == syncing[n] /\ h > seen[n]
    IN  /\ Room
        /\ h \in reports[n]
        /\ reports' = [reports EXCEPT ![n] = @ \ {h}]
        /\ IF news THEN sync_with_peer(n, "SyncReport", peer[n], ex) ELSE UNCHANGED <<peer, ex>>
        /\ wanted' = [wanted EXCEPT ![n] =
                        IF news /\ peer[n].state # "Idle" THEN Larger(@, h) ELSE @]
        /\ UNCHANGED <<syncing, head, seen, leaves, faults>>

\* on_replica_event, LocalInsert: the new head is announced to the neighbor.
LocalInsert(n) ==
    /\ n \in Writers
    /\ head[n] < MaxHead
    /\ head' = [head EXCEPT ![n] = @ + 1]
    /\ reports' = [reports EXCEPT ![Other(n)] = IF syncing[n] THEN @ \cup {head'[n]} ELSE @]
    /\ UNCHANGED <<syncing, peer, ex, seen, leaves, faults, wanted>>

\* AcceptSyncRequest: decided when the actor gets to it, whether or not the task
\* that asked still waits for the answer.
AcceptSyncRequest(i) ==
    LET n == Other(ex[i].dialer)
        answer == IF ~ syncing[n] THEN "refuseNotFound"
                  ELSE IF Allows(n, peer[n]) THEN "allowed" ELSE "refuseSyncing"
    IN  /\ ex[i].asked
        /\ peer' = [peer EXCEPT ![n] = IF syncing[n] THEN accept_request(n, @) ELSE @]
        /\ ex' = [ex EXCEPT ![i].asked = FALSE,
                            ![i].b = IF @ = "asking" THEN answer ELSE @]
        /\ UNCHANGED <<syncing, env, faults>>

InboxEmpty(n) == \A i \in Tasks : ~ (ex[i].asked /\ ex[i].dialer = Other(n))

\* on_sync_finished: the pair is released, and dialed again if a resync is queued.
on_sync_finished(n, origin, exs) ==
    IF syncing[n] /\ peer[n].state # "Idle"
    THEN IF peer[n].resync
         THEN sync_with_peer(n, "Resync", finish(peer[n], origin), exs)
         ELSE peer' = [peer EXCEPT ![n] = finish(@, origin)] /\ ex' = exs
    ELSE ex' = exs /\ UNCHANGED peer

on_sync_via_connect_finished(i) ==
    LET n == ex[i].dialer
        exs == [ex EXCEPT ![i] = Forget([@ EXCEPT !.a = "joined"])]
    IN  /\ ex[i].a \in ConnectRes
        /\ InboxEmpty(n)
        /\ IF ex[i].a = "AlreadySyncing"
           THEN /\ peer' = [peer EXCEPT ![n] = IF syncing[n] THEN abort_connect(@, ex[i].reason) ELSE @]
                /\ ex' = exs
           ELSE on_sync_finished(n, ex[i].reason, exs)
        /\ UNCHANGED <<syncing, env, faults>>

DialReady(n) == \E i \in Tasks : ex[i].dialer = n /\ ex[i].a \in ConnectRes

\* Variant: a select that is not biased; the result of a timed out accept may be
\* handled before its request.
on_sync_via_accept_finished_unbiased(i) ==
    LET n == Other(ex[i].dialer)
        exs == [ex EXCEPT ![i] = Forget([@ EXCEPT !.b = "joined"])]
    IN  /\ ex[i].b \in AcceptRes
        /\ IF ex[i].b = "Aborted"
           THEN ex' = exs /\ UNCHANGED peer
           ELSE on_sync_finished(n, "Accept", exs)
        /\ UNCHANGED <<syncing, env, faults>>

on_sync_via_accept_finished(i) ==
    LET n == Other(ex[i].dialer)
        exs == [ex EXCEPT ![i] = Forget([@ EXCEPT !.b = "joined"])]
    IN  /\ ex[i].b \in AcceptRes
        /\ InboxEmpty(n)
        /\ ~ DialReady(n)
        /\ IF ex[i].b = "Aborted"
           THEN ex' = exs /\ UNCHANGED peer
           ELSE on_sync_finished(n, "Accept", exs)
        /\ UNCHANGED <<syncing, env, faults>>

-----------------------------------------------------------------------------
(* The tasks of exchange i                                                 *)

TaskStep(i, e) ==
    /\ ex' = [ex EXCEPT ![i] = e]
    /\ UNCHANGED <<syncing, peer, env>>

\* connect_and_sync up to the Init message: the snapshot is taken before it is
\* sent, and taking it fails when the replica does not sync any more.  The other
\* node's accept task reads the Init and asks its actor.
SendInit(i) ==
    LET n == ex[i].dialer
    IN  /\ ex[i].a = "dialing"
        /\ TaskStep(i, IF syncing[n]
                       THEN [ex[i] EXCEPT !.a = "waiting", !.da = head[n],
                                          !.b = "asking", !.asked = TRUE]
                       ELSE [ex[i] EXCEPT !.a = "Err"])
        /\ UNCHANGED faults

\* Variant: an error only closes the stream, as a finished exchange does.
Failed_unsaid(e) == [e EXCEPT !.b = "Err", !.back = "fin"]

\* BobState::run after an error of the rounds that is not a refusal: it puts a
\* terminal frame into the stream.
Failed(e) == [e EXCEPT !.b = "Err", !.back = "InternalServerError"]

\* BobState: the request is allowed; the snapshot is taken, or an error ends the
\* exchange when the replica does not sync any more.
StartServing(i) ==
    LET n == Other(ex[i].dialer)
    IN  /\ ex[i].b = "allowed"
        /\ TaskStep(i, IF syncing[n]
                       THEN [ex[i] EXCEPT !.b = "running", !.db = head[n],
                                          !.a = IF @ = "waiting" THEN "running" ELSE @]
                       ELSE Failed(ex[i]))
        /\ UNCHANGED faults

\* BobState: the request is refused with an Abort frame that names the reason.
SendAbort(i) ==
    /\ \/ /\ ex[i].b = "refuseSyncing"
          /\ TaskStep(i, [ex[i] EXCEPT !.b = "Aborted", !.back = "AlreadySyncing"])
       \/ /\ ex[i].b = "refuseNotFound"
          /\ TaskStep(i, [ex[i] EXCEPT !.b = "Err", !.back = "NotFound"])
    /\ UNCHANGED faults

\* The rounds of the exchange, up to the last message: each side has what the
\* other's snapshot held, and the side that has no reply to it closes its stream.
Exchange(i) ==
    LET e == ex[i]
        n == e.dialer
        m == Other(n)
    IN  /\ e.a = "running" /\ e.b = "running" /\ ~ e.done
        /\ syncing[n] /\ syncing[m]
        /\ seen' = [seen EXCEPT ![n] = Larger(@, e.db), ![m] = Larger(@, e.da)]
        /\ \/ ex' = [ex EXCEPT ![i] = [e EXCEPT !.a = "closing", !.done = TRUE]]
           \/ ex' = [ex EXCEPT ![i] = [e EXCEPT !.b = "closing", !.back = "fin", !.done = TRUE]]
        /\ UNCHANGED <<syncing, peer, head, reports, leaves, faults, wanted>>

\* What a side makes of a stream the other side's task was dropped with: quinn
\* finishes a dropped stream and closes a dropped connection, whichever the peer
\* sees first.
Reads(end) == IF end = "dropped" THEN {"fin", "lost"} ELSE {end}

\* run_alice reads the end of its stream: a closed one ends the loop with success,
\* an Abort frame or a broken connection with an error.  The dialer then closes
\* its own; a teardown that fails is a fault (DialFails).
DialReads(i) ==
    /\ ex[i].a \in {"waiting", "running"}
    /\ ex[i].back # "open"
    /\ \E end \in Reads(ex[i].back) :
          TaskStep(i, [ex[i] EXCEPT !.a = IF end = "fin" THEN "Ok"
                                          ELSE IF end = "AlreadySyncing" THEN end
                                          ELSE "Err"])
    /\ UNCHANGED faults

\* The dialer's stream to the acceptor is at its end; that of a dial that failed
\* was finished too, or dropped, or it broke.
DialClosed(e) == e.a \notin {"dialing", "waiting", "running"}

DialBroke(e) == e.a \in {"Err", "joined"}

\* run_rounds reads the end of its stream, which it takes for the end of the
\* exchange.
AcceptReads(i) ==
    /\ ex[i].b = "running"
    /\ \/ DialClosed(ex[i]) /\ TaskStep(i, [ex[i] EXCEPT !.b = "Ok", !.back = "fin"])
       \/ DialBroke(ex[i]) /\ TaskStep(i, [ex[i] EXCEPT !.b = "Err", !.back = "lost"])
    /\ UNCHANGED faults

\* The side that ended the rounds waits for the end of the other side's stream,
\* and fails if anything else is in it.
CloseDial(i) ==
    /\ ex[i].a = "closing"
    /\ ex[i].back # "open"
    /\ \E end \in Reads(ex[i].back) :
          TaskStep(i, [ex[i] EXCEPT !.a = IF end = "fin" THEN "Ok" ELSE "Err"])
    /\ UNCHANGED faults

CloseAccept(i) ==
    /\ ex[i].b = "closing"
    /\ \/ DialClosed(ex[i]) /\ TaskStep(i, [ex[i] EXCEPT !.b = "Ok"])
       \/ DialBroke(ex[i]) /\ TaskStep(i, [ex[i] EXCEPT !.b = "Err"])
    /\ UNCHANGED faults

\* A round after leave fails: session_replica finds the replica not syncing.
DialSessionLost(i) ==
    /\ ex[i].a = "running" /\ ~ ex[i].done
    /\ ~ syncing[ex[i].dialer]
    /\ TaskStep(i, [ex[i] EXCEPT !.a = "Err"])
    /\ UNCHANGED faults

AcceptSessionLost(i) ==
    /\ ex[i].b = "running" /\ ~ ex[i].done
    /\ ~ syncing[Other(ex[i].dialer)]
    /\ TaskStep(i, Failed(ex[i]))
    /\ UNCHANGED faults

\* A dial fails: the access provider denies it, the connection fails or breaks,
\* closing it fails (which also hides a remote abort), or SYNC_SESSION_TIMEOUT
\* drops it.
DialFails(i) ==
    /\ faults < MaxFaults
    /\ ex[i].a \in {"dialing", "waiting", "running", "closing", "AlreadySyncing"}
    /\ faults' = faults + 1
    /\ TaskStep(i, [ex[i] EXCEPT !.a = "Err"])

\* The connection breaks, or the refusal cannot be written: the terminal frame
\* cannot be either.
AcceptBreaks(i) ==
    /\ faults < MaxFaults
    /\ ex[i].b \in {"asking", "allowed", "refuseSyncing", "refuseNotFound", "running", "closing"}
    /\ faults' = faults + 1
    /\ TaskStep(i, [ex[i] EXCEPT !.b = "Err", !.back = "lost"])

\* SYNC_SESSION_TIMEOUT, with the namespace named, even before the decision is
\* there or while a refusal is torn down: the task is dropped, without a frame.
AcceptTimesOut(i) ==
    /\ faults < MaxFaults
    /\ ex[i].b \in {"asking", "allowed", "refuseSyncing", "refuseNotFound", "running",
                    "closing", "Aborted"}
    /\ faults' = faults + 1
    /\ TaskStep(i, [ex[i] EXCEPT !.b = "Err",
                                 !.back = IF @ \in AbortReason THEN @ ELSE "dropped"])

\* The access provider denies an allowed request: refused as not found.
AcceptDenied(i) ==
    /\ faults < MaxFaults
    /\ ex[i].b = "allowed"
    /\ faults' = faults + 1
    /\ TaskStep(i, [ex[i] EXCEPT !.b = "refuseNotFound"])

-----------------------------------------------------------------------------

TaskEnds(i) ==
    \/ SendInit(i) \/ StartServing(i) \/ SendAbort(i) \/ Exchange(i)
    \/ DialReads(i) \/ AcceptReads(i)
    \/ CloseDial(i) \/ CloseAccept(i)
    \/ DialSessionLost(i) \/ AcceptSessionLost(i)

Next ==
    \/ \E n \in Nodes :
          \/ \E named \in BOOLEAN : start_sync(n, named)
          \/ leave(n)
          \/ NeighborUp(n)
          \/ \E h \in reports[n] : on_sync_report(n, h)
          \/ LocalInsert(n)
    \/ \E i \in Tasks :
          \/ AcceptSyncRequest(i)
          \/ on_sync_via_connect_finished(i)
          \/ on_sync_via_accept_finished(i)
          \/ TaskEnds(i)
          \/ DialFails(i) \/ AcceptBreaks(i) \/ AcceptTimesOut(i) \/ AcceptDenied(i)

Spec == Init /\ [][Next]_vars

\* The tasks run, and the actor takes the requests in its inbox; it looks at
\* finished tasks whenever the inbox is empty, and the inbox gets empty again and
\* again.
Fairness ==
    \A i \in Tasks :
        /\ WF_vars(AcceptSyncRequest(i))
        /\ WF_vars(TaskEnds(i))
        /\ SF_vars(on_sync_via_connect_finished(i))
        /\ SF_vars(on_sync_via_accept_finished(i))

FairSpec == Spec /\ Fairness

-----------------------------------------------------------------------------
(* Properties                                                              *)

\* A pair that is marked running has a task that will end it: the dial of that
\* reason, or an accept that was allowed, still to be joined.  "otherwise this
\* (namespace, peer) pair stays `Running` forever and every later sync trigger
\* for it is silently dropped" (live.rs:581).
RunningHasATask ==
    \A n \in Nodes :
        /\ peer[n].state \in SyncReason =>
              \E i \in Tasks : /\ ex[i].dialer = n
                               /\ ex[i].reason = peer[n].state
                               /\ ex[i].a # "joined"
        /\ peer[n].state = "Accept" =>
              \E i \in Tasks : /\ ex[i].dialer = Other(n)
                               /\ ex[i].b \in {"allowed", "refuseNotFound", "running",
                                               "closing", "Ok", "Err"}

\* A dial that reports success went through the exchange, wherever the acceptor
\* failed after the Init: "an error that only closes it reads to the initiator as
\* an exchange that carried nothing", so the error puts a terminal frame into the
\* stream before the end (codec.rs:257).  An acceptor that was dropped by its
\* timeout (net.rs:224) puts none and is left out.
OkDialExchanged ==
    \A i \in Tasks : ex[i].a = "Ok" => ex[i].done \/ ex[i].back = "dropped"

\* "An exchange that ends badly says so with a terminal frame" (codec.rs:237): a
\* dial that reports success went through the exchange.
BadEndIsTold == \A i \in Tasks : ex[i].a = "Ok" => ex[i].done

\* With both nodes in the sync set and no failures, two exchanges of the pair
\* never transfer at the same time, whoever dials when: the tie-break of mutual
\* dials leaves one.
OneExchangeAtATime ==
    leaves = 0 /\ faults = 0 =>
        Cardinality({i \in Tasks : ex[i].a = "running" /\ ex[i].b = "running"}) <= 1

\* Every running pair becomes idle again, whatever is refused, fails or times out
\* on the way: on_sync_finished and abort_connect release what start_connect and
\* accept_request took.
PairIsReleased == \A n \in Nodes : peer[n].state # "Idle" ~> peer[n].state = "Idle"

\* "never run two syncs at the same time" (state.rs:221): a node does not dial
\* the peer while an earlier dial of its own to that peer still runs.
OneDialAtATime ==
    \A n \in Nodes :
        Cardinality({i \in Tasks : ex[i].dialer = n /\ ex[i].a # "joined"}) <= 1

\* "We received a sync report while a sync was running, so run again afterwars"
\* (state.rs:23): news reported during an exchange is fetched later on.
ResyncFetchesNews ==
    \A n \in Nodes : (wanted[n] > seen[n]) ~> (wanted[n] <= seen[n])
=============================================================================
