---------------------------- MODULE EventQueue -----------------------------
(***************************************************************************)
(* The two actors and the two bounded channels between them.  The sync     *)
(* actor (actor.rs) takes actions from its queue one at a time and, for    *)
(* each entry an action inserts, waits until the event is in the channel of*)
(* every subscriber.  The live actor (engine/live.rs) subscribes to the    *)
(* replicas it syncs; it reads that channel and its inbox in one loop, and *)
(* while it handles a message of the inbox or a finished sync it waits for *)
(* the sync actor's reply.                                                 *)
(*                                                                         *)
(*   queue    actions waiting for the sync actor: a number is an action    *)
(*            that inserts that many entries, Call one of the live actor   *)
(*   pending  events the sync actor has still to send for its action       *)
(*   events   events in the channel to the live actor                      *)
(*   live     what the live actor does: "select", "send" (its call does not*)
(*            fit the queue yet) or "reply" (it waits for the answer)      *)
(*                                                                         *)
(* Bound: Window, the entries that may be between a client and the live    *)
(* actor at a time.                                                        *)
(***************************************************************************)
EXTENDS Integers, SequencesExt

CONSTANTS
    ActionCap,   \* ACTION_CAP (1024)
    EventCap,    \* capacity of replica_events (1024)
    MaxBatch,    \* the most entries one action inserts
    Window

VARIABLES queue, pending, events, live

vars == <<queue, pending, events, live>>

Call == 0

TypeOK ==
    /\ queue \in Seq(0 .. MaxBatch) /\ Len(queue) <= ActionCap
    /\ pending \in 0 .. MaxBatch
    /\ events \in 0 .. EventCap
    /\ live \in {"select", "send", "reply"}

Init == queue = << >> /\ pending = 0 /\ events = 0 /\ live = "select"

Outstanding == FoldLeft(LAMBDA n, a : n + a, pending + events, queue)

\* A client's insert, or a round of an exchange with n new entries.
Request(n) ==
    /\ Len(queue) < ActionCap
    /\ Outstanding + n <= Window
    /\ queue' = Append(queue, n)
    /\ UNCHANGED <<pending, events, live>>

\* The actor loop takes the next action; the live actor's call is answered.
TakeAction ==
    /\ pending = 0
    /\ queue # << >>
    /\ queue' = Tail(queue)
    /\ pending' = Head(queue)
    /\ live' = IF Head(queue) = Call THEN "select" ELSE live
    /\ UNCHANGED events

\* Subscribers::send for one inserted entry.
SendEvent ==
    /\ pending > 0
    /\ events < EventCap
    /\ pending' = pending - 1
    /\ events' = events + 1
    /\ UNCHANGED <<queue, live>>

\* on_replica_event.
TakeEvent ==
    /\ live = "select"
    /\ events > 0
    /\ events' = events - 1
    /\ UNCHANGED <<queue, pending, live>>

\* A handler that asks the sync actor: on_sync_report, start_sync, leave, or
\* on_sync_finished.
StartCall ==
    /\ live = "select"
    /\ live' = "send"
    /\ UNCHANGED <<queue, pending, events>>

SendCall ==
    /\ live = "send"
    /\ Len(queue) < ActionCap
    /\ queue' = Append(queue, Call)
    /\ live' = "reply"
    /\ UNCHANGED <<pending, events>>

Next ==
    \/ \E n \in 1 .. MaxBatch : Request(n)
    \/ TakeAction
    \/ SendEvent
    \/ TakeEvent
    \/ StartCall
    \/ SendCall

Spec == Init /\ [][Next]_vars

\* Both actors run; the live actor gets to its events between messages of the
\* inbox, and its call gets a place in the queue among those of the clients.
Fairness ==
    /\ WF_vars(TakeAction)
    /\ WF_vars(SendEvent)
    /\ SF_vars(TakeEvent)
    /\ SF_vars(SendCall)

FairSpec == Spec /\ Fairness

-----------------------------------------------------------------------------
(* Properties                                                              *)

\* "you must ensure that the corresponding Receiver is received from in a loop.
\* If not receiving, local and remote inserts will hang" (sync.rs:343): an insert
\* that waits for room in the live actor's channel gets it.
InsertsDoNotHang == (pending > 0) ~> (pending = 0)
=============================================================================
