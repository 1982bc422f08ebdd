--------------------------- MODULE LiveSyncProofs ---------------------------
(***************************************************************************)
(* Proofs about LiveSync, for every bound on the exchanges, the inserts,   *)
(* the leaves and the failures.                                            *)
(*                                                                         *)
(* ExchangeOK is what holds of one exchange on its own.  That a running    *)
(* pair has a task that ends it is inductive with it: what idles the pair  *)
(* and what ends its task are the same step.  That one exchange runs at a  *)
(* time rests on the smaller node alone: it dials and allows only when it  *)
(* is idle, so as long as nobody leaves and nothing fails at most one      *)
(* exchange holds its slot (SoleInv), and an exchange that transfers holds *)
(* it.                                                                     *)
(***************************************************************************)
EXTENDS LiveSync, FiniteSetTheorems, TLAPS

Exchanges == [dialer : Nodes \cup {0}, reason : SyncReason, a : DialTask,
              b : AcceptTask, asked : BOOLEAN, da : 0 .. MaxHead,
              db : 0 .. MaxHead, back : StreamEnd, done : BOOLEAN]

\* The stages of an accept that was allowed, or failed, and is not joined yet.
Engaged == {"allowed", "refuseNotFound", "running", "closing", "Ok", "Err"}

\* What the acceptor's stream says: it ends like that of a finished exchange only
\* if the rounds are over or the dialer does not read it any more, and only a task
\* that is gone was dropped with it.
WireOK(e) ==
    /\ e.a \in {"closing", "Ok"} => e.done \/ e.back = "dropped"
    /\ e.back = "fin" /\ e.a \in {"waiting", "running"} => e.done
    /\ e.back = "dropped" => e.b \in {"Err", "joined"}

ExchangeOK(e) ==
    /\ e.dialer = 0 => e = Free
    /\ e.a = "dialing" => e.b = "none" /\ ~ e.asked /\ e.back = "open"
    /\ e.asked => e.dialer # 0 /\ e.b \in {"asking", "Err"}
    /\ WireOK(e)

TaskInv ==
    /\ \A i \in Tasks : ExchangeOK(ex[i])
    /\ \A n \in Nodes : ~ syncing[n] => peer[n].state = "Idle"

\* The exchange has the slot of node 1, the smaller of the two.
Holds(e) == \/ e.dialer = 1 /\ e.a # "joined"
            \/ e.dialer = 2 /\ e.b \in Engaged

SoleInv ==
    leaves = 0 /\ faults = 0 =>
        /\ \A n \in Nodes : syncing[n]
        /\ \A i \in Tasks : ex[i].asked => ex[i].b = "asking"
        /\ \A i \in Tasks : Holds(ex[i]) =>
              peer[1].state = IF ex[i].dialer = 1 THEN ex[i].reason ELSE "Accept"
        /\ \A i, j \in Tasks : Holds(ex[i]) /\ Holds(ex[j]) => i = j

LiveInv == TypeOK /\ TaskInv /\ RunningHasATask /\ SoleInv

-----------------------------------------------------------------------------
(* One exchange                                                            *)

LEMMA FreeExchange == Free \in Exchanges /\ ExchangeOK(Free) /\ ~ Holds(Free)
  BY LiveAssumption
     DEF Free, Exchanges, ExchangeOK, WireOK, Holds, Engaged, Nodes, SyncReason, DialTask,
         AcceptTask, StreamEnd, ConnectRes, AcceptRes

\* The exchange a dial of node n starts.
NewDial(n, reason) == [Free EXCEPT !.dialer = n, !.reason = reason, !.a = "dialing"]

LEMMA NewDialForm ==
    ASSUME NEW n \in Nodes, NEW reason \in SyncReason
    PROVE  /\ NewDial(n, reason) \in Exchanges
           /\ NewDial(n, reason).dialer = n
           /\ NewDial(n, reason).reason = reason
           /\ NewDial(n, reason).a = "dialing"
           /\ NewDial(n, reason).b = "none"
           /\ ~ NewDial(n, reason).asked
           /\ ExchangeOK(NewDial(n, reason))
<1>1. Free \in Exchanges /\ Free.b = "none" /\ ~ Free.asked /\ Free.back = "open"
  BY FreeExchange DEF Free
<1>2. /\ NewDial(n, reason) \in Exchanges
      /\ NewDial(n, reason).dialer = n
      /\ NewDial(n, reason).reason = reason
      /\ NewDial(n, reason).a = "dialing"
      /\ NewDial(n, reason).b = Free.b
      /\ NewDial(n, reason).asked = Free.asked
      /\ NewDial(n, reason).back = Free.back
  BY <1>1, Zenon DEF NewDial, Exchanges, DialTask
<1>3. n # 0
  BY DEF Nodes
<1> QED
  BY <1>1, <1>2, <1>3 DEF ExchangeOK, WireOK

\* What a step of a task may make of its exchange.
TaskMove(e, f) ==
    /\ f \in Exchanges
    /\ ExchangeOK(f)
    /\ e.dialer # 0
    /\ f.dialer = e.dialer
    /\ f.reason = e.reason
    /\ f.a = "joined" <=> e.a = "joined"
    /\ e.b \in Engaged => f.b \in Engaged

\* And what it may make of it when nothing fails.
SoundMove(e, f) ==
    /\ f.b \in Engaged => e.b \in Engaged
    /\ f.asked => f.b = "asking" \/ (e.asked /\ f.b = e.b)

LEMMA NotFree ==
    ASSUME NEW e \in Exchanges, ExchangeOK(e), e.a # "joined" \/ e.b # "none"
    PROVE  e.dialer # 0 /\ e.dialer \in Nodes
  BY DEF ExchangeOK, Free, Exchanges

LEMMA TypedExchanges ==
    ASSUME TypeOK, TaskInv, NEW i \in Tasks
    PROVE  ex[i] \in Exchanges /\ ExchangeOK(ex[i])
  BY DEF TypeOK, TaskInv, Exchanges

\* The step changes one exchange, as a step of one of its tasks may.
Moves(i) ==
    /\ \E f \in Exchanges :
          /\ ex' = [ex EXCEPT ![i] = f]
          /\ TaskMove(ex[i], f)
          /\ faults' = faults /\ (\A n \in Nodes : syncing[n]) => SoundMove(ex[i], f)
    /\ faults' \in {faults, faults + 1}
    /\ UNCHANGED <<syncing, peer, head, reports, leaves, wanted>>
    /\ seen' \in [Nodes -> 0 .. MaxHead]

LEMMA MovesByTaskStep ==
    ASSUME TypeOK, NEW i \in Tasks, NEW f, TaskStep(i, f), TaskMove(ex[i], f),
           \/ faults' = faults /\ ((\A n \in Nodes : syncing[n]) => SoundMove(ex[i], f))
           \/ faults' = faults + 1
    PROVE  Moves(i)
<1>1. faults' \in {faults, faults + 1} /\ f \in Exchanges /\ ex' = [ex EXCEPT ![i] = f]
  BY DEF TaskStep, TaskMove
<1>2. UNCHANGED <<syncing, peer, head, reports, leaves, wanted>> /\ seen' \in [Nodes -> 0 .. MaxHead]
  BY DEF TypeOK, TaskStep, env
<1>3. faults' = faults /\ (\A n \in Nodes : syncing[n]) => SoundMove(ex[i], f)
  <2>1. faults \in Int
    BY LiveAssumption DEF TypeOK
  <2> QED
    BY <2>1
<1> QED
  BY <1>1, <1>2, <1>3, Zenon DEF Moves


\* The dialer's task ends on its own.
LEMMA DialMoves ==
    ASSUME NEW e \in Exchanges, ExchangeOK(e), e.a # "joined",
           NEW v \in {"Ok", "AlreadySyncing", "Err"},
           v = "Ok" => e.done \/ e.back = "dropped"
    PROVE  TaskMove(e, [e EXCEPT !.a = v]) /\ SoundMove(e, [e EXCEPT !.a = v])
<1> DEFINE f == [e EXCEPT !.a = v]
<1>1. /\ f \in Exchanges
      /\ f.dialer = e.dialer /\ f.reason = e.reason /\ f.a = v /\ f.b = e.b
      /\ f.asked = e.asked /\ f.back = e.back /\ f.done = e.done
  BY DEF Exchanges, DialTask, ConnectRes
<1>2. e.dialer # 0
  BY NotFree
<1> HIDE DEF f
<1> QED
  BY <1>1, <1>2 DEF TaskMove, SoundMove, ExchangeOK, WireOK, f

\* A step that changes the acceptor's task and its stream only.
AcceptOnly(e, f) ==
    /\ f \in Exchanges
    /\ f.dialer = e.dialer /\ f.reason = e.reason /\ f.a = e.a
    /\ f.asked = e.asked /\ f.done = e.done

\* The acceptor's task is at v, and at v with the end w in its stream.
At(e, v) == [e EXCEPT !.b = v]

Left(e, v, w) == [e EXCEPT !.b = v, !.back = w]

LEMMA AtFields ==
    ASSUME NEW e \in Exchanges, NEW v \in AcceptTask
    PROVE  AcceptOnly(e, At(e, v)) /\ At(e, v).b = v /\ At(e, v).back = e.back
  BY Zenon DEF Exchanges, AcceptOnly, At

LEMMA LeftFields ==
    ASSUME NEW e \in Exchanges, NEW v \in AcceptTask, NEW w \in StreamEnd
    PROVE  AcceptOnly(e, Left(e, v, w)) /\ Left(e, v, w).b = v /\ Left(e, v, w).back = w
  BY Zenon DEF Exchanges, AcceptOnly, Left

LEMMA StagesAndEnds ==
    /\ {"refuseNotFound", "Ok", "Aborted", "Err"} \subseteq AcceptTask
    /\ {"fin", "dropped", "lost"} \cup AbortReason \subseteq StreamEnd
    /\ {"AlreadySyncing", "NotFound", "InternalServerError"} \subseteq StreamEnd
    /\ "fin" \notin AbortReason
  BY DEF AcceptTask, AcceptRes, StreamEnd, AbortReason

\* The acceptor's task goes on, or ends, on its own: what it leaves in its stream
\* must not read as a finished exchange unless it is one.
LEMMA AcceptMoves ==
    ASSUME NEW e \in Exchanges, ExchangeOK(e), e.b \notin {"none", "Err", "joined"},
           NEW f, AcceptOnly(e, f),
           f.b \in {"refuseNotFound", "Ok", "Err"} \/ (f.b = "Aborted" /\ e.b = "refuseSyncing"),
           e.asked \/ f.back = "dropped" => f.b = "Err",
           f.back = "fin" => e.back = "fin" \/ e.a \notin {"waiting", "running"}
    PROVE  /\ TaskMove(e, f)
           /\ e.b \in Engaged \/ f.b = "Aborted" => SoundMove(e, f)
<1>1. e.dialer # 0
  BY NotFree
<1> QED
  BY <1>1 DEF AcceptOnly, TaskMove, SoundMove, ExchangeOK, WireOK, Engaged

\* Where a task is, its exchange is not free; this is what the steps share.
LEMMA TaskMoves ==
    ASSUME TypeOK, TaskInv, NEW i \in Tasks,
           \/ TaskEnds(i) \/ DialFails(i)
           \/ AcceptBreaks(i) \/ AcceptTimesOut(i) \/ AcceptDenied(i)
    PROVE  Moves(i)
<1> DEFINE e == ex[i]
<1>0. e \in Exchanges /\ ExchangeOK(e)
  BY TypedExchanges
<1>t. \A n \in Nodes : head[n] \in 0 .. MaxHead
  BY DEF TypeOK
<1>1. CASE SendInit(i)
  <2>1. /\ e.a = "dialing" /\ e.b = "none" /\ e.dialer \in Nodes /\ e.dialer # 0 /\ ~ e.asked
        /\ e.back = "open"
    BY <1>0, <1>1, NotFree DEF SendInit, ExchangeOK
  <2> DEFINE f == [e EXCEPT !.a = "waiting", !.da = head[e.dialer], !.b = "asking", !.asked = TRUE]
             g == [e EXCEPT !.a = "Err"]
  <2>2. /\ f \in Exchanges
        /\ f.dialer = e.dialer /\ f.reason = e.reason /\ f.a = "waiting" /\ f.b = "asking"
        /\ f.back = e.back
    BY <1>0, <1>t, <2>1, Zenon DEF Exchanges, DialTask, AcceptTask
  <2> HIDE DEF f, g
  <2>4. TaskMove(e, f) /\ SoundMove(e, f)
    BY <2>1, <2>2 DEF TaskMove, SoundMove, ExchangeOK, WireOK, Engaged
  <2>5. TaskMove(e, g) /\ SoundMove(e, g)
    BY <1>0, <2>1, DialMoves, Zenon DEF g
  <2>6. TaskStep(i, f) \/ TaskStep(i, g)
    BY <1>1 DEF SendInit, f, g
  <2>7. faults' = faults
    BY <1>1 DEF SendInit
  <2> QED
    BY <2>4, <2>5, <2>6, <2>7, MovesByTaskStep
<1>2. CASE StartServing(i)
  <2>1. e.b = "allowed" /\ e.dialer \in Nodes /\ e.dialer # 0 /\ ~ e.asked
    BY <1>0, <1>2, NotFree DEF StartServing, ExchangeOK
  <2>h. head[Other(e.dialer)] \in 0 .. MaxHead
    BY <1>t, <2>1 DEF Other, Nodes
  <2> DEFINE f == [e EXCEPT !.b = "running", !.db = head[Other(e.dialer)],
                            !.a = IF @ = "waiting" THEN "running" ELSE @]
             g == Left(e, "Err", "InternalServerError")
  <2>2. /\ f \in Exchanges
        /\ f.dialer = e.dialer /\ f.reason = e.reason
        /\ f.a = (IF e.a = "waiting" THEN "running" ELSE e.a) /\ f.b = "running"
        /\ f.asked = e.asked /\ f.back = e.back /\ f.done = e.done
    BY <1>0, <2>1, <2>h, Zenon DEF Exchanges, DialTask, AcceptTask
  <2>3. AcceptOnly(e, g) /\ g.b = "Err" /\ g.back = "InternalServerError"
    BY <1>0, LeftFields, StagesAndEnds
  <2> HIDE DEF f, g
  <2>4. TaskMove(e, f) /\ SoundMove(e, f)
    BY <1>0, <2>1, <2>2 DEF TaskMove, SoundMove, ExchangeOK, WireOK, Engaged
  <2>5. TaskMove(e, g) /\ SoundMove(e, g)
    BY <1>0, <2>1, <2>3, AcceptMoves DEF Engaged
  <2>6. TaskStep(i, f) \/ TaskStep(i, g)
    BY <1>2 DEF StartServing, Failed, Left, f, g
  <2>7. faults' = faults
    BY <1>2 DEF StartServing
  <2> QED
    BY <2>4, <2>5, <2>6, <2>7, MovesByTaskStep
<1>3. CASE SendAbort(i)
  <2>1. /\ e.b \in {"refuseSyncing", "refuseNotFound"} /\ ~ e.asked
        /\ faults' = faults
    BY <1>0, <1>3 DEF SendAbort, ExchangeOK
  <2>2. PICK v \in {"Aborted", "Err"}, w \in {"AlreadySyncing", "NotFound"} :
          /\ v = "Aborted" <=> e.b = "refuseSyncing"
          /\ TaskStep(i, Left(e, v, w))
    BY <1>3 DEF SendAbort, Left
  <2> DEFINE f == Left(e, v, w)
  <2>3. AcceptOnly(e, f) /\ f.b = v /\ f.back = w
    BY <1>0, LeftFields, StagesAndEnds
  <2> HIDE DEF f
  <2>4. TaskMove(e, f) /\ (e.b \in Engaged \/ f.b = "Aborted" => SoundMove(e, f))
    BY <1>0, <2>1, <2>2, <2>3, AcceptMoves
  <2>5. e.b \in Engaged \/ f.b = "Aborted"
    BY <2>1, <2>2, <2>3 DEF Engaged
  <2> QED
    BY <2>1, <2>2, <2>4, <2>5, MovesByTaskStep DEF f
<1>4. CASE Exchange(i)
  <2>1. e.a = "running" /\ e.b = "running" /\ e.dialer \in Nodes /\ e.dialer # 0 /\ ~ e.asked
    BY <1>0, <1>4, NotFree DEF Exchange, ExchangeOK
  <2> DEFINE f == [e EXCEPT !.a = "closing", !.done = TRUE]
             g == [e EXCEPT !.b = "closing", !.back = "fin", !.done = TRUE]
  <2>2. /\ f \in Exchanges
        /\ f.dialer = e.dialer /\ f.reason = e.reason /\ f.a = "closing" /\ f.b = e.b
        /\ f.asked = e.asked /\ f.back = e.back /\ f.done = TRUE
    BY <1>0, Zenon DEF Exchanges, DialTask
  <2>3. /\ g \in Exchanges
        /\ g.dialer = e.dialer /\ g.reason = e.reason /\ g.a = e.a /\ g.b = "closing"
        /\ g.asked = e.asked /\ g.back = "fin" /\ g.done = TRUE
    BY <1>0, Zenon DEF Exchanges, AcceptTask, StreamEnd
  <2>4. ex' = [ex EXCEPT ![i] = f] \/ ex' = [ex EXCEPT ![i] = g]
    BY <1>4 DEF Exchange, TypeOK
  <2> HIDE DEF f, g
  <2>5. TaskMove(e, f) /\ SoundMove(e, f)
    BY <1>0, <2>1, <2>2 DEF TaskMove, SoundMove, ExchangeOK, WireOK, Engaged
  <2>6. TaskMove(e, g) /\ SoundMove(e, g)
    BY <1>0, <2>1, <2>3 DEF TaskMove, SoundMove, ExchangeOK, WireOK, Engaged
  <2>7. e.da \in 0 .. MaxHead /\ e.db \in 0 .. MaxHead
    BY <1>0 DEF Exchanges
  <2>8. seen' \in [Nodes -> 0 .. MaxHead]
    <3> DEFINE n == e.dialer
               m == Other(e.dialer)
               S == 0 .. MaxHead
    <3>1. seen' = [seen EXCEPT ![n] = Larger(@, e.db), ![m] = Larger(@, e.da)]
      BY <1>4 DEF Exchange
    <3>2. seen \in [Nodes -> S] /\ n \in Nodes /\ m \in Nodes /\ n # m
      BY <2>1 DEF TypeOK, Nodes, Other
    <3>3. \A x, y \in S : Larger(x, y) \in S
      BY DEF Larger
    <3>4. e.da \in S /\ e.db \in S
      BY <2>7
    <3> HIDE DEF n, m, S
    <3>5. Larger(seen[n], e.db) \in S /\ Larger(seen[m], e.da) \in S
      BY <3>2, <3>3, <3>4, Zenon
    <3>6. seen' \in [Nodes -> S]
      BY <3>1, <3>2, <3>5
    <3> QED
      BY <3>6 DEF S
  <2>9. UNCHANGED <<syncing, peer, head, reports, leaves, faults, wanted>>
    BY <1>4 DEF Exchange
  <2> QED
    BY <2>2, <2>3, <2>4, <2>5, <2>6, <2>8, <2>9, Zenon DEF Moves
<1>5. CASE DialReads(i) \/ CloseDial(i)
  <2>1. PICK v \in {"Ok", "AlreadySyncing", "Err"} :
          /\ TaskStep(i, [e EXCEPT !.a = v])
          /\ v = "Ok" => e.a = "closing" \/ e.back \in {"fin", "dropped"}
    BY <1>5 DEF DialReads, CloseDial, Reads
  <2>2. faults' = faults /\ e.a \in {"waiting", "running", "closing"}
    BY <1>5 DEF DialReads, CloseDial
  <2>3. v = "Ok" => e.done \/ e.back = "dropped"
    BY <1>0, <2>1, <2>2 DEF ExchangeOK, WireOK
  <2>4. TaskMove(e, [e EXCEPT !.a = v]) /\ SoundMove(e, [e EXCEPT !.a = v])
    <3>1. e.a # "joined"
      BY <2>2
    <3> QED
      BY <1>0, <2>3, <3>1, DialMoves, Zenon
  <2> QED
    BY <2>1, <2>2, <2>4, MovesByTaskStep
<1>6. CASE DialSessionLost(i) \/ DialFails(i)
  <2>1. /\ TaskStep(i, [e EXCEPT !.a = "Err"])
        /\ faults' = faults \/ faults' = faults + 1
        /\ e.a # "joined"
    BY <1>6 DEF DialSessionLost, DialFails
  <2>2. TaskMove(e, [e EXCEPT !.a = "Err"]) /\ SoundMove(e, [e EXCEPT !.a = "Err"])
    BY <1>0, <2>1, DialMoves, Zenon
  <2> QED
    BY <2>1, <2>2, MovesByTaskStep
<1>7. CASE AcceptReads(i) \/ AcceptSessionLost(i)
  <2>1. PICK v \in {"Ok", "Err"}, w \in {"fin", "lost", "InternalServerError"} :
          /\ TaskStep(i, Left(e, v, w))
          /\ w = "fin" => e.a \notin {"waiting", "running"}
    BY <1>7 DEF AcceptReads, DialClosed, AcceptSessionLost, Failed, Left
  <2>2. faults' = faults /\ e.b = "running" /\ ~ e.asked
    BY <1>0, <1>7 DEF AcceptReads, AcceptSessionLost, ExchangeOK
  <2> DEFINE f == Left(e, v, w)
  <2>3. AcceptOnly(e, f) /\ f.b = v /\ f.back = w
    BY <1>0, LeftFields, StagesAndEnds
  <2> HIDE DEF f
  <2>4. TaskMove(e, f) /\ SoundMove(e, f)
    BY <1>0, <2>1, <2>2, <2>3, AcceptMoves DEF Engaged
  <2> QED
    BY <2>1, <2>2, <2>4, MovesByTaskStep DEF f
<1>8. CASE CloseAccept(i) \/ AcceptDenied(i)
  <2>1. PICK v \in {"Ok", "Err", "refuseNotFound"} : TaskStep(i, At(e, v))
    BY <1>8 DEF CloseAccept, AcceptDenied, At
  <2>2. (faults' = faults \/ faults' = faults + 1) /\ e.b \in {"closing", "allowed"} /\ ~ e.asked
    BY <1>0, <1>8 DEF CloseAccept, AcceptDenied, ExchangeOK
  <2> DEFINE f == At(e, v)
  <2>3. AcceptOnly(e, f) /\ f.b = v /\ f.back = e.back
    BY <1>0, AtFields, StagesAndEnds
  <2>d. e.back # "dropped"
    BY <1>0, <2>2 DEF ExchangeOK, WireOK
  <2> HIDE DEF f
  <2>4. TaskMove(e, f) /\ SoundMove(e, f)
    BY <1>0, <2>1, <2>2, <2>3, <2>d, AcceptMoves DEF Engaged
  <2> QED
    BY <2>1, <2>2, <2>4, MovesByTaskStep DEF f
<1>9. CASE AcceptBreaks(i) \/ AcceptTimesOut(i)
  <2>1. PICK w \in {"dropped", "lost"} \cup AbortReason : TaskStep(i, Left(e, "Err", w))
    <3>1. CASE AcceptBreaks(i)
      <4>1. TaskStep(i, Left(e, "Err", "lost"))
        BY <3>1, Zenon DEF AcceptBreaks, Left
      <4> QED
        BY <4>1
    <3>2. CASE AcceptTimesOut(i)
      <4> DEFINE w == IF e.back \in AbortReason THEN e.back ELSE "dropped"
      <4>1. TaskStep(i, Left(e, "Err", w))
        BY <3>2, Zenon DEF AcceptTimesOut, Left
      <4>2. w \in {"dropped", "lost"} \cup AbortReason
        OBVIOUS
      <4> HIDE DEF w
      <4> QED
        BY <4>1, <4>2
    <3> QED
      BY <1>9, <3>1, <3>2
  <2>2. faults' = faults + 1 /\ e.b \notin {"none", "Err", "joined"}
    BY <1>9 DEF AcceptBreaks, AcceptTimesOut
  <2> DEFINE f == Left(e, "Err", w)
  <2>3. AcceptOnly(e, f) /\ f.b = "Err" /\ f.back = w
    BY <1>0, <2>1, LeftFields, StagesAndEnds
  <2> HIDE DEF f
  <2>4. TaskMove(e, f)
    BY <1>0, <2>1, <2>2, <2>3, StagesAndEnds, AcceptMoves
  <2> QED
    BY <2>1, <2>2, <2>4, MovesByTaskStep DEF f
<1> QED
  BY <1>1, <1>2, <1>3, <1>4, <1>5, <1>6, <1>7, <1>8, <1>9 DEF TaskEnds

-----------------------------------------------------------------------------
(* The handlers of a live actor, as what they make of the slot of node n   *)
(* once the exchanges are exs                                              *)

SlotOf(n) == peer' \in [Nodes -> PeerState] /\ peer'[Other(n)] = peer[Other(n)]

Keeps(n, exs) == ex' = exs /\ peer'[n].state = peer[n].state

Idles(n, exs) == ex' = exs /\ peer'[n].state = "Idle"

Dials(n, exs) ==
    \E j \in Tasks, reason \in SyncReason :
        /\ ex[j].dialer = 0
        /\ ex' = [exs EXCEPT ![j] = NewDial(n, reason)]
        /\ peer'[n].state = reason

Triggered(n) ==
    /\ SlotOf(n)
    /\ \/ Keeps(n, ex)
       \/ leaves' # 0 /\ Idles(n, ex)
       \/ peer[n].state = "Idle" /\ Dials(n, ex)

\* The dial is joined; the exchange is forgotten if its accept is over too.
JoinDial(e, g) ==
    /\ g \in Exchanges /\ ExchangeOK(g) /\ g.a = "joined"
    /\ \/ g = Free /\ e.b \notin Engaged /\ ~ e.asked
       \/ g.dialer = e.dialer /\ g.reason = e.reason /\ g.b = e.b /\ g.asked = e.asked

DialJoined(i) ==
    \E g \in Exchanges :
        LET n == ex[i].dialer
            exs == [ex EXCEPT ![i] = g]
        IN  /\ n \in Nodes /\ ex[i].a # "joined"
            /\ JoinDial(ex[i], g)
            /\ SlotOf(n)
            /\ \/ Keeps(n, exs) /\ peer[n].state # ex[i].reason
               \/ Idles(n, exs)
               \/ Dials(n, exs)

JoinAccept(e, g) ==
    /\ g \in Exchanges /\ ExchangeOK(g) /\ g.b \notin Engaged /\ ~ g.asked
    /\ \/ g = Free /\ e.a = "joined"
       \/ g.dialer = e.dialer /\ g.reason = e.reason /\ g.a = e.a

AcceptJoined(i) ==
    \E g \in Exchanges :
        LET n == Other(ex[i].dialer)
            exs == [ex EXCEPT ![i] = g]
        IN  /\ n \in Nodes /\ ex[i].dialer # 0
            /\ JoinAccept(ex[i], g)
            /\ SlotOf(n)
            /\ \/ Keeps(n, exs) /\ ex[i].b \notin Engaged
               \/ ex[i].b \in Engaged /\ (Idles(n, exs) \/ Dials(n, exs))

\* The request is decided; it was allowed, or the slot stays as it is.
Decided(e, g) ==
    /\ g \in Exchanges /\ ExchangeOK(g) /\ ~ g.asked
    /\ g.dialer = e.dialer /\ g.reason = e.reason /\ g.a = e.a

Asked(i) ==
    \E g \in Exchanges :
        LET n == Other(ex[i].dialer)
        IN  /\ n \in Nodes /\ ex[i].dialer # 0 /\ ex[i].asked
            /\ ex' = [ex EXCEPT ![i] = g]
            /\ Decided(ex[i], g)
            /\ SlotOf(n)
            /\ \/ /\ Allows(n, peer[n]) /\ g.b \in Engaged
                  /\ peer'[n].state = "Accept"
               \/ /\ peer'[n].state = peer[n].state
                  /\ ex[i].b \in Engaged => g.b \in Engaged
                  /\ syncing[n] /\ g.b \in Engaged => ex[i].b \in Engaged

-----------------------------------------------------------------------------

LEMMA SyncWithPeerForm ==
    ASSUME TypeOK, NEW n \in Nodes, NEW reason \in SyncReason, NEW p \in PeerState, NEW exs,
           sync_with_peer(n, reason, p, exs)
    PROVE  /\ SlotOf(n)
           /\ \/ p.state = "Idle" /\ Dials(n, exs)
              \/ p.state # "Idle" /\ ex' = exs /\ peer'[n].state = p.state
<1>1. Other(n) \in Nodes /\ Other(n) # n
  BY DEF Other, Nodes
<1>2. peer' = [peer EXCEPT ![n] = start_connect(p, reason)]
  BY DEF sync_with_peer
<1>3. CASE p.state = "Idle"
  <2>1. start_connect(p, reason) = [state |-> reason, resync |-> FALSE]
    BY <1>3 DEF start_connect, set_sync_running
  <2>2. SlotOf(n) /\ peer'[n].state = reason
    BY <1>1, <1>2, <2>1 DEF SlotOf, TypeOK, PeerState, SyncState
  <2>3. PICK j \in Tasks : ex[j].dialer = 0 /\ ex' = [exs EXCEPT ![j] = NewDial(n, reason)]
    BY <1>3 DEF sync_with_peer, FreeTasks, NewDial
  <2> QED
    BY <1>3, <2>2, <2>3, Zenon DEF Dials
<1>4. CASE p.state # "Idle"
  <2> DEFINE v == p.resync \/ reason = "SyncReport"
             q == [p EXCEPT !.resync = v]
  <2>1. q \in PeerState /\ q.state = p.state
    <3>1. v \in BOOLEAN
      OBVIOUS
    <3> HIDE DEF v
    <3> QED
      BY <3>1 DEF PeerState
  <2>2. start_connect(p, reason) = q
    BY <1>4 DEF start_connect
  <2> HIDE DEF q
  <2>3. SlotOf(n) /\ peer'[n].state = p.state
    BY <1>1, <1>2, <2>1, <2>2 DEF SlotOf, TypeOK
  <2>4. ex' = exs
    BY <1>4 DEF sync_with_peer
  <2> QED
    BY <1>4, <2>3, <2>4
<1> QED
  BY <1>3, <1>4

LEMMA Untouched ==
    ASSUME TypeOK, peer' = peer, NEW n \in Nodes
    PROVE  SlotOf(n) /\ peer'[n].state = peer[n].state
  BY DEF TypeOK, SlotOf

LEMMA TriggerForm ==
    ASSUME TypeOK, NEW n \in Nodes, NEW reason \in SyncReason,
           sync_with_peer(n, reason, peer[n], ex)
    PROVE  Triggered(n)
<1>1. peer[n] \in PeerState
  BY DEF TypeOK
<1> QED
  BY <1>1, SyncWithPeerForm DEF Triggered, Keeps

LEMMA OnSyncFinishedForm ==
    ASSUME TypeOK, TaskInv, NEW n \in Nodes, NEW origin, NEW exs,
           on_sync_finished(n, origin, exs)
    PROVE  SlotOf(n) /\ (Idles(n, exs) \/ Dials(n, exs))
<1> DEFINE q == finish(peer[n], origin)
<1>1. q \in PeerState /\ q.state = "Idle"
  BY DEF TypeOK, finish, PeerState, SyncState
<1> HIDE DEF q
<1>2. CASE syncing[n] /\ peer[n].state # "Idle" /\ peer[n].resync
  <2>1. sync_with_peer(n, "Resync", q, exs)
    BY <1>2 DEF on_sync_finished, q
  <2>2. SlotOf(n) /\ Dials(n, exs)
    BY <1>1, <2>1, SyncWithPeerForm DEF SyncReason
  <2> QED
    BY <2>2
<1>3. CASE syncing[n] /\ peer[n].state # "Idle" /\ ~ peer[n].resync
  <2>1. peer' = [peer EXCEPT ![n] = q] /\ ex' = exs
    BY <1>3 DEF on_sync_finished, q
  <2>2. Other(n) \in Nodes /\ Other(n) # n
    BY DEF Other, Nodes
  <2> QED
    BY <1>1, <2>1, <2>2 DEF SlotOf, Idles, TypeOK
<1>4. CASE ~ (syncing[n] /\ peer[n].state # "Idle")
  <2>1. ex' = exs /\ peer' = peer /\ peer[n].state = "Idle"
    BY <1>4 DEF on_sync_finished, TaskInv
  <2> QED
    BY <2>1, Untouched DEF Idles
<1> QED
  BY <1>2, <1>3, <1>4

LEMMA JoinDialForm ==
    ASSUME NEW e \in Exchanges, ExchangeOK(e)
    PROVE  JoinDial(e, Forget([e EXCEPT !.a = "joined"]))
<1> DEFINE f == [e EXCEPT !.a = "joined"]
<1>1. /\ f \in Exchanges
      /\ f.dialer = e.dialer /\ f.reason = e.reason /\ f.a = "joined" /\ f.b = e.b
      /\ f.asked = e.asked /\ f.back = e.back /\ f.done = e.done
  BY DEF Exchanges, DialTask
<1>2. f.dialer = 0 => f = Free
  <2>1. e.dialer = 0 => e = Free
    BY DEF ExchangeOK
  <2>2. [Free EXCEPT !.a = "joined"] = Free
    BY DEF Free
  <2> QED
    BY <1>1, <2>1, <2>2
<1> HIDE DEF f
<1>3. ExchangeOK(f)
  BY <1>1, <1>2 DEF ExchangeOK, WireOK
<1>4. Free.a = "joined"
  BY DEF Free
<1>5. CASE f.b \in {"none", "joined"}
  <2>1. Forget(f) = Free
    BY <1>1, <1>5 DEF Forget
  <2>2. ~ e.asked /\ e.b \notin Engaged
    BY <1>1, <1>5 DEF ExchangeOK, Engaged
  <2> QED
    BY <1>4, <2>1, <2>2, FreeExchange DEF JoinDial, f
<1>6. CASE f.b \notin {"none", "joined"}
  <2>1. Forget(f) = f
    BY <1>6 DEF Forget
  <2> QED
    BY <1>1, <1>3, <2>1, Zenon DEF JoinDial, f
<1> QED
  BY <1>5, <1>6

LEMMA JoinAcceptForm ==
    ASSUME NEW e \in Exchanges, ExchangeOK(e), ~ e.asked, e.b \in AcceptRes
    PROVE  JoinAccept(e, Forget([e EXCEPT !.b = "joined"]))
<1> DEFINE f == [e EXCEPT !.b = "joined"]
<1>1. /\ f \in Exchanges
      /\ f.dialer = e.dialer /\ f.reason = e.reason /\ f.a = e.a /\ f.b = "joined"
      /\ f.asked = e.asked /\ f.back = e.back /\ f.done = e.done
  BY DEF Exchanges, AcceptTask
<1>2. e.dialer # 0 /\ e.a # "dialing"
  BY NotFree DEF AcceptRes, ExchangeOK
<1> HIDE DEF f
<1>3. ExchangeOK(f)
  BY <1>1, <1>2 DEF ExchangeOK, WireOK
<1>4. Free.a = "joined" /\ Free.b = "none" /\ ~ Free.asked
  BY DEF Free
<1>5. CASE f.a = "joined"
  <2>1. Forget(f) = Free
    BY <1>1, <1>5 DEF Forget
  <2> QED
    BY <1>1, <1>4, <1>5, <2>1, FreeExchange DEF JoinAccept, Engaged, f
<1>6. CASE f.a # "joined"
  <2>1. Forget(f) = f
    BY <1>6 DEF Forget
  <2> QED
    BY <1>1, <1>3, <2>1, Zenon DEF JoinAccept, Engaged, f
<1> QED
  BY <1>5, <1>6

LEMMA ConnectFinishedForm ==
    ASSUME TypeOK, TaskInv, NEW i \in Tasks, on_sync_via_connect_finished(i)
    PROVE  DialJoined(i)
<1> DEFINE e == ex[i]
           n == e.dialer
           g == Forget([e EXCEPT !.a = "joined"])
           exs == [ex EXCEPT ![i] = g]
<1>1. e \in Exchanges /\ ExchangeOK(e)
  BY TypedExchanges
<1>2. JoinDial(e, g) /\ g \in Exchanges
  BY <1>1, JoinDialForm DEF JoinDial
<1>3. e.a \in ConnectRes /\ e.a # "joined" /\ n \in Nodes
  BY <1>1, NotFree DEF on_sync_via_connect_finished, ConnectRes
<1>4. exs = [ex EXCEPT ![i] = Forget([@ EXCEPT !.a = "joined"])]
  OBVIOUS
<1> HIDE DEF exs, g
<1>5. SlotOf(n) /\ \/ Keeps(n, exs) /\ peer[n].state # e.reason
                   \/ Idles(n, exs)
                   \/ Dials(n, exs)
  <2>1. CASE e.a = "AlreadySyncing"
    <3> DEFINE q == IF syncing[n] THEN abort_connect(peer[n], e.reason) ELSE peer[n]
    <3>1. peer' = [peer EXCEPT ![n] = q] /\ ex' = exs
      BY <1>4, <2>1 DEF on_sync_via_connect_finished
    <3>2. peer[n] \in PeerState /\ (~ syncing[n] => peer[n].state = "Idle")
      BY <1>3 DEF TypeOK, TaskInv
    <3>3. q \in PeerState /\ (q.state = "Idle" \/ (q.state = peer[n].state /\ peer[n].state # e.reason))
      BY <3>2 DEF abort_connect, PeerState, SyncState
    <3> HIDE DEF q
    <3>4. Other(n) \in Nodes /\ Other(n) # n
      BY <1>3 DEF Other, Nodes
    <3>5. SlotOf(n) /\ peer'[n].state = q.state
      BY <1>3, <3>1, <3>3, <3>4 DEF SlotOf, TypeOK
    <3> QED
      BY <3>1, <3>3, <3>5 DEF Keeps, Idles
  <2>2. CASE e.a # "AlreadySyncing"
    <3>1. on_sync_finished(n, e.reason, exs)
      BY <1>4, <2>2 DEF on_sync_via_connect_finished
    <3> QED
      BY <1>3, <3>1, OnSyncFinishedForm
  <2> QED
    BY <2>1, <2>2
<1> QED
  BY <1>2, <1>3, <1>5 DEF DialJoined, exs

LEMMA AcceptFinishedForm ==
    ASSUME TypeOK, TaskInv, NEW i \in Tasks, on_sync_via_accept_finished(i)
    PROVE  AcceptJoined(i)
<1> DEFINE e == ex[i]
           n == Other(e.dialer)
           g == Forget([e EXCEPT !.b = "joined"])
           exs == [ex EXCEPT ![i] = g]
<1>1. e \in Exchanges /\ ExchangeOK(e)
  BY TypedExchanges
<1>2. e.b \in AcceptRes /\ InboxEmpty(n)
  BY DEF on_sync_via_accept_finished
<1>3. e.dialer # 0 /\ n \in Nodes /\ e.dialer = Other(n)
  BY <1>1, <1>2, NotFree DEF AcceptRes, Other, Nodes
<1>4. ~ e.asked
  BY <1>2, <1>3 DEF InboxEmpty
<1>5. JoinAccept(e, g) /\ g \in Exchanges
  BY <1>1, <1>2, <1>4, JoinAcceptForm DEF JoinAccept
<1>6. exs = [ex EXCEPT ![i] = Forget([@ EXCEPT !.b = "joined"])]
  OBVIOUS
<1> HIDE DEF exs, g
<1>7. SlotOf(n) /\ \/ Keeps(n, exs) /\ e.b \notin Engaged
                   \/ e.b \in Engaged /\ (Idles(n, exs) \/ Dials(n, exs))
  <2>1. CASE e.b = "Aborted"
    <3>1. ex' = exs /\ peer' = peer
      BY <1>6, <2>1 DEF on_sync_via_accept_finished
    <3> QED
      BY <1>3, <2>1, <3>1, Untouched DEF Keeps, Engaged
  <2>2. CASE e.b # "Aborted"
    <3>1. on_sync_finished(n, "Accept", exs)
      BY <1>6, <2>2 DEF on_sync_via_accept_finished
    <3>2. e.b \in Engaged
      BY <1>2, <2>2, SMTT(30) DEF AcceptRes, Engaged
    <3> QED
      BY <1>3, <3>1, <3>2, OnSyncFinishedForm
  <2> QED
    BY <2>1, <2>2
<1> QED
  BY <1>3, <1>5, <1>7 DEF AcceptJoined, exs

LEMMA RequestForm ==
    ASSUME TypeOK, TaskInv, NEW i \in Tasks, AcceptSyncRequest(i)
    PROVE  Asked(i)
<1> DEFINE e == ex[i]
           n == Other(e.dialer)
           answer == IF ~ syncing[n] THEN "refuseNotFound"
                     ELSE IF Allows(n, peer[n]) THEN "allowed" ELSE "refuseSyncing"
           b == IF e.b = "asking" THEN answer ELSE e.b
           g == [e EXCEPT !.asked = FALSE, !.b = b]
           q == IF syncing[n] THEN accept_request(n, peer[n]) ELSE peer[n]
<1>1. e \in Exchanges /\ ExchangeOK(e)
  BY TypedExchanges
<1>2. e.asked /\ e.dialer # 0 /\ e.b \in {"asking", "Err"} /\ e.a # "dialing"
  BY <1>1 DEF AcceptSyncRequest, ExchangeOK
<1>3. n \in Nodes /\ Other(n) \in Nodes /\ Other(n) # n
  BY <1>1, <1>2 DEF Exchanges, Other, Nodes
<1>4. peer' = [peer EXCEPT ![n] = q] /\ ex' = [ex EXCEPT ![i] = g]
  BY Zenon DEF AcceptSyncRequest, TypeOK
<1>5. b \in {"refuseNotFound", "allowed", "refuseSyncing", "Err"}
  BY <1>2
<1>6. /\ g \in Exchanges /\ g.dialer = e.dialer /\ g.reason = e.reason /\ g.a = e.a
      /\ g.b = b /\ g.asked = FALSE /\ g.back = e.back /\ g.done = e.done
  <2> HIDE DEF b
  <2> QED
    BY <1>1, <1>5, Zenon DEF Exchanges, AcceptTask, AcceptRes
<1> HIDE DEF g
<1>7. Decided(e, g)
  <2>1. ExchangeOK(g)
    BY <1>1, <1>2, <1>5, <1>6 DEF ExchangeOK, WireOK
  <2> QED
    BY <1>6, <2>1 DEF Decided
<1>8. peer[n] \in PeerState
  BY <1>3 DEF TypeOK
<1>9. /\ q \in PeerState
      /\ \/ Allows(n, peer[n]) /\ syncing[n] /\ q.state = "Accept"
         \/ ~ (Allows(n, peer[n]) /\ syncing[n]) /\ q.state = peer[n].state
  BY <1>8 DEF accept_request, set_sync_running, PeerState, SyncState
<1> HIDE DEF q
<1>10. SlotOf(n) /\ peer'[n].state = q.state
  BY <1>3, <1>4, <1>9 DEF SlotOf, TypeOK
<1>11. /\ Allows(n, peer[n]) /\ syncing[n] => b \in Engaged
       /\ e.b \in Engaged => b \in Engaged
       /\ syncing[n] /\ ~ Allows(n, peer[n]) /\ b \in Engaged => e.b \in Engaged
  BY <1>2 DEF Engaged
<1> HIDE DEF b, answer
<1> QED
  BY <1>2, <1>3, <1>4, <1>6, <1>7, <1>9, <1>10, <1>11, Zenon DEF Asked

\* The other variables keep their types, and the counts only grow.
RestOK ==
    /\ syncing' \in [Nodes -> BOOLEAN]
    /\ head' \in [Nodes -> 0 .. MaxHead]
    /\ seen' \in [Nodes -> 0 .. MaxHead]
    /\ reports' \in [Nodes -> SUBSET (1 .. MaxHead)]
    /\ leaves' \in 0 .. MaxLeaves /\ leaves <= leaves'
    /\ faults' \in 0 .. MaxFaults /\ faults <= faults'
    /\ wanted' \in [Nodes -> 0 .. MaxHead]
    /\ leaves' = 0 => \A n \in Nodes : syncing[n] => syncing'[n]
    /\ \A n \in Nodes : ~ syncing'[n] => peer'[n].state = "Idle"

StepForm ==
    \/ \E n \in Nodes : Triggered(n)
    \/ \E i \in Tasks : Moves(i) \/ Asked(i) \/ DialJoined(i) \/ AcceptJoined(i)

\* A step that fails nothing, leaves nothing and idles the pairs of nodes that do
\* not sync meets the conditions on the rest of the state.
LEMMA RestKept ==
    ASSUME TypeOK, TaskInv, UNCHANGED <<env, faults, syncing>>,
           \A n \in Nodes : ~ syncing[n] => peer'[n].state = "Idle"
    PROVE  RestOK
<1>1. leaves \in Int /\ faults \in Int
  BY LiveAssumption DEF TypeOK
<1>2. leaves <= leaves' /\ faults <= faults'
  BY <1>1 DEF env
<1> QED
  BY <1>2 DEF RestOK, TypeOK, env

LEMMA OtherNode ==
    ASSUME NEW n \in Nodes
    PROVE  Other(n) \in Nodes /\ Other(n) # n /\ \A m \in Nodes : m = n \/ m = Other(n)
  BY DEF Other, Nodes

LEMMA TriggerStep ==
    ASSUME TypeOK, TaskInv, NEW n \in Nodes,
           \/ \E named \in BOOLEAN : start_sync(n, named)
           \/ leave(n)
           \/ NeighborUp(n)
           \/ \E h \in reports[n] : on_sync_report(n, h)
           \/ LocalInsert(n)
    PROVE  Triggered(n) /\ RestOK
<1>0. leaves \in 0 .. MaxLeaves /\ faults \in 0 .. MaxFaults /\ MaxLeaves \in Nat /\ MaxFaults \in Nat
  BY LiveAssumption DEF TypeOK
<1>a. \A m \in Nodes : ~ syncing[m] => peer[m].state = "Idle"
  BY DEF TaskInv
<1>b. SlotOf(n) => peer'[Other(n)].state = peer[Other(n)].state
  BY DEF SlotOf
<1>1. ASSUME NEW named \in BOOLEAN, start_sync(n, named) PROVE Triggered(n) /\ RestOK
  <2>1. Triggered(n)
    <3>1. CASE named
      BY <1>1, <3>1, TriggerForm DEF start_sync, join_peers, SyncReason
    <3>2. CASE ~ named
      BY <1>1, <3>2, Untouched DEF start_sync, join_peers, Triggered, Keeps
    <3> QED
      BY <3>1, <3>2
  <2>2. syncing' = [syncing EXCEPT ![n] = TRUE] /\ UNCHANGED <<env, faults>>
    BY <1>1 DEF start_sync
  <2>3. syncing' \in [Nodes -> BOOLEAN] /\ syncing'[n] /\ syncing'[Other(n)] = syncing[Other(n)]
    BY <2>2, OtherNode, Zenon DEF TypeOK
  <2>4. \A m \in Nodes : ~ syncing'[m] => peer'[m].state = "Idle"
    BY <1>a, <1>b, <2>1, <2>3, OtherNode DEF Triggered
  <2>5. \A m \in Nodes : syncing[m] => syncing'[m]
    BY <2>3, OtherNode
  <2> QED
    BY <1>0, <2>1, <2>2, <2>3, <2>4, <2>5 DEF RestOK, TypeOK, env
<1>2. CASE leave(n)
  <2>1. /\ leaves' = leaves + 1 /\ leaves < MaxLeaves
        /\ syncing' = [syncing EXCEPT ![n] = FALSE]
        /\ peer' = [peer EXCEPT ![n] = DefaultPeer]
        /\ UNCHANGED <<ex, head, seen, reports, faults, wanted>>
    BY <1>2 DEF leave
  <2>2. DefaultPeer \in PeerState /\ DefaultPeer.state = "Idle"
    BY DEF DefaultPeer, PeerState, SyncState
  <2>3. SlotOf(n) /\ peer'[n].state = "Idle"
    BY <2>1, <2>2, OtherNode DEF SlotOf, TypeOK
  <2>4. Triggered(n)
    <3>1. leaves' # 0
      BY <1>0, <2>1
    <3> QED
      BY <2>1, <2>3, <3>1 DEF Triggered, Idles
  <2>5. syncing' \in [Nodes -> BOOLEAN] /\ syncing'[Other(n)] = syncing[Other(n)]
    BY <2>1, OtherNode, Zenon DEF TypeOK
  <2>6. \A m \in Nodes : ~ syncing'[m] => peer'[m].state = "Idle"
    BY <1>a, <1>b, <2>3, <2>5, OtherNode
  <2>7. leaves' \in 0 .. MaxLeaves /\ leaves <= leaves' /\ leaves' # 0
    BY <1>0, <2>1
  <2> QED
    BY <1>0, <2>1, <2>4, <2>5, <2>6, <2>7 DEF RestOK, TypeOK
<1>3. CASE NeighborUp(n)
  <2>1. Triggered(n)
    BY <1>3, TriggerForm DEF NeighborUp, SyncReason
  <2>2. UNCHANGED <<env, faults, syncing>> /\ syncing[n]
    BY <1>3 DEF NeighborUp
  <2>3. \A m \in Nodes : ~ syncing[m] => peer'[m].state = "Idle"
    BY <1>a, <1>b, <2>1, <2>2, OtherNode DEF Triggered
  <2> QED
    BY <2>1, <2>2, <2>3, RestKept
<1>4. ASSUME NEW h \in reports[n], on_sync_report(n, h) PROVE Triggered(n) /\ RestOK
  <2> DEFINE news == syncing[n] /\ h > seen[n]
  <2>1. Triggered(n) /\ \A m \in Nodes : ~ syncing[m] => peer'[m].state = "Idle"
    <3>1. CASE news
      <4>1. Triggered(n)
        BY <1>4, <3>1, TriggerForm, SMTT(30) DEF on_sync_report, SyncReason
      <4> QED
        BY <1>a, <1>b, <3>1, <4>1, OtherNode DEF Triggered
    <3>2. CASE ~ news
      <4>1. peer' = peer /\ ex' = ex
        BY <1>4, <3>2 DEF on_sync_report
      <4> QED
        BY <1>a, <4>1, Untouched, SMTT(30) DEF Triggered, Keeps
    <3> QED
      BY <3>1, <3>2, SMTT(30)
  <2>2. h \in 1 .. MaxHead /\ reports' \in [Nodes -> SUBSET (1 .. MaxHead)]
    BY <1>4 DEF on_sync_report, TypeOK
  <2>3. wanted' \in [Nodes -> 0 .. MaxHead]
    BY <1>4, <2>2 DEF on_sync_report, TypeOK, Larger
  <2>4. UNCHANGED <<syncing, head, seen, leaves, faults>>
    BY <1>4 DEF on_sync_report
  <2> QED
    BY <1>0, <2>1, <2>2, <2>3, <2>4 DEF RestOK, TypeOK
<1>5. CASE LocalInsert(n)
  <2>1. UNCHANGED <<syncing, peer, ex, seen, leaves, faults, wanted>>
    BY <1>5 DEF LocalInsert
  <2>2. /\ head[n] < MaxHead
        /\ head' = [head EXCEPT ![n] = @ + 1]
        /\ reports' = [reports EXCEPT ![Other(n)] = IF syncing[n] THEN @ \cup {head'[n]} ELSE @]
    BY <1>5 DEF LocalInsert
  <2>3. MaxHead \in Nat
    BY LiveAssumption
  <2>4. head' \in [Nodes -> 0 .. MaxHead] /\ head'[n] \in 1 .. MaxHead
    BY <2>2, <2>3 DEF TypeOK
  <2>5. reports' \in [Nodes -> SUBSET (1 .. MaxHead)]
    BY <2>2, <2>4, OtherNode DEF TypeOK
  <2>6. Triggered(n)
    BY <2>1, Untouched DEF Triggered, Keeps
  <2> QED
    BY <1>0, <1>a, <2>1, <2>4, <2>5, <2>6, SMTT(30) DEF RestOK, TypeOK
<1> QED
  BY <1>1, <1>2, <1>3, <1>4, <1>5

LEMMA MoveRest ==
    ASSUME TypeOK, TaskInv, NEW i \in Tasks, Moves(i), faults' \in 0 .. MaxFaults
    PROVE  RestOK
<1>1. leaves \in Int /\ faults \in Int
  BY LiveAssumption DEF TypeOK
<1>2. leaves <= leaves' /\ faults <= faults'
  BY <1>1 DEF Moves
<1>3. \A n \in Nodes : ~ syncing'[n] => peer'[n].state = "Idle"
  BY DEF Moves, TaskInv
<1> QED
  BY <1>2, <1>3 DEF RestOK, TypeOK, Moves

LEMMA TaskSteps ==
    ASSUME TypeOK, TaskInv, NEW i \in Tasks,
           \/ TaskEnds(i) \/ DialFails(i)
           \/ AcceptBreaks(i) \/ AcceptTimesOut(i) \/ AcceptDenied(i)
    PROVE  Moves(i) /\ RestOK
<1>1. Moves(i)
  BY TaskMoves
<1>2. faults' \in 0 .. MaxFaults
  <2>1. faults' = faults \/ (faults' = faults + 1 /\ faults < MaxFaults)
    BY DEF TaskEnds, SendInit, StartServing, SendAbort, Exchange, CloseDial, CloseAccept,
           DialReads, AcceptReads, DialSessionLost, AcceptSessionLost,
           DialFails, AcceptBreaks, AcceptTimesOut, AcceptDenied
  <2> QED
    BY <2>1, LiveAssumption DEF TypeOK
<1> QED
  BY <1>1, <1>2, MoveRest

LEMMA NextForm ==
    ASSUME TypeOK, TaskInv, Next
    PROVE  StepForm /\ RestOK
<1>0. \A m \in Nodes : ~ syncing[m] => peer[m].state = "Idle"
  BY DEF TaskInv
<1>1. ASSUME NEW n \in Nodes,
             \/ \E named \in BOOLEAN : start_sync(n, named)
             \/ leave(n)
             \/ NeighborUp(n)
             \/ \E h \in reports[n] : on_sync_report(n, h)
             \/ LocalInsert(n)
      PROVE  StepForm /\ RestOK
  BY <1>1, TriggerStep DEF StepForm
<1>2. ASSUME NEW i \in Tasks, AcceptSyncRequest(i)
      PROVE  StepForm /\ RestOK
  <2>1. Asked(i)
    BY <1>2, RequestForm
  <2>2. UNCHANGED <<env, faults, syncing>>
    BY <1>2 DEF AcceptSyncRequest
  <2> DEFINE n == Other(ex[i].dialer)
  <2>3. n \in Nodes /\ SlotOf(n)
    BY <2>1 DEF Asked
  <2>4. ~ syncing[n] => peer'[n] = peer[n]
    BY <1>2, <2>3 DEF AcceptSyncRequest, TypeOK
  <2>5. \A m \in Nodes : ~ syncing[m] => peer'[m].state = "Idle"
    BY <1>0, <2>3, <2>4, OtherNode DEF SlotOf
  <2> QED
    BY <2>1, <2>2, <2>5, RestKept DEF StepForm
<1>3. ASSUME NEW i \in Tasks, on_sync_via_connect_finished(i)
      PROVE  StepForm /\ RestOK
  <2>1. DialJoined(i)
    BY <1>3, ConnectFinishedForm
  <2>2. UNCHANGED <<env, faults, syncing>>
    BY <1>3 DEF on_sync_via_connect_finished
  <2> DEFINE n == ex[i].dialer
  <2>3. n \in Nodes /\ SlotOf(n)
    BY <2>1 DEF DialJoined
  <2>4. ~ syncing[n] => peer'[n] = peer[n]
    BY <1>3, <2>3 DEF on_sync_via_connect_finished, on_sync_finished, TypeOK
  <2>5. \A m \in Nodes : ~ syncing[m] => peer'[m].state = "Idle"
    BY <1>0, <2>3, <2>4, OtherNode DEF SlotOf
  <2> QED
    BY <2>1, <2>2, <2>5, RestKept DEF StepForm
<1>4. ASSUME NEW i \in Tasks, on_sync_via_accept_finished(i)
      PROVE  StepForm /\ RestOK
  <2>1. AcceptJoined(i)
    BY <1>4, AcceptFinishedForm
  <2>2. UNCHANGED <<env, faults, syncing>>
    BY <1>4 DEF on_sync_via_accept_finished
  <2> DEFINE n == Other(ex[i].dialer)
  <2>3. n \in Nodes /\ SlotOf(n)
    BY <2>1 DEF AcceptJoined
  <2>4. ~ syncing[n] => peer'[n] = peer[n]
    BY <1>4, <2>3 DEF on_sync_via_accept_finished, on_sync_finished, TypeOK
  <2>5. \A m \in Nodes : ~ syncing[m] => peer'[m].state = "Idle"
    BY <1>0, <2>3, <2>4, OtherNode DEF SlotOf
  <2> QED
    BY <2>1, <2>2, <2>5, RestKept DEF StepForm
<1>5. ASSUME NEW i \in Tasks,
             \/ TaskEnds(i) \/ DialFails(i)
             \/ AcceptBreaks(i) \/ AcceptTimesOut(i) \/ AcceptDenied(i)
      PROVE  StepForm /\ RestOK
  BY <1>5, TaskSteps DEF StepForm
<1> QED
  BY <1>1, <1>2, <1>3, <1>4, <1>5 DEF Next

-----------------------------------------------------------------------------
(* Type correctness and the invariant of one exchange                      *)

LEMMA EditedExchanges ==
    ASSUME NEW exs \in [Tasks -> Exchanges], \A i \in Tasks : ExchangeOK(exs[i]),
           NEW j \in Tasks, NEW f \in Exchanges, ExchangeOK(f)
    PROVE  /\ [exs EXCEPT ![j] = f] \in [Tasks -> Exchanges]
           /\ \A i \in Tasks : ExchangeOK([exs EXCEPT ![j] = f][i])
  OBVIOUS

LEMMA DialsTyped ==
    ASSUME NEW exs \in [Tasks -> Exchanges], \A i \in Tasks : ExchangeOK(exs[i]),
           NEW n \in Nodes, Keeps(n, exs) \/ Idles(n, exs) \/ Dials(n, exs)
    PROVE  ex' \in [Tasks -> Exchanges] /\ \A i \in Tasks : ExchangeOK(ex'[i])
<1>1. CASE Keeps(n, exs) \/ Idles(n, exs)
  BY <1>1 DEF Keeps, Idles
<1>2. CASE Dials(n, exs)
  <2>1. PICK j \in Tasks, reason \in SyncReason : ex' = [exs EXCEPT ![j] = NewDial(n, reason)]
    BY <1>2, Zenon DEF Dials
  <2>2. NewDial(n, reason) \in Exchanges /\ ExchangeOK(NewDial(n, reason))
    BY NewDialForm
  <2> HIDE DEF NewDial
  <2> QED
    BY <2>1, <2>2, EditedExchanges
<1> QED
  BY <1>1, <1>2

\* The exchanges as they are after the edit of one of them, and after a dial.
ExchangesOK(exs) == exs \in [Tasks -> Exchanges] /\ \A i \in Tasks : ExchangeOK(exs[i])

LEMMA TypeStep ==
    ASSUME TypeOK, TaskInv, StepForm, RestOK
    PROVE  TypeOK' /\ TaskInv'
<1>0. ExchangesOK(ex)
  BY DEF TypeOK, TaskInv, Exchanges, ExchangesOK
<1>1. ASSUME NEW i \in Tasks, NEW g \in Exchanges, ExchangeOK(g)
      PROVE  ExchangesOK([ex EXCEPT ![i] = g])
  BY <1>0, <1>1, EditedExchanges DEF ExchangesOK
<1>2. ExchangesOK(ex') /\ peer' \in [Nodes -> PeerState]
  <2>1. ASSUME NEW n \in Nodes, Triggered(n) PROVE ExchangesOK(ex') /\ peer' \in [Nodes -> PeerState]
    BY <1>0, <2>1, DialsTyped DEF Triggered, SlotOf, ExchangesOK
  <2>2. ASSUME NEW i \in Tasks, Moves(i) PROVE ExchangesOK(ex') /\ peer' \in [Nodes -> PeerState]
    BY <1>1, <2>2, Zenon DEF Moves, TaskMove, TypeOK
  <2>3. ASSUME NEW i \in Tasks, Asked(i) PROVE ExchangesOK(ex') /\ peer' \in [Nodes -> PeerState]
    BY <1>1, <2>3, Zenon DEF Asked, Decided, SlotOf
  <2>4. ASSUME NEW i \in Tasks, DialJoined(i) PROVE ExchangesOK(ex') /\ peer' \in [Nodes -> PeerState]
    <3>1. PICK g \in Exchanges :
            LET n == ex[i].dialer
                exs == [ex EXCEPT ![i] = g]
            IN  /\ n \in Nodes /\ ExchangeOK(g) /\ SlotOf(n)
                /\ Keeps(n, exs) \/ Idles(n, exs) \/ Dials(n, exs)
      BY <2>4 DEF DialJoined, JoinDial
    <3>2. ExchangesOK([ex EXCEPT ![i] = g])
      BY <1>1, <3>1
    <3> QED
      BY <3>1, <3>2, DialsTyped, Zenon DEF SlotOf, ExchangesOK
  <2>5. ASSUME NEW i \in Tasks, AcceptJoined(i) PROVE ExchangesOK(ex') /\ peer' \in [Nodes -> PeerState]
    <3>1. PICK g \in Exchanges :
            LET n == Other(ex[i].dialer)
                exs == [ex EXCEPT ![i] = g]
            IN  /\ n \in Nodes /\ ExchangeOK(g) /\ SlotOf(n)
                /\ Keeps(n, exs) \/ Idles(n, exs) \/ Dials(n, exs)
      BY <2>5 DEF AcceptJoined, JoinAccept
    <3>2. ExchangesOK([ex EXCEPT ![i] = g])
      BY <1>1, <3>1
    <3> QED
      BY <3>1, <3>2, DialsTyped, Zenon DEF SlotOf, ExchangesOK
  <2> QED
    BY <2>1, <2>2, <2>3, <2>4, <2>5 DEF StepForm
<1> QED
  BY <1>2 DEF RestOK, TypeOK, TaskInv, Exchanges, ExchangesOK

-----------------------------------------------------------------------------
(* A running pair has a task                                               *)

\* The exchange ends what node n is marked as being in.
Ends(n, e, st) ==
    /\ st \in SyncReason => e.dialer = n /\ e.reason = st /\ e.a # "joined"
    /\ st = "Accept" => e.dialer = Other(n) /\ e.b \in Engaged

HasTask(n, exs, st) == st = "Idle" \/ \E i \in Tasks : Ends(n, exs[i], st)

LEMMA RunningIsHasTask ==
    ASSUME NEW p \in [Nodes -> PeerState], NEW exs
    PROVE  (\A n \in Nodes : HasTask(n, exs, p[n].state))
           <=> \A n \in Nodes :
                  /\ p[n].state \in SyncReason =>
                        \E i \in Tasks : /\ exs[i].dialer = n
                                         /\ exs[i].reason = p[n].state
                                         /\ exs[i].a # "joined"
                  /\ p[n].state = "Accept" =>
                        \E i \in Tasks : /\ exs[i].dialer = Other(n)
                                         /\ exs[i].b \in {"allowed", "refuseNotFound", "running",
                                                          "closing", "Ok", "Err"}
<1>1. ASSUME NEW n \in Nodes
      PROVE  HasTask(n, exs, p[n].state)
             <=> /\ p[n].state \in SyncReason =>
                        \E i \in Tasks : /\ exs[i].dialer = n
                                         /\ exs[i].reason = p[n].state
                                         /\ exs[i].a # "joined"
                 /\ p[n].state = "Accept" =>
                        \E i \in Tasks : /\ exs[i].dialer = Other(n)
                                         /\ exs[i].b \in Engaged
  <2>1. p[n].state \in SyncReason \cup {"Idle", "Accept"}
    BY DEF PeerState, SyncState
  <2> QED
    BY <2>1 DEF HasTask, Ends, SyncReason
<1> QED
  BY <1>1 DEF Engaged

LEMMA TaskSurvives ==
    ASSUME NEW exs \in [Tasks -> Exchanges], NEW i \in Tasks, NEW g \in Exchanges,
           NEW n \in Nodes, NEW st, HasTask(n, exs, st), Ends(n, exs[i], st) => Ends(n, g, st)
    PROVE  HasTask(n, [exs EXCEPT ![i] = g], st)
  BY DEF HasTask

\* A new dial takes the place of no task.
LEMMA TaskSurvivesDial ==
    ASSUME NEW exs \in [Tasks -> Exchanges], NEW j \in Tasks, exs[j].dialer = 0,
           NEW n \in Nodes, NEW m \in Nodes, NEW reason \in SyncReason,
           NEW st \in SyncState, HasTask(n, exs, st)
    PROVE  HasTask(n, [exs EXCEPT ![j] = NewDial(m, reason)], st)
<1>1. NewDial(m, reason) \in Exchanges
  BY NewDialForm
<1>2. st = "Idle" \/ ~ Ends(n, exs[j], st)
  BY DEF Ends, SyncState, Other, Nodes
<1> HIDE DEF NewDial
<1> QED
  BY <1>1, <1>2, TaskSurvives DEF HasTask

\* Node n handles something, and the exchanges it leaves are exs.
LEMMA HandledHasTask ==
    ASSUME TypeOK, NEW n \in Nodes, NEW exs \in [Tasks -> Exchanges], SlotOf(n),
           \A j \in Tasks : ex[j].dialer = 0 => exs[j].dialer = 0,
           HasTask(Other(n), exs, peer[Other(n)].state),
           \/ Keeps(n, exs) /\ HasTask(n, exs, peer[n].state)
           \/ Idles(n, exs)
           \/ Dials(n, exs)
    PROVE  \A m \in Nodes : HasTask(m, ex', peer'[m].state)
<1>1. Other(n) \in Nodes /\ \A m \in Nodes : m = n \/ m = Other(n)
  BY OtherNode
<1>2. peer'[Other(n)].state = peer[Other(n)].state /\ peer[Other(n)].state \in SyncState
  BY <1>1 DEF SlotOf, TypeOK, PeerState
<1>3. CASE Keeps(n, exs) /\ HasTask(n, exs, peer[n].state)
  BY <1>1, <1>2, <1>3 DEF Keeps
<1>4. CASE Idles(n, exs)
  BY <1>1, <1>2, <1>4, SMTT(30) DEF Idles, HasTask
<1>5. CASE Dials(n, exs)
  <2>1. PICK j \in Tasks, reason \in SyncReason :
          /\ ex[j].dialer = 0
          /\ ex' = [exs EXCEPT ![j] = NewDial(n, reason)]
          /\ peer'[n].state = reason
    BY <1>5, Zenon DEF Dials
  <2>2. HasTask(Other(n), ex', peer'[Other(n)].state)
    BY <1>1, <1>2, <2>1, TaskSurvivesDial, Zenon
  <2>3. ex'[j] = NewDial(n, reason)
    BY <2>1
  <2>4. Ends(n, ex'[j], peer'[n].state)
    <3>1. ex'[j].dialer = n /\ ex'[j].reason = reason /\ ex'[j].a # "joined"
      BY <2>3, NewDialForm
    <3>2. reason # "Accept"
      BY DEF SyncReason
    <3> QED
      BY <2>1, <3>1, <3>2, SMTT(30) DEF Ends
  <2> QED
    BY <1>1, <2>2, <2>4 DEF HasTask
<1> QED
  BY <1>3, <1>4, <1>5

LEMMA RunningStep ==
    ASSUME TypeOK, TaskInv, StepForm,
           \A n \in Nodes : HasTask(n, ex, peer[n].state)
    PROVE  \A n \in Nodes : HasTask(n, ex', peer'[n].state)
<1>0. ex \in [Tasks -> Exchanges] /\ \A i \in Tasks : ExchangeOK(ex[i])
  BY DEF TypeOK, TaskInv, Exchanges
<1>t. \A n \in Nodes : peer[n].state \in SyncState
  BY DEF TypeOK, PeerState
<1>1. ASSUME NEW n \in Nodes, Triggered(n)
      PROVE  \A m \in Nodes : HasTask(m, ex', peer'[m].state)
  <2>1. Other(n) \in Nodes
    BY OtherNode
  <2> QED
    BY <1>0, <1>1, <2>1, HandledHasTask DEF Triggered
<1>2. ASSUME NEW i \in Tasks, Moves(i)
      PROVE  \A m \in Nodes : HasTask(m, ex', peer'[m].state)
  <2>1. PICK f \in Exchanges : ex' = [ex EXCEPT ![i] = f] /\ TaskMove(ex[i], f)
    BY <1>2, Zenon DEF Moves
  <2>2. peer' = peer
    BY <1>2 DEF Moves
  <2>3. ASSUME NEW m \in Nodes PROVE HasTask(m, ex', peer[m].state)
    <3>1. Ends(m, ex[i], peer[m].state) => Ends(m, f, peer[m].state)
      BY <2>1 DEF Ends, TaskMove
    <3> QED
      BY <1>0, <2>1, <3>1, TaskSurvives, ZenonT(30)
  <2> QED
    BY <2>2, <2>3
<1>3. ASSUME NEW i \in Tasks, Asked(i)
      PROVE  \A m \in Nodes : HasTask(m, ex', peer'[m].state)
  <2> DEFINE n == Other(ex[i].dialer)
  <2>1. PICK g \in Exchanges :
          /\ n \in Nodes /\ ex[i].dialer # 0
          /\ ex' = [ex EXCEPT ![i] = g]
          /\ Decided(ex[i], g)
          /\ SlotOf(n)
          /\ \/ g.b \in Engaged /\ peer'[n].state = "Accept"
             \/ peer'[n].state = peer[n].state /\ (ex[i].b \in Engaged => g.b \in Engaged)
    BY <1>3, ZenonT(30) DEF Asked
  <2>2. Other(n) \in Nodes /\ Other(n) # n /\ ex[i].dialer = Other(n) /\ Other(Other(n)) = n
    BY <1>0, <2>1, OtherNode DEF Exchanges, Other, Nodes
  <2>3. g.dialer = ex[i].dialer /\ g.reason = ex[i].reason /\ g.a = ex[i].a
    BY <2>1 DEF Decided
  <2>4. HasTask(Other(n), ex', peer'[Other(n)].state)
    <3>1. Ends(Other(n), ex[i], peer[Other(n)].state) => Ends(Other(n), g, peer[Other(n)].state)
      BY <2>2, <2>3, SMTT(30) DEF Ends
    <3>2. HasTask(Other(n), ex', peer[Other(n)].state)
      BY <1>0, <2>1, <2>2, <3>1, TaskSurvives, ZenonT(30)
    <3> QED
      BY <2>1, <3>2, SMTT(30) DEF SlotOf
  <2>5. HasTask(n, ex', peer'[n].state)
    <3>1. CASE g.b \in Engaged /\ peer'[n].state = "Accept"
      <4>1. Ends(n, g, "Accept")
        BY <2>2, <2>3, <3>1, SMTT(30) DEF Ends, SyncReason
      <4>2. ex'[i] = g
        BY <1>0, <2>1
      <4> QED
        BY <3>1, <4>1, <4>2 DEF HasTask
    <3>2. CASE peer'[n].state = peer[n].state /\ (ex[i].b \in Engaged => g.b \in Engaged)
      <4>1. Ends(n, ex[i], peer[n].state) => Ends(n, g, peer[n].state)
        BY <2>3, <3>2, SMTT(30) DEF Ends
      <4>2. HasTask(n, ex', peer[n].state)
        BY <1>0, <2>1, <4>1, TaskSurvives, Zenon
      <4> QED
        BY <3>2, <4>2, SMTT(30)
    <3> QED
      BY <2>1, <3>1, <3>2
  <2> QED
    BY <2>1, <2>4, <2>5, OtherNode
<1>4. ASSUME NEW i \in Tasks, DialJoined(i)
      PROVE  \A m \in Nodes : HasTask(m, ex', peer'[m].state)
  <2> DEFINE n == ex[i].dialer
  <2>1. PICK g \in Exchanges :
          /\ n \in Nodes /\ JoinDial(ex[i], g) /\ SlotOf(n)
          /\ \/ Keeps(n, [ex EXCEPT ![i] = g]) /\ peer[n].state # ex[i].reason
             \/ Idles(n, [ex EXCEPT ![i] = g])
             \/ Dials(n, [ex EXCEPT ![i] = g])
    BY <1>4 DEF DialJoined
  <2> DEFINE exs == [ex EXCEPT ![i] = g]
  <2>2. exs \in [Tasks -> Exchanges] /\ \A j \in Tasks : ex[j].dialer = 0 => exs[j].dialer = 0
    BY <1>0, <2>1 DEF Nodes
  <2>3. Other(n) \in Nodes /\ Other(n) # n /\ Other(Other(n)) = n
    BY <2>1, OtherNode DEF Other, Nodes
  <2>4. Ends(Other(n), ex[i], peer[Other(n)].state) =>
          peer[Other(n)].state = "Idle" \/ Ends(Other(n), g, peer[Other(n)].state)
    BY <1>t, <2>1, <2>3, SMTT(30) DEF Ends, JoinDial, SyncState
  <2>5. HasTask(Other(n), exs, peer[Other(n)].state)
    BY <1>0, <2>3, <2>4, TaskSurvives, SMTT(30) DEF HasTask
  <2>6. peer[n].state # ex[i].reason => HasTask(n, exs, peer[n].state)
    <3>1. ASSUME peer[n].state # ex[i].reason, Ends(n, ex[i], peer[n].state)
          PROVE  peer[n].state = "Idle"
      BY <1>t, <2>1, <2>3, <3>1, SMTT(30) DEF Ends, SyncState
    <3> QED
      BY <1>0, <2>1, <3>1, TaskSurvives DEF HasTask
  <2> HIDE DEF exs
  <2> QED
    BY <2>1, <2>2, <2>5, <2>6, HandledHasTask, ZenonT(30) DEF exs
<1>5. ASSUME NEW i \in Tasks, AcceptJoined(i)
      PROVE  \A m \in Nodes : HasTask(m, ex', peer'[m].state)
  <2> DEFINE n == Other(ex[i].dialer)
  <2>1. PICK g \in Exchanges :
          /\ n \in Nodes /\ ex[i].dialer # 0 /\ JoinAccept(ex[i], g) /\ SlotOf(n)
          /\ \/ Keeps(n, [ex EXCEPT ![i] = g]) /\ ex[i].b \notin Engaged
             \/ Idles(n, [ex EXCEPT ![i] = g])
             \/ Dials(n, [ex EXCEPT ![i] = g])
    BY <1>5 DEF AcceptJoined
  <2> DEFINE exs == [ex EXCEPT ![i] = g]
  <2>2. exs \in [Tasks -> Exchanges] /\ \A j \in Tasks : ex[j].dialer = 0 => exs[j].dialer = 0
    BY <1>0, <2>1
  <2>3. Other(n) \in Nodes /\ Other(n) # n /\ ex[i].dialer = Other(n) /\ Other(Other(n)) = n
    BY <1>0, <2>1, OtherNode, SMTT(30) DEF Exchanges, Other, Nodes
  <2>4. Ends(Other(n), ex[i], peer[Other(n)].state) =>
          peer[Other(n)].state = "Idle" \/ Ends(Other(n), g, peer[Other(n)].state)
    BY <1>t, <2>1, <2>3, SMTT(30) DEF Ends, JoinAccept, SyncState
  <2>5. HasTask(Other(n), exs, peer[Other(n)].state)
    BY <1>0, <2>3, <2>4, TaskSurvives, SMTT(30) DEF HasTask
  <2>6. ex[i].b \notin Engaged => HasTask(n, exs, peer[n].state)
    <3>1. ASSUME ex[i].b \notin Engaged, Ends(n, ex[i], peer[n].state)
          PROVE  peer[n].state = "Idle"
      BY <1>t, <2>1, <2>3, <3>1 DEF Ends, SyncState
    <3> QED
      BY <1>0, <2>1, <3>1, TaskSurvives, ZenonT(30) DEF HasTask
  <2> HIDE DEF exs
  <2> QED
    BY <2>1, <2>2, <2>5, <2>6, HandledHasTask, ZenonT(30) DEF exs
<1> QED
  BY <1>1, <1>2, <1>3, <1>4, <1>5 DEF StepForm

-----------------------------------------------------------------------------
(* One exchange at a time                                                  *)

\* At most one of the exchanges has the slot of node 1, which is marked with it.
Sole(exs, st) ==
    /\ \A i \in Tasks : exs[i].asked => exs[i].b = "asking"
    /\ \A i \in Tasks : Holds(exs[i]) =>
          st = IF exs[i].dialer = 1 THEN exs[i].reason ELSE "Accept"
    /\ \A i, j \in Tasks : Holds(exs[i]) /\ Holds(exs[j]) => i = j

LEMMA SoleEdit ==
    ASSUME NEW exs \in [Tasks -> Exchanges], NEW st, Sole(exs, st),
           NEW i \in Tasks, NEW g \in Exchanges,
           g.asked => g.b = "asking",
           Holds(g) => Holds(exs[i]) /\ g.dialer = exs[i].dialer /\ g.reason = exs[i].reason
    PROVE  Sole([exs EXCEPT ![i] = g], st)
  BY DEF Sole

\* The slot is empty, and one exchange takes it.
LEMMA SoleTaken ==
    ASSUME NEW exs \in [Tasks -> Exchanges], NEW st, Sole(exs, st),
           \A k \in Tasks : ~ Holds(exs[k]),
           NEW i \in Tasks, NEW g \in Exchanges,
           g.asked => g.b = "asking",
           NEW ns, Holds(g) => ns = IF g.dialer = 1 THEN g.reason ELSE "Accept"
    PROVE  Sole([exs EXCEPT ![i] = g], ns)
  BY DEF Sole

LEMMA SoleHandled ==
    ASSUME TypeOK, NEW n \in Nodes, NEW exs \in [Tasks -> Exchanges], SlotOf(n),
           Sole(exs, peer[1].state),
           \A j \in Tasks : ex[j].dialer = 0 => exs[j].dialer = 0,
           \/ Keeps(n, exs)
           \/ /\ n = 1 => \A k \in Tasks : ~ Holds(exs[k])
              /\ Idles(n, exs) \/ Dials(n, exs)
    PROVE  Sole(ex', peer'[1].state)
<1>1. n # 1 => peer'[1] = peer[1]
  BY DEF SlotOf, Nodes, Other
<1>2. CASE Keeps(n, exs)
  BY <1>1, <1>2 DEF Keeps
<1>3. CASE (n = 1 => \A k \in Tasks : ~ Holds(exs[k])) /\ Idles(n, exs)
  BY <1>1, <1>3 DEF Idles, Sole
<1>4. CASE (n = 1 => \A k \in Tasks : ~ Holds(exs[k])) /\ Dials(n, exs)
  <2>1. PICK j \in Tasks, reason \in SyncReason :
          /\ ex[j].dialer = 0
          /\ ex' = [exs EXCEPT ![j] = NewDial(n, reason)]
          /\ peer'[n].state = reason
    BY <1>4, Zenon DEF Dials
  <2> DEFINE g == NewDial(n, reason)
  <2>2. g \in Exchanges /\ g.dialer = n /\ g.reason = reason /\ g.b = "none" /\ ~ g.asked
    BY NewDialForm
  <2> HIDE DEF g
  <2>3. CASE n = 1
    BY <1>4, <2>1, <2>2, <2>3, SoleTaken, Zenon DEF g
  <2>4. CASE n # 1
    <3>1. ~ Holds(g)
      BY <2>2, <2>4 DEF Holds, Engaged
    <3> QED
      BY <1>1, <2>1, <2>2, <2>4, <3>1, SoleEdit, Zenon DEF g
  <2> QED
    BY <2>3, <2>4, SMTT(30)
<1> QED
  BY <1>2, <1>3, <1>4, SMTT(30)

\* An idle slot is held by nobody.
LEMMA IdleIsFree ==
    ASSUME TypeOK, Sole(ex, "Idle")
    PROVE  \A k \in Tasks : ~ Holds(ex[k])
<1>1. \A k \in Tasks : ex[k].reason # "Idle"
  BY DEF TypeOK, SyncReason
<1> QED
  BY <1>1 DEF Sole

LEMMA SoleStep ==
    ASSUME TypeOK, TaskInv, StepForm, \A n \in Nodes : syncing[n],
           leaves' = 0, faults' = faults, Sole(ex, peer[1].state)
    PROVE  Sole(ex', peer'[1].state)
<1>0. ex \in [Tasks -> Exchanges] /\ \A i \in Tasks : ExchangeOK(ex[i])
  BY SMTT(30) DEF TypeOK, TaskInv, Exchanges
<1>1. ASSUME NEW n \in Nodes, Triggered(n) PROVE Sole(ex', peer'[1].state)
  <2>1. n = 1 /\ peer[n].state = "Idle" => \A k \in Tasks : ~ Holds(ex[k])
    BY IdleIsFree
  <2> QED
    BY <1>0, <1>1, <2>1, SoleHandled, SMTT(30) DEF Triggered
<1>2. ASSUME NEW i \in Tasks, Moves(i) PROVE Sole(ex', peer'[1].state)
  <2>1. PICK f \in Exchanges : /\ ex' = [ex EXCEPT ![i] = f]
                               /\ TaskMove(ex[i], f) /\ SoundMove(ex[i], f)
    BY <1>2, Zenon DEF Moves
  <2>2. peer' = peer
    BY <1>2 DEF Moves
  <2>3. Holds(f) => Holds(ex[i]) /\ f.dialer = ex[i].dialer /\ f.reason = ex[i].reason
    BY <2>1 DEF TaskMove, SoundMove, Holds
  <2>4. f.asked => f.b = "asking"
    BY <2>1 DEF SoundMove, Sole
  <2> QED
    BY <1>0, <2>1, <2>2, <2>3, <2>4, SoleEdit, Zenon
<1>3. ASSUME NEW i \in Tasks, Asked(i) PROVE Sole(ex', peer'[1].state)
  <2> DEFINE n == Other(ex[i].dialer)
  <2>1. PICK g \in Exchanges :
          /\ n \in Nodes /\ ex[i].dialer # 0 /\ ex[i].asked
          /\ ex' = [ex EXCEPT ![i] = g]
          /\ Decided(ex[i], g)
          /\ SlotOf(n)
          /\ \/ Allows(n, peer[n]) /\ peer'[n].state = "Accept"
             \/ /\ peer'[n].state = peer[n].state
                /\ g.b \in Engaged => ex[i].b \in Engaged
    BY <1>3, Zenon DEF Asked
  <2>2. ex[i].dialer \in {1, 2} /\ (n = 1 <=> ex[i].dialer = 2)
    <3>1. ex[i].dialer \in {1, 2}
      BY <1>0, <2>1, SMTT(30) DEF Exchanges, Nodes
    <3> QED
      BY <3>1 DEF Other
  <2>3. /\ g.dialer = ex[i].dialer /\ g.reason = ex[i].reason /\ g.a = ex[i].a /\ ~ g.asked
        /\ ex[i].b \notin Engaged
    BY <2>1 DEF Decided, Sole, Engaged
  <2>4. CASE n = 1
    <3>1. CASE Allows(n, peer[n]) /\ peer'[n].state = "Accept"
      <4>1. peer[1].state = "Idle"
        BY <2>4, <3>1 DEF Allows, expected_sync_direction, Other
      <4>2. \A k \in Tasks : ~ Holds(ex[k])
        BY <4>1, IdleIsFree
      <4>3. g.dialer = 2
        BY <2>2, <2>3, <2>4
      <4>4. peer'[1].state = IF g.dialer = 1 THEN g.reason ELSE "Accept"
        BY <2>4, <3>1, <4>3, SMTT(30)
      <4>5. Sole([ex EXCEPT ![i] = g], peer'[1].state)
        BY <1>0, <2>3, <4>2, <4>4, SoleTaken, Zenon
      <4> QED
        BY <2>1, <4>5
    <3>2. CASE peer'[n].state = peer[n].state /\ (g.b \in Engaged => ex[i].b \in Engaged)
      <4>1. ~ Holds(g)
        <5>1. g.dialer = 2 /\ g.b \notin Engaged
          BY <2>2, <2>3, <2>4, <3>2, SMTT(30)
        <5> QED
          BY <5>1 DEF Holds
      <4> QED
        BY <1>0, <2>1, <2>3, <2>4, <3>2, <4>1, SoleEdit, Zenon
    <3> QED
      BY <2>1, <3>1, <3>2
  <2>5. CASE n # 1
    <3>1. peer'[1] = peer[1]
      BY <2>1, <2>5 DEF SlotOf, Nodes, Other
    <3>2. Holds(g) => Holds(ex[i])
      BY <2>2, <2>3, <2>5 DEF Holds
    <3> QED
      BY <1>0, <2>1, <2>3, <3>1, <3>2, SoleEdit, Zenon
  <2> QED
    BY <2>4, <2>5, SMTT(30)
<1>4. ASSUME NEW i \in Tasks, DialJoined(i) PROVE Sole(ex', peer'[1].state)
  <2> DEFINE n == ex[i].dialer
  <2>1. PICK g \in Exchanges :
          /\ n \in Nodes /\ ex[i].a # "joined" /\ JoinDial(ex[i], g) /\ SlotOf(n)
          /\ \/ Keeps(n, [ex EXCEPT ![i] = g])
             \/ Idles(n, [ex EXCEPT ![i] = g]) \/ Dials(n, [ex EXCEPT ![i] = g])
    BY <1>4 DEF DialJoined
  <2> DEFINE exs == [ex EXCEPT ![i] = g]
  <2>2. exs \in [Tasks -> Exchanges] /\ \A j \in Tasks : ex[j].dialer = 0 => exs[j].dialer = 0
    BY <1>0, <2>1 DEF Nodes
  <2>3. Free.b = "none" /\ ~ Free.asked /\ ~ Holds(Free)
    BY FreeExchange DEF Free
  <2>4. /\ g.asked => g.b = "asking"
        /\ n = 1 => ~ Holds(g)
        /\ Holds(g) => Holds(ex[i]) /\ g.dialer = ex[i].dialer /\ g.reason = ex[i].reason
    <3>1. CASE g = Free
      BY <2>3, <3>1
    <3>2. CASE g # Free
      <4>1. /\ g.a = "joined" /\ g.dialer = ex[i].dialer /\ g.reason = ex[i].reason
            /\ g.b = ex[i].b /\ g.asked = ex[i].asked
        BY <2>1, <3>2 DEF JoinDial
      <4>2. g.asked => g.b = "asking"
        BY <4>1, Zenon DEF Sole
      <4> QED
        BY <4>1, <4>2 DEF Holds
    <3> QED
      BY <3>1, <3>2
  <2>5. Sole(exs, peer[1].state)
    BY <1>0, <2>1, <2>4, SoleEdit, Zenon
  <2>6. n = 1 => \A k \in Tasks : ~ Holds(exs[k])
    <3>1. n = 1 => Holds(ex[i])
      BY <2>1, SMTT(30) DEF Holds
    <3> QED
      BY <1>0, <2>4, <3>1 DEF Sole
  <2> HIDE DEF exs
  <2> QED
    BY <2>1, <2>2, <2>5, <2>6, SoleHandled, ZenonT(30) DEF exs
<1>5. ASSUME NEW i \in Tasks, AcceptJoined(i) PROVE Sole(ex', peer'[1].state)
  <2> DEFINE n == Other(ex[i].dialer)
  <2>1. PICK g \in Exchanges :
          /\ n \in Nodes /\ ex[i].dialer # 0 /\ JoinAccept(ex[i], g) /\ SlotOf(n)
          /\ \/ Keeps(n, [ex EXCEPT ![i] = g])
             \/ /\ ex[i].b \in Engaged
                /\ Idles(n, [ex EXCEPT ![i] = g]) \/ Dials(n, [ex EXCEPT ![i] = g])
    BY <1>5 DEF AcceptJoined
  <2> DEFINE exs == [ex EXCEPT ![i] = g]
  <2>2. exs \in [Tasks -> Exchanges] /\ \A j \in Tasks : ex[j].dialer = 0 => exs[j].dialer = 0
    BY <1>0, <2>1
  <2>3. ex[i].dialer \in {1, 2} /\ (n = 1 <=> ex[i].dialer = 2) /\ ~ Holds(Free)
    BY <1>0, <2>1, FreeExchange DEF Exchanges, Other, Nodes
  <2>4. /\ ~ g.asked
        /\ n = 1 => ~ Holds(g)
        /\ Holds(g) => Holds(ex[i]) /\ g.dialer = ex[i].dialer /\ g.reason = ex[i].reason
    BY <2>1, <2>3 DEF JoinAccept, Holds
  <2>5. Sole(exs, peer[1].state)
    BY <1>0, <2>1, <2>4, SoleEdit, Zenon
  <2>6. n = 1 /\ ex[i].b \in Engaged => \A k \in Tasks : ~ Holds(exs[k])
    <3>1. n = 1 /\ ex[i].b \in Engaged => Holds(ex[i])
      BY <2>3 DEF Holds
    <3> QED
      BY <1>0, <2>4, <3>1 DEF Sole
  <2> HIDE DEF exs
  <2> QED
    BY <2>1, <2>2, <2>5, <2>6, SoleHandled, Zenon DEF exs
<1> QED
  BY <1>1, <1>2, <1>3, <1>4, <1>5 DEF StepForm

-----------------------------------------------------------------------------
(* The theorems                                                            *)

LEMMA LiveInit == Init => LiveInv
<1> SUFFICES ASSUME Init PROVE LiveInv
  OBVIOUS
<1>1. \A i \in Tasks : ex[i] = Free
  BY DEF Init
<1>2. \A n \in Nodes : peer[n].state = "Idle" /\ syncing[n]
  BY DEF Init, DefaultPeer
<1>3. TypeOK
  <2>1. DefaultPeer \in PeerState
    BY DEF DefaultPeer, PeerState, SyncState
  <2>2. Free \in Exchanges /\ {MaxHead, MaxLeaves, MaxFaults} \subseteq Nat
    BY FreeExchange, LiveAssumption
  <2> QED
    BY <2>1, <2>2 DEF Init, TypeOK, Exchanges
<1>4. TaskInv
  BY <1>1, <1>2, FreeExchange DEF TaskInv
<1>5. RunningHasATask
  BY <1>2 DEF RunningHasATask, SyncReason
<1>6. SoleInv
  BY <1>1, <1>2, FreeExchange DEF SoleInv, Free
<1> QED
  BY <1>3, <1>4, <1>5, <1>6 DEF LiveInv

LEMMA LiveStep == LiveInv /\ [Next]_vars => LiveInv'
<1> SUFFICES ASSUME LiveInv, [Next]_vars PROVE LiveInv'
  OBVIOUS
<1>0. TypeOK /\ TaskInv /\ RunningHasATask /\ SoleInv
  BY DEF LiveInv
<1>1. CASE Next
  <2>1. StepForm /\ RestOK
    BY <1>0, <1>1, NextForm
  <2>2. TypeOK' /\ TaskInv'
    BY <1>0, <2>1, TypeStep
  <2>3. peer \in [Nodes -> PeerState] /\ peer' \in [Nodes -> PeerState]
    BY <1>0, <2>2, SMTT(30) DEF TypeOK
  <2>4. RunningHasATask'
    <3>1. \A n \in Nodes : HasTask(n, ex, peer[n].state)
      BY <1>0, <2>3, RunningIsHasTask, Zenon DEF RunningHasATask
    <3>2. \A n \in Nodes : HasTask(n, ex', peer'[n].state)
      BY <1>0, <2>1, <3>1, RunningStep
    <3> QED
      BY <2>3, <3>2, RunningIsHasTask, Zenon DEF RunningHasATask
  <2>5. SoleInv'
    <3> SUFFICES ASSUME leaves' = 0, faults' = 0
                 PROVE  (\A n \in Nodes : syncing'[n]) /\ Sole(ex', peer'[1].state)
      BY DEF SoleInv, Sole
    <3>1. leaves = 0 /\ faults = 0
      BY <1>0, <2>1, LiveAssumption, SMTT(30) DEF RestOK, TypeOK
    <3>2. (\A n \in Nodes : syncing[n]) /\ Sole(ex, peer[1].state)
      BY <1>0, <3>1 DEF SoleInv, Sole
    <3>3. \A n \in Nodes : syncing'[n]
      BY <2>1, <3>2 DEF RestOK
    <3> QED
      BY <1>0, <2>1, <3>1, <3>2, <3>3, SoleStep, SMTT(30)
  <2> QED
    BY <2>2, <2>4, <2>5 DEF LiveInv
<1>2. CASE UNCHANGED vars
  <2>1. TypeOK'
    BY <1>0, <1>2, SMTT(30) DEF vars, TypeOK
  <2>2. TaskInv'
    BY <1>0, <1>2, SMTT(30) DEF vars, TaskInv
  <2>3. RunningHasATask'
    BY <1>0, <1>2 DEF vars, RunningHasATask
  <2>4. SoleInv'
    BY <1>0, <1>2 DEF vars, SoleInv
  <2> QED
    BY <2>1, <2>2, <2>3, <2>4 DEF LiveInv
<1> QED
  BY <1>1, <1>2

LEMMA LiveHolds == Spec => []LiveInv
  BY LiveInit, LiveStep, PTL DEF Spec

\* The per-pair state and the exchanges stay in their types.
THEOREM LiveTypeCorrect == Spec => []TypeOK
<1>1. LiveInv => TypeOK
  BY DEF LiveInv
<1> QED
  BY <1>1, LiveHolds, PTL

\* A pair that is marked running has a task that will end it, however the two
\* actors' handlers, leaves, refusals, failures and timeouts interleave, for any
\* number of exchanges: what idles a pair and what joins its last task are one
\* handler (live.rs:581).
THEOREM PairHasATask == Spec => []RunningHasATask
<1>1. LiveInv => RunningHasATask
  BY DEF LiveInv
<1> QED
  BY <1>1, LiveHolds, PTL

\* A dial that reports success went through the exchange, wherever its acceptor
\* left, failed, refused or lost the connection after the Init: an error puts a
\* terminal frame into the stream before its end (codec.rs:257).  Only an acceptor
\* its timeout dropped (net.rs:224) says nothing.  It rests on WireOK.
THEOREM OkMeansExchanged == Spec => []OkDialExchanged
<1>1. LiveInv => OkDialExchanged
  BY DEF LiveInv, TaskInv, ExchangeOK, WireOK, OkDialExchanged
<1> QED
  BY <1>1, LiveHolds, PTL

\* With both nodes in the sync set and no failures the pair transfers one exchange
\* at a time, however many are dialed: the tie-break of state.rs.
THEOREM OneTransferAtATime == Spec => []OneExchangeAtATime
<1>1. LiveInv => OneExchangeAtATime
  <2> SUFFICES ASSUME LiveInv, leaves = 0, faults = 0
               PROVE  Cardinality({i \in Tasks : ex[i].a = "running" /\ ex[i].b = "running"}) <= 1
    BY DEF OneExchangeAtATime
  <2> DEFINE S == {i \in Tasks : ex[i].a = "running" /\ ex[i].b = "running"}
  <2>1. \A i \in S : Holds(ex[i])
    <3> SUFFICES ASSUME NEW i \in S PROVE Holds(ex[i])
      OBVIOUS
    <3>1. ex[i] \in Exchanges /\ ExchangeOK(ex[i]) /\ ex[i].a = "running" /\ ex[i].b = "running"
      BY TypedExchanges DEF LiveInv
    <3>2. ex[i].dialer \in {1, 2}
      BY <3>1, NotFree DEF Nodes
    <3> QED
      BY <3>1, <3>2 DEF Holds, Engaged
  <2>2. \A i, j \in S : i = j
    BY <2>1 DEF LiveInv, SoleInv
  <2> HIDE DEF S
  <2>3. S = {} \/ \E i \in S : S = {i}
    BY <2>2
  <2>4. Cardinality(S) <= 1
    BY <2>3, FS_EmptySet, FS_Singleton
  <2> QED
    BY <2>4 DEF S
<1> QED
  BY <1>1, LiveHolds, PTL
=============================================================================
