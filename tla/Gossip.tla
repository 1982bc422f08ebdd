------------------------------- MODULE Gossip -------------------------------
(***************************************************************************)
(* GossipState for one document's topic: the entry in the active map, and  *)
(* the receive loops in the join set.                                      *)
(*                                                                         *)
(*   active  the receive loop the topic's ActiveState holds the abort      *)
(*           handle of; 0 when the topic has no entry                      *)
(*   task    where each receive loop is: an ended loop stays in the join   *)
(*           set, as "finished" or "cancelled", until progress reaps it    *)
(* History: disowned, progress has removed the entry of a loop that ran.   *)
(***************************************************************************)
EXTENDS Naturals

CONSTANT MaxTasks   \* bound on the receive loops ever spawned

ASSUME GossipAssumption == MaxTasks \in Nat

VARIABLES active, task, disowned

gossipVars == <<active, task, disowned>>

Tasks == 1 .. MaxTasks

TaskStates == {"unused", "running", "aborting", "finished", "cancelled", "reaped"}

GossipTypeOK == /\ active \in Tasks \cup {0}
                /\ task \in [Tasks -> TaskStates]
                /\ disowned \in BOOLEAN

GossipInit == active = 0 /\ task = [t \in Tasks |-> "unused"] /\ disowned = FALSE

\* join of a topic that has no entry spawns a receive loop; of one that has, it
\* adds peers.
join == IF active # 0
        THEN UNCHANGED gossipVars
        ELSE \E t \in Tasks :
                 /\ task[t] = "unused"
                 /\ \A u \in 1 .. t - 1 : task[u] # "unused"
                 /\ task' = [task EXCEPT ![t] = "running"]
                 /\ active' = t
                 /\ UNCHANGED disowned

\* quit, and the drain in shutdown.  Aborting a loop that has ended does nothing.
quit == /\ active' = 0
        /\ task' = [t \in Tasks |-> IF t = active /\ task[t] = "running"
                                    THEN "aborting" ELSE task[t]]
        /\ UNCHANGED disowned

\* The stream of a topic ends, or a message cannot be decoded; a loop that is
\* being polled while it is aborted may still get there first.
LoopEnds(t) == /\ task[t] \in {"running", "aborting"}
               /\ task' = [task EXCEPT ![t] = "finished"]
               /\ UNCHANGED <<active, disowned>>

LoopCancelled(t) == /\ task[t] = "aborting"
                    /\ task' = [task EXCEPT ![t] = "cancelled"]
                    /\ UNCHANGED <<active, disowned>>

\* progress joins one loop.  The result of a finished one carries the topic only,
\* and the topic's entry goes, whichever loop it belongs to.
progress(t) ==
    /\ task[t] \in {"finished", "cancelled"}
    /\ task' = [task EXCEPT ![t] = "reaped"]
    /\ active' = IF task[t] = "finished" THEN 0 ELSE active
    /\ disowned' = (disowned \/ (active' = 0 /\ \E u \in Tasks : u = active /\ task[u] = "running"))

AllReaped == \A t \in Tasks : task[t] \in {"unused", "reaped"}
=============================================================================
