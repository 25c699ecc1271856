-------------------------------- MODULE Tasking --------------------------------
(***************************************************************************)
(* Instances of the ways a worker comes to a task, and of the screen that  *)
(* shows both: the daemon's dispatch and anybody's request (Dispatch), the *)
(* UI's own task list (TaskList) and its project tree (Screen).  They      *)
(* share no state here, so that a behaviour is one of any of them: `part`  *)
(* names it, and the others stay as they begin.                            *)
(***************************************************************************)
EXTENDS Dispatch, TaskList, Screen

CONSTANTS p, q      \* two local repositories

MCNames == <<p, q>>

VARIABLE part

taskingVars == <<vars, taskVars, screenVars, part>>

TaskingInit ==
    /\ part \in {"dispatch", "tasks", "screen"}
    /\ Init /\ TaskListInit /\ ScreenInit
    /\ part # "dispatch" => worker[1].state = "none"
    /\ part # "tasks" => parents = {}
    /\ part # "screen" => overseer = [shown |-> FALSE, alert |-> FALSE]

TaskingNext ==
    /\ \/ part = "dispatch" /\ Next /\ UNCHANGED <<taskVars, screenVars>>
       \/ part = "tasks" /\ TaskListStep /\ UNCHANGED <<vars, screenVars>>
       \/ part = "screen" /\ ScreenStep /\ UNCHANGED <<vars, taskVars>>
       \/ part # "dispatch" /\ UNCHANGED taskingVars    \* their bounds may stop them
    /\ UNCHANGED part

(* The fairness of each part, in the behaviours that are its own.          *)
TaskingSpec ==
    /\ TaskingInit /\ [][TaskingNext]_taskingVars
    /\ WF_vars(part = "dispatch" /\ Start) /\ WF_vars(part = "dispatch" /\ Pass)
    /\ WF_taskVars(part = "tasks" /\ CurrentStep)
    /\ WF_taskVars(part = "tasks" /\ TaskRefreshes)
    /\ WF_taskVars(part = "tasks" /\ RefreshesLate)
    /\ \A h \in Threads : /\ WF_taskVars(part = "tasks" /\ ThreadStep(h))
                          /\ WF_taskVars(part = "tasks" /\ Drains(h))

-----------------------------------------------------------------------------

(* Once the board is left alone the pane comes to show it.                 *)
PaneCatchesUp == (part = "tasks") => ListCatchesUp

=============================================================================
