--------------------------------- MODULE Sessions ---------------------------------
(***************************************************************************)
(* Instances of what becomes of an agent: how it is started (Launch), how  *)
(* it lands and is cleaned up (Landing), and what its tmux session is      *)
(* shown to be at (Status).  They share no state here, so that a behaviour *)
(* is one of one of them: `part` names it, and the others stay as they     *)
(* begin.                                                                  *)
(***************************************************************************)
EXTENDS Landing, Launch, Status

VARIABLE part

sessionsVars == <<vars, launchVars, statusVars, part>>

SessionsInit ==
    /\ part \in {"landing", "launch", "status"}
    /\ Init /\ LaunchInit /\ StatusInit
    /\ part # "status" => which = "worker" /\ pane.alive
    /\ part # "launch" => oneRepo /\ \A a \in Namesakes : stage[a] = "new"

SessionsNext ==
    /\ \/ part = "landing" /\ Next /\ UNCHANGED <<launchVars, statusVars>>
       \/ part = "launch" /\ LaunchStep /\ UNCHANGED <<vars, statusVars>>
       \/ part = "status" /\ StatusStep /\ UNCHANGED <<vars, launchVars>>
    /\ UNCHANGED part

Lands(step) == part = "landing" /\ step
Shows(step) == part = "status" /\ step

(* The fairness of each part (FairSpec, StatusFairness), in the behaviours *)
(* that are its own.  A launch is under none.                              *)
SessionsSpec ==
    /\ SessionsInit /\ [][SessionsNext]_sessionsVars
    /\ \A x \in Actors : WF_vars(Lands(Step(x)))
    /\ WF_vars(Lands(LeaveUi)) /\ WF_vars(Lands(LeaveMcp))
    /\ WF_vars(Lands(Pass)) /\ WF_vars(Lands(\E a \in Agents : Reap(a)))
    /\ WF_statusVars(Shows(Second)) /\ WF_statusVars(Shows(Schedule))
    /\ WF_statusVars(Shows(CaptureStep))

================================================================================
