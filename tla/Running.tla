--------------------------------- MODULE Running ---------------------------------
(***************************************************************************)
(* The daemon that looks at a pull request (Gate) and the daemon as a      *)
(* process (Service).  They share no state, so that a behaviour is one of  *)
(* either: `part` names it, and the other stays as it begins.              *)
(***************************************************************************)
EXTENDS Gate, Service

VARIABLE part

runningVars == <<vars, serviceVars, part>>

RunningInit ==
    /\ part \in {"look", "service"}
    /\ ServiceInit
    /\ IF part = "look" THEN Init ELSE Opens([NewEntry EXCEPT !.phase = "merged"])
    /\ part # "service" => ~launchd.plist
    /\ part # "look" => refused = {} /\ pr.rollup = <<>>

Looking(step) == part = "look" /\ step /\ UNCHANGED <<serviceVars, part>>
Serving(step) == part = "service" /\ step /\ UNCHANGED <<vars, part>>

RunningNext == Looking(Next) \/ Serving(ServiceStep)

(* The fairness of each part, in the behaviours that are its own: none is  *)
(* of both, so that a condition may serve the two.                         *)
RunningSpec ==
    /\ RunningInit /\ [][RunningNext]_runningVars
    /\ WF_runningVars(Looking(PassStep) \/ Serving(OwnerRuns))
    /\ SF_runningVars(Looking(Tick) \/ Serving(ShutsDown))
    /\ WF_runningVars(Serving(OthersRun))
    /\ WF_runningVars(Serving(LaunchdActs))
    /\ \A c \in Callers : WF_runningVars(Serving(Advances(c)))

==============================================================================
