--------------------------------- MODULE Upkeep ---------------------------------
(***************************************************************************)
(* Instances of what the daemon does in a pass beside merging and          *)
(* dispatching: it reads the workers' reports, looks entries up and lets   *)
(* them go, reviews the board, watches the health of repositories and the  *)
(* pull requests of others.  They share no state here, so that a behaviour *)
(* is one of any of them: `part` names it, and the others stay as they     *)
(* begin.                                                                  *)
(***************************************************************************)
EXTENDS Inbox, Reach, Review, Watch

VARIABLE part

upkeepVars == <<vars, reachVars, reviewVars, watchVars, part>>

UpkeepInit ==
    /\ part \in {"inbox", "reach", "review", "health", "pulls"}
    /\ Init /\ ReachInit /\ ReviewInit /\ WatchInit
    /\ part # "reach" => under
    /\ part # "health" => installed

UpkeepNext ==
    /\ \/ part = "inbox" /\ Next /\ UNCHANGED <<reachVars, reviewVars, watchVars>>
       \/ part = "reach" /\ ReachStep /\ UNCHANGED <<vars, reviewVars, watchVars>>
       \/ part = "review" /\ ReviewStep /\ UNCHANGED <<vars, reachVars, watchVars>>
       \/ part = "health" /\ HealthStep /\ UNCHANGED <<vars, reachVars, reviewVars>>
       \/ part = "pulls" /\ PullStep /\ UNCHANGED <<vars, reachVars, reviewVars>>
       \/ part # "inbox" /\ UNCHANGED upkeepVars      \* their bounds may stop them
    /\ UNCHANGED part

(* The fairness of each part, in the behaviours that are its own.          *)
UpkeepSpec ==
    /\ UpkeepInit /\ [][UpkeepNext]_upkeepVars
    /\ WF_vars(part = "inbox" /\ DaemonStep)
    /\ WF_reachVars(part = "reach" /\ ReachPass)
    /\ WF_reviewVars(part = "review" /\ Ticks)
    /\ WF_reviewVars(part = "review" /\ SessionEnds)
    /\ WF_watchVars(part = "health" /\ Watches)
    /\ WF_watchVars(part = "health" /\ IntervalPasses)
    /\ WF_watchVars(part = "pulls" /\ ListsPulls)
    /\ WF_watchVars(part = "pulls" /\ ListAges)

=============================================================================
