---------------------------------- MODULE Desk ----------------------------------
(***************************************************************************)
(* Instances of the parts an operator sees exceptions through: their       *)
(* triage, the inbox, and the advice beside a row.  They share no state    *)
(* here, so that a behaviour is one of any of them: `part` names it, and   *)
(* the others stay as they begin.                                          *)
(***************************************************************************)
EXTENDS Triage, Board, Remedy

VARIABLE part

deskVars == <<vars, boardVars, remedyVars, part>>

DeskInit ==
    /\ part \in {"triage", "board", "remedy"}
    /\ Init /\ BoardInit /\ RemedyInit
    /\ part # "remedy" => reason.core = "" /\ parked = "no" /\ ~live

DeskNext ==
    /\ \/ part = "triage" /\ Next /\ UNCHANGED <<boardVars, remedyVars>>
       \/ part = "board" /\ BoardStep /\ UNCHANGED <<vars, remedyVars>>
       \/ part = "remedy" /\ RemedyStep /\ UNCHANGED <<vars, boardVars>>
       \/ part # "triage" /\ UNCHANGED deskVars       \* their bounds may stop them
    /\ UNCHANGED part

(* The fairness of each part, in the behaviours that are its own.          *)
DeskSpec ==
    /\ DeskInit /\ [][DeskNext]_deskVars
    /\ WF_pc(part = "triage" /\ PassOrRestart)
    /\ WF_session(part = "triage" /\ SessionStep)
    /\ WF_boardVars(part = "board" /\ Schedules)
    /\ WF_boardVars(part = "board" /\ Captures)
    /\ WF_boardVars(part = "board" /\ BoardIngests)

-----------------------------------------------------------------------------
(* Properties *)

(* Nothing raised is lost between the two: a case that was queued is       *)
(* settled in the end, and an escalation that nobody dismissed is shown.   *)
DeskClears == EveryCaseSettled /\ EscalationsSurface

=============================================================================
