-------------------------------- MODULE Monitor --------------------------------
(***************************************************************************)
(* What one reconcile pass does to one ledger entry:                       *)
(* src/overseer/monitor.rs, monitor/apply.rs and apply_resolution.rs, with *)
(* the operator requests that lift an escalation (ledger/landable.rs,      *)
(* runtime_request/apply_request.rs) and what the merge pass may make of   *)
(* an entry, which MergePass describes in full.                            *)
(*                                                                         *)
(* Times are abstracted to their order: `settled` says whether the mark is *)
(* of the settlement the entry is in or of an earlier one, an observation  *)
(* whether the newest activity seen is from before or after it.            *)
(***************************************************************************)

(* LedgerPhase; claimed and working are told apart by no rule below, and   *)
(* "absent" is an entry the ledger does not have.                          *)
Phases == {"dispatched", "working", "pr_opened", "merged", "failed",
           "escalated", "absent"}

Clocks == {"none", "current", "earlier"}

Entry == [phase: Phases,
          worker: BOOLEAN,      \* worker_escalated
          settled: Clocks,      \* settled_at
          pr: BOOLEAN,          \* pr_url is known
          wait: BOOLEAN]        \* prerequisite_wait is set

NewEntry == [phase |-> "dispatched", worker |-> FALSE, settled |-> "none",
             pr |-> FALSE, wait |-> FALSE]

Absent == [NewEntry EXCEPT !.phase = "absent"]

Terminal(e) == e.phase \in {"merged", "failed", "escalated"}

WorkerPhase(e) == e.phase \in {"dispatched", "working"}

(* apply::escalate, apply::fail                                            *)
Escalated(e) == [e EXCEPT !.phase = "escalated", !.worker = TRUE]
Failed(e) == [e EXCEPT !.phase = "failed"]

(* ledger::revive                                                          *)
Revived(e) ==
    [e EXCEPT !.phase = IF e.pr THEN "pr_opened" ELSE "dispatched",
              !.worker = FALSE, !.settled = "none", !.wait = FALSE]

-----------------------------------------------------------------------------
(* Reports from the inbox                                                  *)

(* "begun" is claimed, turn-done and waiting; the rest of the kinds leave  *)
(* nothing here.                                                           *)
Reports == {"begun", "blocked", "waiting-prerequisite", "unblocked"}

Blocks(e, report) == report = "blocked" /\ ~Terminal(e)

Unblocks(e, report) ==
    /\ report = "unblocked"
    /\ e.phase = "failed" \/ (e.phase = "escalated" /\ e.worker)

(* apply_inbox, one report; a merged entry is not reconciled.              *)
Reported(e, report) ==
    CASE Blocks(e, report) -> Escalated(e)
      [] Unblocks(e, report) -> Revived(e)
      [] report = "begun" /\ e.phase = "dispatched" ->
             [e EXCEPT !.phase = "working"]
      [] report = "waiting-prerequisite" /\ ~Terminal(e) ->
             [e EXCEPT !.wait = TRUE]
      [] OTHER -> e

-----------------------------------------------------------------------------
(* The other observations, in the order reconcile_entry applies them       *)

(* What a pass may have seen of an entry: a probe that failed or answered  *)
(* with something no rule reads is "quiet".                                *)
Observations ==
    [overdue: BOOLEAN,                        \* the wait outlived its bound
     pr: {"quiet", "open", "merged"},
     task: {"quiet", "open"},                 \* its lock was released
     session: {"quiet", "lost", "detached"},  \* lost: dead, or idle too long
     activity: {"quiet", "before", "after"}]  \* newest signal of a human

(* Those that a rule of this entry reads; no activity is later than a mark *)
(* there is not.                                                           *)
Telling(e) ==
    LET Worth(test, quiet, told) == IF test THEN told ELSE {quiet}
    IN [overdue: Worth(e.wait, FALSE, BOOLEAN),
        pr: Worth(e.phase \notin {"merged", "absent"}, "quiet",
                  {"quiet", "open", "merged"}),
        task: Worth(e.phase = "working", "quiet", {"quiet", "open"}),
        session: {"quiet", "detached"} \cup
                     Worth(WorkerPhase(e), "quiet", {"lost"}),
        activity: Worth(e.settled # "none", "quiet",
                        {"quiet", "before", "after"})]

(* apply_prerequisite_wait                                                 *)
WaitExceeded(e, seen) == e.wait /\ ~Terminal(e) /\ seen.overdue

AfterWait(e, seen) == IF WaitExceeded(e, seen) THEN Escalated(e) ELSE e

(* apply_pr                                                                *)
AfterPr(e, seen) ==
    CASE seen.pr = "merged" -> [e EXCEPT !.phase = "merged", !.pr = TRUE]
      [] seen.pr = "open" /\ ~Terminal(e) ->
             [e EXCEPT !.phase = "pr_opened", !.pr = TRUE]
      [] OTHER -> e

(* apply_task_failure                                                      *)
Released(e, seen) == seen.task = "open" /\ e.phase = "working" /\ ~e.wait

AfterTask(e, seen) == IF Released(e, seen) THEN Escalated(e) ELSE e

(* apply_session                                                           *)
Lost(e, seen) == WorkerPhase(e) /\ ~e.wait /\ seen.session = "lost"

AfterSession(e, seen) == IF Lost(e, seen) THEN Failed(e) ELSE e

(* apply_escalation_resolution: activity later than the mark.              *)
Lifted(e, seen) ==
    /\ e.phase = "escalated"
    /\ e.worker
    /\ \/ e.settled = "current" /\ seen.activity = "after"
       \/ e.settled = "earlier" /\ seen.activity \in {"before", "after"}

AfterActivity(e, seen) ==
    IF Lifted(e, seen)
    THEN [e EXCEPT !.phase = "working", !.settled = "none",
                   !.worker = FALSE]
    ELSE e

(* monitor::settle                                                         *)
Settled(e) ==
    IF Terminal(e) /\ e.settled = "none"
    THEN [e EXCEPT !.settled = "current"] ELSE e

Probed(e, seen) == AfterPr(AfterWait(e, seen), seen)

(* reconcile_entry once the reports are applied                            *)
Observed(e, seen) ==
    IF e.phase \in {"merged", "absent"} THEN e
    ELSE Settled(AfterActivity(
             AfterSession(AfterTask(Probed(e, seen), seen), seen), seen))

(* What a MarkFailed or an Escalate action is about.                       *)
CaseKinds == {"failed", "escalated"}

(* The action reconcile_entry pushes meanwhile, if any.                    *)
Raised(e, seen) ==
    {kind \in CaseKinds :
        /\ e.phase \notin {"merged", "absent"}
        /\ \/ /\ kind = "escalated"
              /\ WaitExceeded(e, seen) \/ Released(Probed(e, seen), seen)
           \/ /\ kind = "failed"
              /\ Lost(AfterTask(Probed(e, seen), seen), seen)}

-----------------------------------------------------------------------------
(* What others do to an entry                                              *)

(* ensure_landable                                                         *)
Approved(e) ==
    IF e.phase \in {"failed", "escalated"} THEN Revived(e) ELSE e

(* reset_branch_updates: the mark of the escalation it ends is kept.       *)
BranchReset(e) ==
    IF e.phase = "escalated"
    THEN [e EXCEPT !.phase = "pr_opened", !.worker = FALSE,
                   !.settled = IF @ = "current" THEN "earlier" ELSE @]
    ELSE e

(* escalate_workers: the operator killed the worker's session.             *)
Panicked(e) ==
    IF Terminal(e) \/ e.phase = "absent" THEN e
    ELSE [e EXCEPT !.phase = "escalated", !.worker = FALSE]

(* An entry the merge pass may look at.  Which escalated ones it has been  *)
(* granted to reconsider is MergePass's subject: here it may be any.       *)
Gated(e) == e.phase \in {"pr_opened", "escalated"}

(* What it may leave of one: of a pull request it knows, a prerequisite    *)
(* found or gone, a handback delivered or a merge; and of any, nothing     *)
(* changed, an escalation, or sweep_stuck's mark on one.                   *)
GateOutcomes(e) ==
    LET probed == IF e.pr THEN {[e EXCEPT !.wait = w] : w \in BOOLEAN} ELSE {e}
        clear == [e EXCEPT !.wait = FALSE, !.settled = "none"]
    IN IF ~Gated(e) THEN {e}
       ELSE probed
            \cup {[p EXCEPT !.phase = "escalated", !.worker = FALSE] :
                      p \in probed}
            \cup {Settled(p) : p \in probed}
            \cup (IF e.pr
                  THEN {[clear EXCEPT !.phase = "pr_opened"],
                        [clear EXCEPT !.phase = "merged"]}
                  ELSE {})
===============================================================================
