------------------------------ MODULE MergeEntry ------------------------------
(***************************************************************************)
(* The part of a ledger entry the auto-merge pass reads and writes, and    *)
(* the functions of src/overseer/daemon/merge_*.rs that change it, each as *)
(* an operator from an entry to an entry.  MergePass.tla calls them in the *)
(* order merge_repo_pass::run and merge_evaluate::evaluate do.             *)
(*                                                                         *)
(* Left out of the entry: what only reconcile reads (worker_escalated,     *)
(* settled_at, prerequisite_wait), what only notifications read            *)
(* (escalation_notified_*, merge_hold_stuck_notified) and what only the    *)
(* board shows (pr_facts, approval_dropped, the dropped counters).         *)
(***************************************************************************)
EXTENDS Integers

CONSTANTS
    MaxHolds,        \* overseer.max_merge_holds
    MaxRechecks,     \* overseer.max_merge_hold_rechecks
    MaxRecoveries,   \* overseer.max_merge_recoveries
    RecoveryEnabled  \* overseer.merge_recovery_enabled

ASSUME ConfigAssumption ==
    /\ MaxHolds \in Nat
    /\ MaxRechecks \in Nat
    /\ MaxRecoveries \in Nat
    /\ RecoveryEnabled \in BOOLEAN

(* Commits of a pull request are numbered from 1 in the order GitHub saw   *)
(* them; NoHead is the empty sha (and the absent Option) of the code.      *)
NoHead == 0

(* Why a pass stopped short of a merge, one name per reason the code       *)
(* treats differently.  "unprotected" stands for every gate reason only an *)
(* operator can move (protection, prerequisite probe failures, draft).     *)
GateReasons ==
    {"prerequisite", "unprotected", "dirty", "checks_failed",
     "checks_waiting", "blocked"}

Reasons ==
    GateReasons \cup
    {"unreadable", "behind_waiting_turn", "behind_branch_updated",
     "behind_update_failed", "behind_update_cap", "merge_failed",
     "merge_refused", "request_stale", "already_merged", "closed_unmerged"}

(* The markers `escalated`, `grant_merge_reconsideration` and the default  *)
(* record leave where a gate reason would be.                              *)
Markers == {"none", "operator_approval"}

(* merge_hold::bounded: skips, the behind_ family and prerequisite waits   *)
(* never spend the hold budget.                                            *)
Bounded(reason) ==
    reason \notin {"request_stale", "already_merged", "prerequisite",
                   "behind_waiting_turn", "behind_branch_updated",
                   "behind_update_failed", "behind_update_cap"}

(* remedy::classify: the failures the owning worker can fix.               *)
Recoverable(reason) ==
    reason \in {"dirty", "blocked", "checks_failed", "behind_update_cap",
                "merge_failed"}

Phases == {"pr_opened", "merged", "escalated"}

Terminal(phase) == phase \in {"merged", "escalated"}

NoHold == [reason |-> "none", head |-> NoHead, passes |-> 0,
           escalated |-> FALSE]

NoRecheck == [capEscalated |-> FALSE, spent |-> 0, reason |-> "none",
              head |-> NoHead]

NoPending == [reason |-> "none", head |-> NoHead, base |-> 0, attempts |-> 0]

NoRecovery == [charged |-> 0, head |-> NoHead, base |-> 0,
               undeliveredHead |-> NoHead, undelivered |-> 0,
               pending |-> NoPending]

(* The entry of a pull request nobody has asked to merge yet.              *)
NewEntry ==
    [phase |-> "pr_opened", approval |-> NoHead, override |-> NoHead,
     hold |-> NoHold, recheck |-> NoRecheck, branchUpdates |-> 0,
     updateHead |-> NoHead, recovery |-> NoRecovery]

HoldType == [reason: Reasons \cup Markers, head: Nat, passes: 0..MaxHolds,
             escalated: BOOLEAN]

RecheckType == [capEscalated: BOOLEAN, spent: Nat,
                reason: Reasons \cup Markers, head: Nat]

PendingType == [reason: Reasons \cup Markers, head: Nat, base: Nat,
                attempts: 0..MaxRecoveries]

RecoveryType == [charged: 0..MaxRecoveries, head: Nat, base: Nat,
                 undeliveredHead: Nat, undelivered: 0..MaxRecoveries,
                 pending: PendingType]

EntryType ==
    [phase: Phases, approval: Nat, override: Nat, hold: HoldType,
     recheck: RecheckType, branchUpdates: Nat, updateHead: Nat,
     recovery: RecoveryType]

-----------------------------------------------------------------------------
(* Requests and scope                                                      *)

Requested(e) == e.approval # NoHead \/ e.override # NoHead

(* merge_hold_recheck::due                                                 *)
Due(e) ==
    /\ e.phase = "escalated"
    /\ e.recheck.capEscalated \/ e.hold.escalated
    /\ e.recheck.spent < MaxRechecks

Reconsidering(e) == e.phase = "escalated" /\ (Due(e) \/ e.override # NoHead)

(* The two early continues of merge_repo_pass::run.                        *)
InScope(e) == Reconsidering(e) \/ (e.phase = "pr_opened" /\ Requested(e))

Escalate(e) == [e EXCEPT !.phase = "escalated"]

-----------------------------------------------------------------------------
(* The recheck budget of an entry the hold cap escalated                   *)

SameRecheck(e, reason, head) ==
    e.recheck.reason = reason /\ e.recheck.head = head

(* merge_hold_recheck::charge                                              *)
RecheckCharge(e, reason, head) ==
    [e EXCEPT !.recheck =
        [capEscalated |-> TRUE, reason |-> reason, head |-> head,
         spent |-> IF SameRecheck(e, reason, head) THEN e.recheck.spent
                                                   ELSE e.recheck.spent + 1]]

(* What `charge` reports: the look just spent was the last one.            *)
RecheckExhausts(e, reason, head) ==
    ~SameRecheck(e, reason, head) /\ e.recheck.spent + 1 >= MaxRechecks

(* LedgerEntry::grant_merge_reconsideration                                *)
GrantReconsideration(e) ==
    [e EXCEPT !.recheck = [capEscalated |-> TRUE, spent |-> 0,
                           reason |-> "operator_approval", head |-> NoHead]]

-----------------------------------------------------------------------------
(* Handing a failure back to the worker                                    *)

DiscardPending(e) ==
    [e EXCEPT !.recovery = [e.recovery EXCEPT !.pending = NoPending]]

(* merge_recovery::refund                                                  *)
Refund(e) ==
    LET charged == e.recovery.charged
    IN [e EXCEPT !.recovery =
          [e.recovery EXCEPT !.charged = IF charged > 0 THEN charged - 1 ELSE 0,
                             !.head = NoHead,
                             !.base = 0]]

(* merge_recovery_pending::withhold: the worker is mid-turn, so the charge *)
(* is refunded and the instruction counted instead.                        *)
Withhold(e, reason) ==
    LET owed == [reason |-> reason, head |-> e.recovery.head,
                 base |-> e.recovery.base]
        was == e.recovery.pending
        same == /\ was.attempts > 0
                /\ was.reason = owed.reason
                /\ was.head = owed.head
                /\ was.base = owed.base
        attempts == IF same THEN was.attempts + 1 ELSE 1
    IN IF attempts >= MaxRecoveries
       THEN Escalate(DiscardPending(Refund(e)))
       ELSE [Refund(e) EXCEPT !.recovery =
                [Refund(e).recovery EXCEPT !.pending =
                    [reason |-> reason, head |-> owed.head,
                     base |-> owed.base, attempts |-> attempts]]]

(* The prompt was sent and no turn was seen starting: refund, and charge   *)
(* the head's own undelivered counter (undelivered_cap_reached).  Counts   *)
(* above the cap are not told apart: the code only asks whether the cap is *)
(* reached.                                                                *)
Undelivered(e) ==
    LET head == e.recovery.head
        before == IF e.recovery.undeliveredHead = head
                  THEN e.recovery.undelivered ELSE 0
        count == IF before < MaxRecoveries THEN before + 1 ELSE before
        refunded == Refund(DiscardPending(e))
        counted == [refunded EXCEPT !.recovery =
                        [refunded.recovery EXCEPT !.undeliveredHead = head,
                                                  !.undelivered = count]]
    IN IF count >= MaxRecoveries THEN Escalate(counted) ELSE counted

(* Mutant: a delivered handback forgets which failure it was for.          *)
ForgetfulDelivered(e) ==
    [e EXCEPT !.phase = "pr_opened", !.recovery = NoRecovery]

(* Confirmed: the entry goes back to the phase the gate reads every pass.  *)
Delivered(e) ==
    [e EXCEPT !.phase = "pr_opened",
              !.recovery = [e.recovery EXCEPT !.pending = NoPending,
                                              !.undeliveredHead = NoHead,
                                              !.undelivered = 0]]

(* What the worker's tmux session may answer a handback with.              *)
Sessions == {"gone", "busy", "send_fails", "silent", "confirms"}

(* merge_recovery::dispatch                                                *)
Dispatch(e, reason, session) ==
    CASE session = "gone"       -> Escalate(DiscardPending(e))
      [] session = "busy"       -> Withhold(e, reason)
      [] session = "send_fails" -> DiscardPending(e)
      [] session = "silent"     -> Undelivered(e)
      [] session = "confirms"   -> Delivered(e)

(* merge_recovery_plan::plan, the outcomes that leave the entry alone.     *)
PlanIdle(e, reason, head, base) ==
    \/ head = NoHead
    \/ ~Recoverable(reason)
    \/ ~RecoveryEnabled
    \/ e.recovery.head = head /\ e.recovery.base = base

(* Mutant: one handback more than the budget.                              *)
OverspentPlanDispatches(e, reason, head, base) ==
    /\ ~PlanIdle(e, reason, head, base)
    /\ e.recovery.charged <= MaxRecoveries

PlanDispatches(e, reason, head, base) ==
    /\ ~PlanIdle(e, reason, head, base)
    /\ e.recovery.charged < MaxRecoveries

ChargeRecovery(e, head, base) ==
    [e EXCEPT !.recovery =
        [e.recovery EXCEPT !.charged = e.recovery.charged + 1,
                           !.head = head,
                           !.base = base]]

(* merge_recovery::consider                                                *)
Consider(e, reason, head, base, session) ==
    IF PlanIdle(e, reason, head, base) THEN e
    ELSE IF PlanDispatches(e, reason, head, base)
    THEN Dispatch(ChargeRecovery(e, head, base), reason, session)
    ELSE Escalate(e)

-----------------------------------------------------------------------------
(* The hold budget                                                         *)

(* A new (reason, head) pair starts a fresh hold.                          *)
FreshHold(e, reason, head) ==
    IF e.hold.reason = reason /\ e.hold.head = head
    THEN e.hold
    ELSE [reason |-> reason, head |-> head, passes |-> 0, escalated |-> FALSE]

HoldSpent(e, reason, head) ==
    Bounded(reason) /\ FreshHold(e, reason, head).escalated

(* Mutant: the cap is noticed one pass late.                               *)
LateHoldCapReached(e, reason, head) ==
    /\ Bounded(reason)
    /\ ~HoldSpent(e, reason, head)
    /\ FreshHold(e, reason, head).passes > MaxHolds

HoldCapReached(e, reason, head) ==
    /\ Bounded(reason)
    /\ ~HoldSpent(e, reason, head)
    /\ FreshHold(e, reason, head).passes >= MaxHolds

(* The pass is recorded, and the recovery consulted.                       *)
HoldRecorded(e, reason, head) ==
    ~HoldSpent(e, reason, head) /\ ~HoldCapReached(e, reason, head)

(* merge_hold::charge and the CapReached arm of merge_repo_pass::hold.     *)
HoldCharge(e, reason, head) ==
    LET fresh == FreshHold(e, reason, head)
    IN IF ~Bounded(reason) THEN e
       ELSE IF HoldSpent(e, reason, head) THEN [e EXCEPT !.hold = fresh]
       ELSE IF HoldCapReached(e, reason, head)
       THEN DiscardPending(Escalate(
              [e EXCEPT !.hold = [fresh EXCEPT !.escalated = TRUE],
                        !.recheck = [capEscalated |-> TRUE, spent |-> 0,
                                     reason |-> reason, head |-> head]]))
       ELSE [e EXCEPT !.hold = [fresh EXCEPT !.passes = fresh.passes + 1]]

(* merge_repo_pass::hold                                                   *)
Hold(e, reason, head, base, session) ==
    IF HoldRecorded(e, reason, head)
    THEN Consider(HoldCharge(e, reason, head), reason, head, base, session)
    ELSE HoldCharge(e, reason, head)

(* The Halted arm of merge_repo_pass::run.                                 *)
Halt(e, recheck, reason, head, base, session) ==
    Hold(IF recheck THEN RecheckCharge(e, reason, head) ELSE e,
         reason, head, base, session)

(* The same halt charges a handback and tries to deliver it.               *)
HandsBack(e, recheck, reason, head, base) ==
    LET charged == IF recheck THEN RecheckCharge(e, reason, head) ELSE e
    IN /\ HoldRecorded(charged, reason, head)
       /\ PlanDispatches(HoldCharge(charged, reason, head), reason, head, base)

-----------------------------------------------------------------------------
(* A merge, and an operator's revival                                      *)

(* The Merged arm of merge_repo_pass::run.                                 *)
Landed(e) ==
    DiscardPending([e EXCEPT !.phase = "merged",
                             !.hold = NoHold,
                             !.recheck = NoRecheck])

(* ledger::landable::revive, which ensure_landable applies to an escalated *)
(* entry an operator asks to land.                                         *)
Revive(e) ==
    [e EXCEPT !.phase = "pr_opened", !.hold = NoHold,
              !.recheck = NoRecheck, !.recovery = NoRecovery]

EnsureLandable(e) == IF e.phase = "escalated" THEN Revive(e) ELSE e

(* discord::ledger_requests::record_approval                               *)
RecordApproval(e, head) ==
    IF e.approval = head THEN e
    ELSE GrantReconsideration([e EXCEPT !.approval = head])

(* runtime_request::apply_request::reset_branch_updates                    *)
ResetBranchUpdates(e) ==
    [e EXCEPT !.branchUpdates = 0,
              !.phase = IF @ = "escalated" THEN "pr_opened" ELSE @]
===============================================================================
