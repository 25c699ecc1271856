---------------------------- MODULE MergeProperties ----------------------------
(***************************************************************************)
(* What the auto-merge pass of MergePass.tla promises.                     *)
(***************************************************************************)
EXTENDS MergePass

(* Every variable has its type.  Phases are the three of the ledger that   *)
(* the merge pass tells apart; the barrier, its age or Settled.            *)
SavedType == [entry: [Agents -> EntryType],
              settling: {Settled} \cup 0..MaxSettle]

TypeOK ==
    /\ entry \in [Agents -> EntryType]
    /\ settling \in {Settled} \cup 0..MaxSettle
    /\ saved \in SavedType
    /\ pc \in {"idle", "look", "update", "merge"}
    /\ cur \in 0..(N + 1)
    /\ holder \in {NoAgent} \cup Agents
    /\ snap \in SnapType
    /\ pc \in {"update", "merge"} => snap.head \in Commits
    /\ pr \in [Agents -> PrType]
    /\ base \in Nat
    /\ local \in 0..base
    /\ outside \in 0..MaxOutside
    /\ rows \subseteq Agents
    /\ requests \in 0..MaxRequests
    /\ crashes \in 0..MaxCrashes
    /\ hist \in HistType

-----------------------------------------------------------------------------
(* Safety                                                                  *)

(* A revision an operator's request covers: the very head asked for, or a  *)
(* fast-forward of it where robco knows it moved that head itself (a       *)
(* branch update, or a failure handed back).                               *)
Covers(a, head) ==
    \E asked \in hist.asked[a] :
        /\ IsAncestor(a, asked, head)
        /\ asked = head \/ asked \in hist.moved[a]

Covered(a) == {head \in 1..pr[a].head : Covers(a, head)}

(* The revision the gate cleared for every merge is one an operator asked  *)
(* for, or robco's own move of one: no push a worker was not asked for, no *)
(* force-push and no rebase ever merges on an earlier request, over any    *)
(* number of requests, restarts, handbacks and updates                     *)
(* (merge_allow::confirm_requested).                                       *)
MergedOnRequest ==
    \A a \in Agents :
        hist.landed[a].gated # NoHead => Covers(a, hist.landed[a].gated)

(* The ledger, in memory or on disk, calls a pull request merged only when *)
(* GitHub does, and no worktree is removed before that: the work in it     *)
(* would be lost (exec::clean_up_agent).                                   *)
WorktreesKeptUntilMerged ==
    \A a \in Agents :
        \/ entry[a].phase = "merged"
        \/ saved.entry[a].phase = "merged"
        \/ a \notin rows
        => pr[a].state = "merged"

(* What landed was asked for, and what did not is kept.                    *)
MergesAsked == MergedOnRequest /\ WorktreesKeptUntilMerged

(* At most one branch of a repository is updated per pass: what the head   *)
(* slot of merge_queue is for (merge_queue::Heads::release).               *)
OneUpdatePerPass == \A a, b \in hist.updated : a = b

(* Handbacks a worker was seen to act on never outnumber the budget since  *)
(* an operator last revived the entry, however often refunds give charges  *)
(* back (merge_recovery::refund).  A crash forgets what was not saved.     *)
HandbacksBounded ==
    crashes = 0 =>
        \A a \in Agents : Cardinality(hist.handed[a]) <= MaxRecoveries

-----------------------------------------------------------------------------
(* Action properties                                                       *)

Merging(a) == pr[a].state = "open" /\ pr'[a].state = "merged"

(* The primary checkout has the last merge robco knows it made, or robco   *)
(* no longer waits for it: the cap lifted the barrier, or a crash may have *)
(* forgotten it.                                                           *)
CaughtUp == local >= hist.lastMerge \/ hist.lifted

(* robco merges into a repository only when its primary checkout has       *)
(* caught up with robco's previous merge, or the wait for that ran into    *)
(* its cap (merge_settle::barrier).                                        *)
SerialisedMerges == [][\A a \in Agents : Merging(a) => CaughtUp]_vars

(* Merges take turns: a pass updates one branch at most, and a merge waits *)
(* for the last one's checkout.                                            *)
MergesInTurn == []OneUpdatePerPass /\ SerialisedMerges

(* A failure, a (head, base) pair, that a worker was seen to act on is     *)
(* not charged for a handback again.                                       *)
ChargesNewFailures ==
    \A a \in Agents : \A failure \in hist.handed[a] :
        /\ crashes = 0
        /\ entry'[a].recovery.charged > entry[a].recovery.charged
        => <<entry'[a].recovery.head, entry'[a].recovery.base>> # failure

(* A worker is bothered no more than the budget, and with one failure only *)
(* once: it would otherwise be prompted on every pass                      *)
(* (merge_recovery_plan::plan).                                            *)
HandbacksKept == [][HandbacksBounded' /\ ChargesNewFailures]_vars

-----------------------------------------------------------------------------
(* Refinement                                                              *)

Contract == INSTANCE MergeContract WITH
    Revisions <- Commits,
    NoRevision <- NoHead,
    covered <- [a \in Agents |-> Covered(a)],
    landed <- [a \in Agents |-> hist.landed[a].gated],
    caughtUp <- CaughtUp

(* The pass keeps the contract: every step of it is one of MergeContract's *)
(* or changes nothing an operator was promised.                            *)
KeepsContract == Contract!ContractSpec

-----------------------------------------------------------------------------
(* Liveness                                                                *)

(* A pull request an operator asked for and nothing but robco holds back.  *)
Waiting(a) ==
    /\ entry[a].phase = "pr_opened"
    /\ Requested(entry[a])
    /\ pr[a].state = "open"
    /\ pr[a].gate = "clear"

(* An escalated entry still being looked at, which may hold the slot.      *)
LookedAtAhead(a) == \E b \in 1..(a - 1) : Reconsidering(entry[b])

(* No requested, clear pull request waits forever: it merges, escalates,   *)
(* loses its request or its turn passes to an entry ahead of it that is    *)
(* being reconsidered (merge_queue::Heads, merge_settle::barrier).         *)
RequestsProgress ==
    \A a \in Agents : []<>(~Waiting(a) \/ LookedAtAhead(a))

=============================================================================
