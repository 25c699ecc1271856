------------------------------- MODULE MergePass -------------------------------
(***************************************************************************)
(* The auto-merge pass over the ledger entries of one repository:          *)
(* src/overseer/daemon/merge.rs, merge_repo_pass.rs, merge_evaluate.rs,    *)
(* merge_gate.rs, merge_apply.rs, merge_allow.rs, merge_queue.rs and       *)
(* merge_settle.rs, with the operator requests drained before it and the   *)
(* cleanup that ends the settle barrier.                                   *)
(*                                                                         *)
(* One entry takes one step (skipped, held, waiting) or two: Look reads    *)
(* the pull request and runs the gate on what it read, and a branch update *)
(* or a merge then calls GitHub again, about whatever revision is there    *)
(* by then.  Workers, other people and GitHub move between the two.        *)
(*                                                                         *)
(* Repositories are independent (one worker thread and one barrier each),  *)
(* so one is enough.  Every entry modelled has a pull request recorded.    *)
(***************************************************************************)
EXTENDS MergeEntry, FiniteSets

CONSTANTS
    N,                \* number of entries, in ledger order 1..N
    MaxUpdates,       \* overseer.max_branch_updates
    MaxSettle,        \* overseer.max_merge_settle_passes
    UpdateRewrites,   \* merge_strategy = "rebase": update-branch rewrites
    FetchFails,       \* whether `git fetch` of the branch may fail
    AnswersLost,      \* whether a command may time out after GitHub acted
    GateFacts,        \* what GitHub may answer: "clear" or a GateReason
    SessionFacts,     \* how a worker's session may answer a handback
    MaxCommits,       \* bound: revisions per pull request
    MaxOutside,       \* bound: pushes, gate changes, merges and closes
                      \* from outside robco
    MaxRequests,      \* bound: operator requests
    MaxCrashes        \* bound: daemon crashes

ASSUME PassAssumption ==
    /\ N \in Nat \ {0}
    /\ MaxUpdates \in Nat
    /\ MaxSettle \in Nat
    /\ UpdateRewrites \in BOOLEAN
    /\ FetchFails \in BOOLEAN
    /\ AnswersLost \in BOOLEAN
    /\ "clear" \in GateFacts
    /\ GateFacts \subseteq GateReasons \cup {"clear", "unreadable"}
    /\ SessionFacts \subseteq Sessions
    /\ SessionFacts # {}
    /\ MaxCommits \in Nat \ {0}
    /\ MaxOutside \in Nat
    /\ MaxRequests \in Nat
    /\ MaxCrashes \in Nat

Agents == 1..N
NoAgent == 0

VARIABLES
    entry,     \* [Agents -> EntryType]: the ledger in the daemon's memory
    settling,  \* passes the barrier has been held, or Settled
    saved,     \* the ledger file: entries and barrier as last saved
    pc,        \* "idle" between passes, "look", "update" or "merge" in one
    cur,       \* the entry the pass is at
    holder,    \* merge_queue::Heads: the entry holding the action slot
    snap,      \* what the look at `cur` read
    pr,        \* GitHub's and the worker's side of each pull request
    base,      \* number of commits on GitHub's base branch
    local,     \* base commits the primary checkout has fast-forwarded to
    rows,      \* agents whose worktree and registry row still exist
    requests,  \* operator requests so far
    outside,   \* outside steps so far
    crashes,   \* daemon crashes so far
    hist       \* history the properties refer to, never read by an action

ledgerVars == <<entry, settling>>
passVars == <<pc, cur, holder, snap>>
githubVars == <<pr, base>>
checkoutVars == <<local, rows>>
boundVars == <<requests, outside, crashes>>
vars == <<entry, settling, saved, passVars, githubVars, checkoutVars,
          boundVars, hist>>

Settled == -1

(* One pull request: `forced` holds the commits that rewrote the branch    *)
(* (force-push, rebase) and `builtOn` how much of the base it contains.    *)
Commits == 1..MaxCommits

PrType == [state: {"open", "merged", "closed"}, head: Commits,
           forced: SUBSET Commits, builtOn: Nat, gate: GateFacts]

(* git merge-base --is-ancestor x y, on one pull request's branch.         *)
IsAncestor(a, x, y) == x <= y /\ \A c \in (x + 1)..y : c \notin pr[a].forced

Behind(a) == pr[a].builtOn < base

SnapType == [head: 0..MaxCommits, base: Nat]
NoSnap == [head |-> NoHead, base |-> 0]

(* The revision the gate cleared, the one GitHub merged, and on what word. *)
LandedType == [gated: 0..MaxCommits, merged: 0..MaxCommits,
               word: {"none", "override", "approval"}]

HistType ==
    [asked: [Agents -> SUBSET Commits],  \* heads an operator asked to merge
     handed: [Agents -> SUBSET (Commits \X Nat)],
                \* <<head, base>> handed back and seen to start a turn,
                \* since an operator last revived the entry
     moved: [Agents -> SUBSET Commits],
                \* heads robco moved or tried to, as far as it knows: a
                \* branch update, a handback charged
     landed: [Agents -> LandedType],
     updated: SUBSET Agents,                 \* branches updated this pass
     lastMerge: Nat,   \* base after the last merge robco knows it made
     lifted: BOOLEAN]  \* the wait for it is over by the barrier's cap, or
                      \* may have been forgotten in a crash

Init ==
    /\ entry = [a \in Agents |-> NewEntry]
    /\ settling = Settled
    /\ saved = [entry |-> entry, settling |-> settling]
    /\ pc = "idle"
    /\ cur = NoAgent
    /\ holder = NoAgent
    /\ snap = NoSnap
    /\ pr \in [Agents -> {[state |-> "open", head |-> 1, forced |-> {},
                           builtOn |-> 0, gate |-> g] :
                              g \in GateFacts}]
    /\ base = 0
    /\ local = 0
    /\ rows = Agents
    /\ requests = 0
    /\ outside = 0
    /\ crashes = 0
    /\ hist = [asked |-> [a \in Agents |-> {}],
               handed |-> [a \in Agents |-> {}],
               moved |-> [a \in Agents |-> {}],
               landed |-> [a \in Agents |-> [gated |-> NoHead,
                                             merged |-> NoHead,
                                             word |-> "none"]],
               updated |-> {},
               lastMerge |-> 0,
               lifted |-> FALSE]

-----------------------------------------------------------------------------
(* Workers, people and GitHub                                              *)

OutsideRobco ==
    /\ outside < MaxOutside
    /\ outside' = outside + 1
    /\ UNCHANGED <<ledgerVars, saved, passVars, checkoutVars, requests,
                   crashes, hist>>

(* The pull request with one more commit, on top of the branch or          *)
(* rewriting it, with as much of the base as `onto` and gate g.            *)
Advanced(a, rewrites, onto, g) ==
    [pr[a] EXCEPT !.head = pr[a].head + 1,
                  !.forced = IF rewrites THEN pr[a].forced \cup {pr[a].head + 1}
                                         ELSE pr[a].forced,
                  !.builtOn = onto,
                  !.gate = g]

(* A worker pushes: on top of its branch, or rewriting it; with the base   *)
(* merged in or not; and the checks say what they say of the new head.     *)
WorkerPushes(a) ==
    /\ OutsideRobco
    /\ pr[a].state = "open"
    /\ pr[a].head < MaxCommits
    /\ \E force \in BOOLEAN, onto \in {pr[a].builtOn, base}, g \in GateFacts :
         pr' = [pr EXCEPT ![a] = Advanced(a, force, onto, g)]
    /\ UNCHANGED base

(* Checks finish or are re-run, protection is edited, a conflict appears.  *)
GateChanges(a) ==
    /\ OutsideRobco
    /\ pr[a].state = "open"
    /\ \E g \in GateFacts \ {pr[a].gate} : pr' = [pr EXCEPT ![a].gate = g]
    /\ UNCHANGED base

(* Something robco does not manage lands on the base branch.               *)
BaseMoves ==
    /\ OutsideRobco
    /\ base' = base + 1
    /\ UNCHANGED pr

(* A person closes the pull request without merging it.                    *)
PersonCloses(a) ==
    /\ OutsideRobco
    /\ pr[a].state = "open"
    /\ pr' = [pr EXCEPT ![a].state = "closed"]
    /\ UNCHANGED base

-----------------------------------------------------------------------------
(* Operator requests, drained at the top of a daemon pass                  *)

Revives(a) == entry[a].phase = "escalated"

DrainRequest ==
    /\ pc = "idle"
    /\ requests < MaxRequests
    /\ requests' = requests + 1
    /\ UNCHANGED <<settling, passVars, githubVars, checkoutVars, outside,
                   crashes>>

(* Runtime requests are applied and the ledger checkpointed before the     *)
(* request file is removed (runtime_request::drain_in).                    *)
Checkpoint == saved' = [saved EXCEPT !.entry = entry']

(* RuntimeRequest::MergeApproval, for the head the operator was shown.     *)
RuntimeApproval(a, head) ==
    /\ DrainRequest
    /\ head <= pr[a].head
    /\ entry' = [entry EXCEPT ![a] = RecordApproval(EnsureLandable(@), head)]
    /\ hist' = [hist EXCEPT !.asked[a] = @ \cup {head},
                            !.handed[a] = IF Revives(a) THEN {} ELSE @]
    /\ Checkpoint

(* Discord's !merge re-reads the head, and revives nothing.                *)
DiscordApproval(a) ==
    /\ DrainRequest
    /\ pr[a].gate # "unreadable"
    /\ entry' = [entry EXCEPT ![a] = RecordApproval(@, pr[a].head)]
    /\ hist' = [hist EXCEPT !.asked[a] = @ \cup {pr[a].head}]
    /\ UNCHANGED saved

(* RuntimeRequest::OperatorMergeOverride: the entry is revived first, and  *)
(* stays revived when the pull request then cannot be read.                *)
OperatorOverride(a) ==
    LET revived == EnsureLandable(entry[a])
        readable == pr[a].gate # "unreadable"
    IN /\ DrainRequest
       /\ entry' = [entry EXCEPT ![a] =
                      IF readable
                      THEN [revived EXCEPT !.override = pr[a].head]
                      ELSE revived]
       /\ hist' = [hist EXCEPT
                     !.asked[a] = IF readable THEN @ \cup {pr[a].head} ELSE @,
                     !.handed[a] = IF Revives(a) THEN {} ELSE @]
       /\ Checkpoint

(* RuntimeRequest::BranchUpdated: the operator updated the branch by hand. *)
BranchUpdated(a) ==
    /\ DrainRequest
    /\ entry' = [entry EXCEPT ![a] = ResetBranchUpdates(@)]
    /\ Checkpoint
    /\ UNCHANGED hist

-----------------------------------------------------------------------------
(* The start of a pass: reconcile, cleanup, and the barrier's age          *)

(* Mutant: a pull request no longer open counts as merged.                 *)
HastyReconciled(seen) ==
    [a \in Agents |-> IF a \in seen /\ pr[a].state # "open"
                      THEN [entry[a] EXCEPT !.phase = "merged"]
                      ELSE entry[a]]

(* monitor::apply_pr on the pull requests the probes answered for.         *)
Reconciled(seen) ==
    [a \in Agents |-> IF a \in seen /\ pr[a].state = "merged"
                      THEN [entry[a] EXCEPT !.phase = "merged"]
                      ELSE entry[a]]

(* Mutants: the barrier is dropped at its cap without its last look, and   *)
(* never ages.                                                             *)
HastyAged(pulled) ==
    IF pulled \/ settling = Settled \/ settling + 1 >= MaxSettle
    THEN Settled ELSE settling + 1

AgelessAged(pulled) == IF pulled THEN Settled ELSE settling

(* The barrier after merge_settle::settle and merge_settle::age.  Ages     *)
(* past the cap are not told apart.                                        *)
Aged(pulled) ==
    IF pulled \/ settling = Settled THEN Settled
    ELSE IF settling < MaxSettle THEN settling + 1 ELSE settling

(* Every merged entry with a registry row is cleaned up, under             *)
(* OnFailure::Continue: the fast-forward of the primary checkout and the   *)
(* removal of the worktree each succeed or fail on their own.              *)
BeginPass ==
    /\ pc = "idle"
    /\ \E seen \in SUBSET Agents :
         LET next == Reconciled(seen)
             cleanup == {a \in rows : next[a].phase = "merged"}
         IN \E pulled \in BOOLEAN, removed \in SUBSET cleanup :
              /\ pulled => cleanup # {}
              /\ entry' = next
              /\ settling' = Aged(pulled)
              /\ local' = IF pulled THEN base ELSE local
              /\ rows' = rows \ removed
    /\ pc' = "look"
    /\ cur' = 1
    /\ holder' = NoAgent
    /\ hist' = [hist EXCEPT !.updated = {}]
    /\ UNCHANGED <<saved, snap, githubVars, boundVars>>

-----------------------------------------------------------------------------
(* One entry of the pass                                                   *)

At(step) == pc = step /\ cur \in Agents

(* Moves to the next entry, and gives the action slot back when its holder *)
(* left the queue on this pass (Heads::release).                           *)
Proceed(after, slot) ==
    /\ entry' = [entry EXCEPT ![cur] = after]
    /\ holder' = IF /\ slot = cur
                    /\ after.phase # entry[cur].phase
                    /\ Terminal(after.phase)
                 THEN NoAgent ELSE slot
    /\ pc' = "look"
    /\ cur' = cur + 1
    /\ snap' = NoSnap

BarrierHeld == settling # Settled /\ settling < MaxSettle

(* Not in scope: the loop's continue.                                      *)
Skip ==
    /\ At("look")
    /\ ~InScope(entry[cur])
    /\ Proceed(entry[cur], holder)
    /\ UNCHANGED <<settling, saved, githubVars, checkoutVars, boundVars, hist>>

(* The barrier is held and an earlier entry already acts on the new base.  *)
WaitBehindBarrier ==
    /\ At("look")
    /\ InScope(entry[cur])
    /\ BarrierHeld
    /\ holder # NoAgent
    /\ Proceed(entry[cur], holder)
    /\ UNCHANGED <<settling, saved, githubVars, checkoutVars, boundVars, hist>>

(* The entry is read.  A barrier past its cap is dropped here, for good.   *)
Looking ==
    /\ At("look")
    /\ InScope(entry[cur])
    /\ ~BarrierHeld \/ holder = NoAgent
    /\ settling' = IF BarrierHeld THEN settling ELSE Settled
    /\ UNCHANGED <<saved, githubVars, checkoutVars, boundVars>>

Lifts == settling # Settled /\ ~BarrierHeld
HistAtLook == [hist EXCEPT !.lifted = @ \/ Lifts]

(* The Halted outcome of cur's evaluation.                                 *)
HaltWith(e, slot, reason, head, onBase, past) ==
    LET recheck == Due(entry[cur])
    IN \E session \in SessionFacts :
         /\ Proceed(Halt(e, recheck, reason, head, onBase, session), slot)
         /\ hist' =
              IF ~HandsBack(e, recheck, reason, head, onBase) THEN past
              ELSE [past EXCEPT
                      !.moved[cur] = @ \cup {head},
                      !.handed[cur] = IF session = "confirms"
                                      THEN @ \cup {<<head, onBase>>} ELSE @]

LookHalts(e, slot, reason, head, onBase) ==
    HaltWith(e, slot, reason, head, onBase, HistAtLook)

(* `gh pr view` fails: the hold is keyed on no revision at all.            *)
LookFails ==
    /\ Looking
    /\ pr[cur].gate = "unreadable"
    /\ LookHalts(entry[cur], holder, "unreadable", NoHead, 0)

Readable == Looking /\ pr[cur].gate # "unreadable"

(* merge_decision::concluded                                               *)
LookConcluded ==
    /\ Readable
    /\ \/ /\ pr[cur].state = "merged"
          /\ LookHalts([entry[cur] EXCEPT !.phase = "merged"], holder,
                       "already_merged", pr[cur].head, base)
       \/ /\ pr[cur].state = "closed"
          /\ LookHalts(Escalate(entry[cur]), holder,
                       "closed_unmerged", pr[cur].head, base)

Open == Readable /\ pr[cur].state = "open"

(* Prerequisites, protection, conflicts, checks, merge state.              *)
LookHeld ==
    /\ Open
    /\ pr[cur].gate \in GateReasons
    /\ LookHalts(entry[cur], holder, pr[cur].gate, pr[cur].head, base)

Clear == Open /\ pr[cur].gate = "clear"

(* Behind, and another entry of this pass is the head of the queue.        *)
LookWaitsTurn ==
    /\ Clear
    /\ Behind(cur)
    /\ holder # NoAgent
    /\ LookHalts(entry[cur], holder, "behind_waiting_turn", pr[cur].head, base)

(* Mutant: the slot is taken from whoever holds it.                        *)
GreedyHeads == Clear /\ Behind(cur)

(* merge_queue::Heads::claim                                               *)
Heads == Clear /\ Behind(cur) /\ holder = NoAgent

(* merge_state::plan_update, at the cap.                                   *)
LookCapped ==
    /\ Heads
    /\ entry[cur].branchUpdates >= MaxUpdates
    /\ LookHalts(Escalate(entry[cur]), cur, "behind_update_cap",
                 pr[cur].head, base)

Snap == [head |-> pr[cur].head, base |-> base]

(* The update is charged before it runs.                                   *)
LookUpdates ==
    /\ Heads
    /\ entry[cur].branchUpdates < MaxUpdates
    /\ entry' = [entry EXCEPT ![cur].branchUpdates = @ + 1]
    /\ holder' = cur
    /\ pc' = "update"
    /\ snap' = Snap
    /\ hist' = HistAtLook
    /\ UNCHANGED cur

Ready == Clear /\ ~Behind(cur)
ReadySlot == IF holder = NoAgent THEN cur ELSE holder

(* Everything but the merge is done; the hold is over.                     *)
LookSettling ==
    /\ Ready
    /\ BarrierHeld
    /\ Proceed([entry[cur] EXCEPT !.hold = NoHold], ReadySlot)
    /\ hist' = HistAtLook

LookReady ==
    /\ Ready
    /\ ~BarrierHeld
    /\ holder' = ReadySlot
    /\ pc' = "merge"
    /\ snap' = Snap
    /\ hist' = HistAtLook
    /\ UNCHANGED <<entry, cur>>

Look ==
    \/ LookFails \/ LookConcluded \/ LookHeld \/ LookWaitsTurn
    \/ LookCapped \/ LookUpdates \/ LookSettling \/ LookReady

(* `gh pr update-branch` moves whatever the head is by now onto the base.  *)
GitHubUpdates ==
    /\ At("update")
    /\ pr[cur].state = "open"
    /\ pr[cur].head < MaxCommits
    /\ \E g \in GateFacts :
         pr' = [pr EXCEPT ![cur] = Advanced(cur, UpdateRewrites, base, g)]
    /\ UNCHANGED <<settling, saved, base, checkoutVars, boundVars>>

(* What is remembered is the head that was read.                           *)
UpdateBranch ==
    /\ GitHubUpdates
    /\ HaltWith([entry[cur] EXCEPT !.updateHead = snap.head], holder,
                "behind_branch_updated", snap.head, snap.base,
                [hist EXCEPT !.moved[cur] = @ \cup {snap.head},
                             !.updated = @ \cup {cur}])

(* The command runs into its timeout after GitHub updated the branch, and  *)
(* counts as a failure: no head is remembered.                             *)
UpdateUnheard ==
    /\ AnswersLost
    /\ GitHubUpdates
    /\ HaltWith(entry[cur], holder, "behind_update_failed",
                snap.head, snap.base, [hist EXCEPT !.updated = @ \cup {cur}])

UpdateFails ==
    /\ At("update")
    /\ HaltWith(entry[cur], holder, "behind_update_failed",
                snap.head, snap.base, hist)
    /\ UNCHANGED <<settling, saved, githubVars, checkoutVars, boundVars>>

(* merge_allow::take_operator_override spends the override either way.     *)
OverrideSpent(e) == [e EXCEPT !.override = NoHead]

(* Mutant: the override is not compared with the head it names.            *)
BlindOverrideAllows(e) == e.override # NoHead

OverrideAllows(e) == e.override # NoHead /\ e.override = snap.head

(* Mutant: any push on top of the revision asked for carries the request.  *)
TrustingCarriesForward(e) == IsAncestor(cur, e.approval, snap.head)

(* merge_allow::carry_forward_reason                                       *)
CarriesForward(e) ==
    /\ IsAncestor(cur, e.approval, snap.head)
    /\ e.recovery.head = e.approval \/ e.updateHead = e.approval

(* merge_allow::confirm_requested: the entry and the word it answers with. *)
Confirm(e, fetched) ==
    LET spent == OverrideSpent(e)
    IN IF OverrideAllows(e)
       THEN [entry |-> spent, word |-> "override"]
       ELSE IF e.approval = NoHead
       THEN [entry |-> spent, word |-> "none"]
       ELSE IF e.approval = snap.head
       THEN [entry |-> [spent EXCEPT !.approval = NoHead], word |-> "approval"]
       ELSE IF fetched /\ CarriesForward(e)
       THEN [entry |-> [spent EXCEPT !.approval = snap.head],
             word |-> "approval"]
       ELSE [entry |-> [spent EXCEPT !.approval = NoHead], word |-> "none"]

Confirming(fetched) == Confirm(entry[cur], fetched)

Fetches == IF FetchFails THEN BOOLEAN ELSE {TRUE}

(* The live request names another revision.                                *)
RequestStale ==
    /\ At("merge")
    /\ \E fetched \in Fetches :
         /\ Confirming(fetched).word = "none"
         /\ HaltWith(Confirming(fetched).entry, holder, "request_stale",
                     snap.head, snap.base, hist)
    /\ UNCHANGED <<settling, saved, githubVars, checkoutVars, boundVars>>

(* `gh pr merge` names the pull request, not the revision the gate read.   *)
GitHubMerges ==
    /\ At("merge")
    /\ pr[cur].state = "open"
    /\ pr' = [pr EXCEPT ![cur].state = "merged"]
    /\ base' = base + 1
    /\ UNCHANGED <<saved, checkoutVars, boundVars>>

Landing(word) ==
    [hist EXCEPT !.landed[cur] = [gated |-> snap.head, merged |-> pr[cur].head,
                                  word |-> word]]

Merge ==
    /\ GitHubMerges
    /\ \E fetched \in Fetches :
         /\ Confirming(fetched).word # "none"
         /\ Proceed(Landed(Confirming(fetched).entry), holder)
         /\ hist' = [Landing(Confirming(fetched).word) EXCEPT
                       !.lastMerge = base + 1,
                       !.lifted = FALSE]
    /\ settling' = 0

(* The command runs into its timeout after GitHub merged, and counts as a  *)
(* failure: the barrier is not raised.                                     *)
MergeUnheard ==
    /\ AnswersLost
    /\ GitHubMerges
    /\ \E fetched \in Fetches :
         /\ Confirming(fetched).word # "none"
         /\ HaltWith(Confirming(fetched).entry, holder, "merge_failed",
                     snap.head, snap.base, Landing(Confirming(fetched).word))
    /\ UNCHANGED settling

MergeFails ==
    /\ At("merge")
    /\ \E fetched \in Fetches, reason \in {"merge_failed", "merge_refused"} :
         /\ Confirming(fetched).word # "none"
         /\ HaltWith(Confirming(fetched).entry, holder, reason,
                     snap.head, snap.base, hist)
    /\ UNCHANGED <<settling, saved, githubVars, checkoutVars, boundVars>>

(* The ledger is saved once, at the end of the daemon's pass.              *)
EndPass ==
    /\ pc = "look"
    /\ cur = N + 1
    /\ saved' = [entry |-> entry, settling |-> settling]
    /\ pc' = "idle"
    /\ cur' = NoAgent
    /\ holder' = NoAgent
    /\ UNCHANGED <<ledgerVars, snap, githubVars, checkoutVars, boundVars, hist>>

(* Any error the loop propagates ends the daemon, and launchd restarts it: *)
(* what was not saved is forgotten, what GitHub did stays done.            *)
Crash ==
    /\ crashes < MaxCrashes
    /\ crashes' = crashes + 1
    /\ entry' = saved.entry
    /\ settling' = saved.settling
    /\ pc' = "idle"
    /\ cur' = NoAgent
    /\ holder' = NoAgent
    /\ snap' = NoSnap
    /\ hist' = [hist EXCEPT !.lifted = TRUE]
    /\ UNCHANGED <<saved, githubVars, checkoutVars, requests, outside>>

-----------------------------------------------------------------------------
(* Specification                                                           *)

Act ==
    \/ UpdateBranch \/ UpdateUnheard \/ UpdateFails
    \/ RequestStale \/ Merge \/ MergeUnheard \/ MergeFails

PassStep ==
    \/ BeginPass \/ Skip \/ WaitBehindBarrier \/ Look \/ Act \/ EndPass

OperatorStep ==
    \E a \in Agents :
        \/ \E head \in Commits : RuntimeApproval(a, head)
        \/ DiscordApproval(a)
        \/ OperatorOverride(a)
        \/ BranchUpdated(a)

OutsideStep ==
    \/ \E a \in Agents : WorkerPushes(a) \/ GateChanges(a) \/ PersonCloses(a)
    \/ BaseMoves

Next == PassStep \/ OperatorStep \/ OutsideStep \/ Crash

Spec == Init /\ [][Next]_vars

(* The daemon's loop keeps passing: it polls on a timer, and every command *)
(* it waits for runs under a timeout.                                      *)
FairSpec == Spec /\ WF_vars(PassStep)
===============================================================================
