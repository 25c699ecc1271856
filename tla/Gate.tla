--------------------------------- MODULE Gate ---------------------------------
(***************************************************************************)
(* How one look of the auto-merge pass at one pull request reaches its     *)
(* answer: merge_evaluate::evaluate with the gate of merge_gate.rs, the    *)
(* prerequisite probe (merge_dependency.rs), the protection probes and     *)
(* their cache (protection.rs), the check rollup (check_rollup.rs), the    *)
(* merge state (merge_state.rs), and what a person is told of an           *)
(* escalation (merge_escalation.rs, monitor.rs).                           *)
(*                                                                         *)
(* MergePass takes one answer of the gate as given; here it is worked out, *)
(* one question to GitHub or dropr at a time, while everything it is about *)
(* moves.  The budgets are MergeEntry's.  The merge asked for stays asked  *)
(* for: requests, the queue and the settle barrier are MergePass's.        *)
(*                                                                         *)
(* Time is kept as ages, in ticks, that stop growing once nothing compares *)
(* them any more.                                                          *)
(***************************************************************************)
EXTENDS MergeEntry, Sequences, FiniteSets

CONSTANTS
    Branches,           \* base branches a pull request may be aimed at
    Names,              \* names a check may report under
    AllowUnverifiable,  \* overseer.allow_unverifiable_protection
    MaxUpdates,         \* overseer.max_branch_updates
    VerifiedTTL,        \* protection.rs PROTECTION_CACHE_TTL, in ticks
    PlanTTL,            \* PLAN_UNSUPPORTED_CACHE_TTL
    MaxWait,            \* overseer.max_prerequisite_wait_hours
    StuckAfter,         \* merge_escalation.rs STUCK_AFTER
    Refusals,           \* sets of protection APIs that may answer 403
    MaxRuns,            \* bound: runs in a rollup
    MaxEvents           \* bound: changes outside and failed commands

ASSUME GateAssumption ==
    /\ Branches # {}
    /\ AllowUnverifiable \in BOOLEAN
    /\ Refusals \subseteq SUBSET {"rulesets", "classic"}
    /\ MaxUpdates \in Nat
    /\ {VerifiedTTL, PlanTTL, MaxWait, StuckAfter} \subseteq Nat \ {0}
    /\ {MaxRuns, MaxEvents} \subseteq Nat

VARIABLES
    pr,      \* GitHub's side of the pull request
    rules,   \* [Branches -> [APIs -> SUBSET Facts]]: protection in force
    refused, \* the protection APIs that answer 403
    blocked, \* whether the task has an unmerged prerequisite
    mode,    \* overseer.protection_mode
    entry,   \* the ledger entry, as in MergeEntry
    wait,    \* age of LedgerEntry::prerequisite_wait, or None
    notice,  \* what the entry records of its announcements
    cache,   \* ProtectionCache
    pc,      \* where the look is
    snap,    \* the pull request as `gh pr view` returned it
    probe,   \* what the protection probes have answered so far
    told,    \* whether a person was told of the present escalation
    seen,    \* [Branches -> [Facts -> age]]: since each was last in force
    events

lookVars == <<pc, snap, probe>>
entryVars == <<entry, wait, notice, told>>
outsideVars == <<pr, rules, refused, blocked, mode>>
vars == <<outsideVars, entryVars, lookVars, cache, seen, events>>

None == -1

Facts == {"pull_request", "status_checks"}
APIs == {"rulesets", "classic"}
Modes == {"off", "relaxed", "required"}
NoBranch == "unknown"

Older(age, cap) == IF age = None THEN None ELSE IF age < cap THEN age + 1 ELSE cap

-----------------------------------------------------------------------------
(* The check rollup                                                        *)

Unnamed == "unnamed"
Results == {"failed", "passed", "running"}
RunType == [check: Names \cup {Unnamed}, started: Nat, result: Results]

(* The order of the enum Run: between two runs that started at the same    *)
(* moment the more cautious answer counts.                                 *)
Rank(result) ==
    CASE result = "failed" -> 0 [] result = "passed" -> 1
      [] result = "running" -> 2

Outranks(r, s) ==
    \/ r.started > s.started
    \/ r.started = s.started /\ Rank(r.result) > Rank(s.result)

(* Two entries report on one check: an unnamed one stands alone.           *)
SameCheck(rollup, i, j) ==
    i = j \/ (rollup[i].check = rollup[j].check /\ rollup[i].check # Unnamed)

(* Mutant: the first run of a name is kept, whatever came after it.        *)
FirstLatestRuns(rollup) ==
    {rollup[i] : i \in {i \in DOMAIN rollup :
        \A j \in DOMAIN rollup : SameCheck(rollup, i, j) => i <= j}}

(* latest_runs: the most recent run of every check.                        *)
LatestRuns(rollup) ==
    {rollup[i] : i \in {i \in DOMAIN rollup :
        \A j \in DOMAIN rollup :
            SameCheck(rollup, i, j) => ~Outranks(rollup[j], rollup[i])}}

(* classify *)
Checks(rollup) ==
    LET results == {r.result : r \in LatestRuns(rollup)}
    IN IF results = {} THEN "waiting"
       ELSE IF "failed" \in results THEN "failed"
       ELSE IF "running" \in results THEN "waiting"
       ELSE "green"

-----------------------------------------------------------------------------
(* Branch protection                                                       *)

(* ProtectionFacts::unmet, with what each mode asks for.                   *)
Required(m) ==
    CASE m = "off" -> {}
      [] m = "relaxed" -> {"pull_request"}
      [] m = "required" -> Facts

Unmet(facts, m) ==
    IF m # "off" /\ "pull_request" \notin facts THEN "no_pull_request_rule"
    ELSE IF Required(m) \subseteq facts THEN "none"
    ELSE "no_required_status_checks"

(* cache_key: an answer given for one mode is no answer for another.       *)
CacheKeys == (Modes \ {"off"}) \X Branches

(* Mutant: the mode is left out of the key.                                *)
ModelessCacheKey(m, b) == <<"required", b>>

CacheKey(m, b) == <<m, b>>

NotCached == [state |-> "none", age |-> 0]

TTL(state) == IF state = "plan" THEN PlanTTL ELSE VerifiedTTL

(* ProtectionCache::remembered *)
Remembered(m, b) == cache[CacheKey(m, b)].state

NoProbe == [facts |-> {}, probed |-> FALSE, plan |-> FALSE]

(* protection::classify *)
Classified(p, m) ==
    IF Unmet(p.facts, m) = "none" THEN "none"
    ELSE IF p.probed THEN Unmet(p.facts, m)
    ELSE IF p.plan THEN "plan_unsupported"
    ELSE "probe_unavailable"

-----------------------------------------------------------------------------
(* Initial states                                                          *)

States == {"open", "merged", "closed"}
MergeStates == {"ready", "behind", "dirty", "blocked"}

(* The checks of a fresh head: none yet, or one that passed.               *)
FirstRollups ==
    {<<>>} \cup {<<[check |-> n, started |-> 1, result |-> "passed"]>> :
                    n \in Names}

(* Protection is set up half by a ruleset and half by the classic API, as  *)
(* the two are unioned, and may be edited to less.                         *)
Protected == [rulesets |-> {"pull_request"}, classic |-> {"status_checks"}]

Protections ==
    {Protected, [Protected EXCEPT !.classic = {}], [api \in APIs |-> {}]}

NoSnap == [state |-> "open", head |-> NoHead, branch |-> NoBranch,
           merge |-> "ready", rollup |-> <<>>]

InForce(b) == UNION {rules[b][api] : api \in APIs}

NoNotice == [reason |-> "none", head |-> NoHead, stuck |-> FALSE,
             settled |-> None]

(* A pull request opened, with this of it in the ledger.                   *)
Opens(first) ==
    /\ pr \in [state: {"open"}, head: {1}, branch: Branches,
               merge: {"ready"}, rollup: FirstRollups]
    /\ rules = [b \in Branches |-> Protected]
    /\ refused \in Refusals
    /\ blocked = FALSE
    /\ mode = "relaxed"
    /\ entry = first
    /\ wait = None
    /\ notice = NoNotice
    /\ cache = [k \in CacheKeys |-> NotCached]
    /\ pc = "reconcile"
    /\ snap = NoSnap
    /\ probe = NoProbe
    /\ told = FALSE
    /\ seen = [b \in Branches |-> [f \in Facts |-> 0]]
    /\ events = 0

(* Its merge is asked for.                                                 *)
Init == Opens([NewEntry EXCEPT !.approval = 1])

-----------------------------------------------------------------------------
(* GitHub, dropr and the operator                                          *)

(* Every fact not in force any more grows older from the moment it ends.   *)
StillSeen(after) ==
    [b \in Branches |-> [f \in Facts |->
        IF f \in UNION {after[b][api] : api \in APIs} THEN 0 ELSE seen[b][f]]]

(* Once the entry is merged no look is taken at it any more.               *)
Event ==
    /\ entry.phase # "merged"
    /\ events < MaxEvents
    /\ events' = events + 1

Outside ==
    /\ Event
    /\ UNCHANGED <<entryVars, lookVars, cache>>

PullRequestMoves(after) ==
    /\ Outside
    /\ pr.state = "open"
    /\ pr' = after
    /\ UNCHANGED <<rules, refused, blocked, mode, seen>>

(* A worker pushes: the head is new, and nothing has run on it.            *)
Pushes ==
    \E m \in MergeStates :
        PullRequestMoves([pr EXCEPT !.head = @ + 1, !.merge = m,
                                    !.rollup = <<>>])

LatestStart ==
    IF pr.rollup = <<>> THEN 0
    ELSE CHOOSE s \in {pr.rollup[i].started : i \in DOMAIN pr.rollup} :
            \A i \in DOMAIN pr.rollup : pr.rollup[i].started <= s

(* A run is listed, started (with the latest one, or after it) or not yet. *)
RunListed ==
    /\ Len(pr.rollup) < MaxRuns
    /\ \E n \in Names \cup {Unnamed}, r \in Results,
          s \in {0, LatestStart, LatestStart + 1} :
         /\ s = 0 => r = "running"
         /\ PullRequestMoves([pr EXCEPT !.rollup =
                Append(@, [check |-> n, started |-> s, result |-> r])])

RunFinishes ==
    \E i \in DOMAIN pr.rollup, r \in Results \ {"running"} :
        /\ pr.rollup[i].result = "running"
        /\ PullRequestMoves([pr EXCEPT
               !.rollup[i].result = r,
               !.rollup[i].started = IF @ = 0 THEN LatestStart + 1 ELSE @])

(* A person aims it at another base, or GitHub stops saying which.         *)
Retargeted ==
    \E b \in (Branches \cup {NoBranch}) \ {pr.branch} :
        PullRequestMoves([pr EXCEPT !.branch = b])

MergeStateChanges ==
    \E m \in MergeStates \ {pr.merge} : PullRequestMoves([pr EXCEPT !.merge = m])

PersonConcludes ==
    \E s \in {"merged", "closed"} : PullRequestMoves([pr EXCEPT !.state = s])

ProtectionEdited ==
    /\ Outside
    /\ \E b \in Branches, p \in Protections :
         /\ p # rules[b]
         /\ rules' = [rules EXCEPT ![b] = p]
         /\ seen' = StillSeen(rules')
    /\ UNCHANGED <<pr, refused, blocked, mode>>

ModeEdited ==
    /\ Outside
    /\ pc = "reconcile"
    /\ mode' \in Modes \ {mode}
    /\ UNCHANGED <<pr, rules, refused, blocked, seen>>

PrerequisiteMoves ==
    /\ Outside
    /\ blocked' = ~blocked
    /\ UNCHANGED <<pr, rules, refused, mode, seen>>

(* Every age grows; an answer past its time to live is no answer.  A tick  *)
(* is long against a look, whose commands run under a timeout of seconds.  *)
Tick ==
    /\ pc = "reconcile"
    /\ cache' = [k \in CacheKeys |->
                   IF cache[k].state = "none" THEN NotCached
                   ELSE IF cache[k].age + 1 >= TTL(cache[k].state)
                   THEN NotCached
                   ELSE [cache[k] EXCEPT !.age = @ + 1]]
    /\ seen' = [b \in Branches |-> [f \in Facts |->
                  IF f \in InForce(b) THEN 0 ELSE Older(seen[b][f], VerifiedTTL)]]
    /\ wait' = Older(wait, MaxWait + 1)
    /\ notice' = [notice EXCEPT !.settled = Older(@, StuckAfter)]
    /\ UNCHANGED <<outsideVars, entry, told, lookVars, events>>

-----------------------------------------------------------------------------
(* What a person is told                                                   *)

(* merge_decision::decision asks merge_escalation::notify.  The hold cap's *)
(* own escalation stays quiet: the daemon looks again first.               *)
Terminates(reason) == reason \in {"closed_unmerged", "recovery_cap"}

Announced(reason) ==
    \/ Terminates(reason)
    \/ notice.reason # reason
    \/ notice.head # snap.head

Remember(reason) ==
    IF Terminates(reason) THEN notice
    ELSE [notice EXCEPT !.reason = reason, !.head = snap.head]

(* The reasons a look stops with and escalates for at once.                *)
Escalating == {"closed_unmerged", "behind_update_cap"}

(* The entry after the look, and what was said about it.                   *)
Concludes(after, saying, says) ==
    /\ entry' = after
    /\ notice' = IF after.phase = "merged" THEN NoNotice ELSE saying
    /\ told' = (after.phase = "escalated" /\ (told \/ says))
    /\ pc' = "sweep"
    /\ snap' = NoSnap
    /\ probe' = NoProbe

(* The Halted arm of merge_repo_pass::run: the recheck's budget, then the  *)
(* hold's, each saying what it escalates.  Automated handback is off.      *)
HaltOn(e, reason, head) ==
    LET recheck == Due(entry)
        looked == IF recheck THEN RecheckCharge(e, reason, head) ELSE e
        logged == reason \in Escalating /\ HoldRecorded(looked, reason, head)
    IN Concludes(Halt(e, recheck, reason, head, 0, "gone"),
                 IF logged THEN Remember(reason) ELSE notice,
                 \/ recheck /\ RecheckExhausts(e, reason, head)
                 \/ logged /\ Announced(reason))

Halts(reason) == HaltOn(entry, reason, snap.head)

-----------------------------------------------------------------------------
(* The daemon's pass                                                       *)

PassKeeps == UNCHANGED <<rules, refused, blocked, mode, seen, events>>


(* monitor::reconcile: the merge is seen (apply_pr), a prerequisite waited *)
(* for too long escalates (apply_prerequisite_wait), and what is terminal  *)
(* is given the time it became so (settle).                                *)
Reconcile ==
    /\ pc = "reconcile"
    /\ \E sees \in BOOLEAN :
         LET merges == sees /\ pr.state = "merged"
             waited == /\ ~merges
                       /\ ~Terminal(entry.phase)
                       /\ wait > MaxWait
             phase == IF merges THEN "merged"
                      ELSE IF waited THEN "escalated" ELSE entry.phase
         IN /\ entry' = [entry EXCEPT !.phase = phase]
            /\ told' = (phase = "escalated" /\ (told \/ waited))
            /\ notice' = IF Terminal(phase) /\ notice.settled = None
                         THEN [notice EXCEPT !.settled = 0] ELSE notice
            /\ pc' = IF InScope(entry') THEN "read" ELSE "sweep"
    /\ PassKeeps
    /\ UNCHANGED <<pr, wait, snap, probe, cache>>

Looks ==
    /\ PassKeeps
    /\ UNCHANGED <<pr, wait, cache>>

(* pull_request::read, and what a pull request no longer open concludes    *)
(* (merge_decision::concluded).                                            *)
ReadOpen ==
    /\ pc = "read"
    /\ pr.state = "open"
    /\ snap' = pr
    /\ pc' = "prerequisite"
    /\ Looks
    /\ UNCHANGED <<entry, notice, told, probe>>

ReadConcluded ==
    /\ pc = "read"
    /\ pr.state # "open"
    /\ LET merged == pr.state = "merged"
       IN HaltOn([entry EXCEPT !.phase = IF merged THEN "merged"
                                                   ELSE "escalated"],
                 IF merged THEN "already_merged" ELSE "closed_unmerged",
                 pr.head)
    /\ Looks

Fails ==
    /\ Event
    /\ UNCHANGED <<rules, refused, blocked, mode, seen>>

ReadFails ==
    /\ pc = "read"
    /\ HaltOn(entry, "unreadable", NoHead)
    /\ Fails
    /\ UNCHANGED <<pr, wait, cache>>

(* merge_dependency::apply: the first blocking answer starts the clock, a  *)
(* clear one stops it, and no answer leaves it running.                    *)
PrerequisiteBlocks ==
    /\ pc = "prerequisite"
    /\ blocked
    /\ wait' = IF wait = None THEN 0 ELSE wait
    /\ Halts("prerequisite")
    /\ PassKeeps
    /\ UNCHANGED <<pr, cache>>

PrerequisiteProbeFails ==
    /\ pc = "prerequisite"
    /\ Halts("prerequisite_probe_failed")
    /\ Fails
    /\ UNCHANGED <<pr, wait, cache>>

(* merge_gate::gate, down to where the protection APIs are asked: nothing  *)
(* to ask, an answer remembered, or a base that is not known.              *)
Waived(reason) == reason = "plan_unsupported" /\ AllowUnverifiable

PrerequisiteClears ==
    /\ pc = "prerequisite"
    /\ ~blocked
    /\ wait' = None
    /\ LET known == snap.branch \in Branches
           held == IF known /\ mode # "off"
                   THEN Remembered(mode, snap.branch) ELSE "none"
           proceed(step) == /\ pc' = step
                            /\ UNCHANGED <<entry, notice, told, snap, probe>>
       IN IF mode = "off" \/ held = "verified" THEN proceed("state")
          ELSE IF ~known THEN Halts("base_branch_unknown")
          ELSE IF held = "plan" /\ Waived("plan_unsupported")
          THEN proceed("state")
          ELSE IF held = "plan" THEN Halts("plan_unsupported")
          ELSE proceed("rulesets")
    /\ PassKeeps
    /\ UNCHANGED <<pr, cache>>

(* protection::api, and what is known once it has answered.                *)
Answers(api) ==
    IF api \in refused
    THEN {[probe EXCEPT !.plan = TRUE]}
    ELSE {[probe EXCEPT !.facts = @ \cup rules[snap.branch][api],
                        !.probed = TRUE]}

(* unmet_condition: what is remembered, and what is held.                  *)
Verdict(p) ==
    LET verdict == Classified(p, mode)
        state == CASE verdict = "none" -> "verified"
                   [] verdict = "plan_unsupported" -> "plan"
                   [] OTHER -> "none"
    IN /\ cache' = IF state = "none" THEN cache
                   ELSE [cache EXCEPT ![CacheKey(mode, snap.branch)] =
                            [state |-> state, age |-> 0]]
       /\ IF verdict = "none" \/ Waived(verdict)
          THEN /\ pc' = "state"
               /\ probe' = NoProbe
               /\ UNCHANGED <<entry, notice, told, snap>>
          ELSE Halts(verdict)

(* The rulesets endpoint first, the classic one only when the rules seen   *)
(* do not do.                                                              *)
AsksRulesets(p) ==
    IF Unmet(p.facts, mode) = "none" THEN Verdict(p)
    ELSE /\ probe' = p
         /\ pc' = "classic"
         /\ UNCHANGED <<entry, notice, told, snap, cache>>

ProbesRulesets ==
    /\ pc = "rulesets"
    /\ \E p \in Answers("rulesets") : AsksRulesets(p)
    /\ PassKeeps
    /\ UNCHANGED <<pr, wait>>

RulesetsUnavailable ==
    /\ pc = "rulesets"
    /\ AsksRulesets(probe)
    /\ Fails
    /\ UNCHANGED <<pr, wait>>

ProbesClassic ==
    /\ pc = "classic"
    /\ \E p \in Answers("classic") : Verdict(p)
    /\ PassKeeps
    /\ UNCHANGED <<pr, wait>>

ClassicUnavailable ==
    /\ pc = "classic"
    /\ Verdict(probe)
    /\ Fails
    /\ UNCHANGED <<pr, wait>>

(* merge_state::preempting_hold_reason before the checks, every other      *)
(* merge state after them (merge_apply::merge_state_cleared).              *)
Stops ==
    IF snap.merge = "dirty" THEN "dirty"
    ELSE IF Checks(snap.rollup) = "failed" THEN "checks_failed"
    ELSE IF Checks(snap.rollup) = "waiting" THEN "checks_waiting"
    ELSE IF snap.merge = "blocked" THEN "blocked"
    ELSE "none"

StateHolds ==
    /\ pc = "state"
    /\ Stops # "none"
    /\ Halts(Stops)
    /\ Looks

ClearTo(state) ==
    /\ pc = "state"
    /\ Stops = "none"
    /\ snap.merge = state

(* merge_state::plan_update: the budget of branch updates is spent.        *)
UpdateCapped ==
    /\ ClearTo("behind")
    /\ entry.branchUpdates >= MaxUpdates
    /\ HaltOn(Escalate(entry), "behind_update_cap", snap.head)
    /\ Looks

Charged == [entry EXCEPT !.branchUpdates = @ + 1]

(* gh pr update-branch: the head moves, and its checks start over.         *)
UpdatesBranch ==
    /\ ClearTo("behind")
    /\ entry.branchUpdates < MaxUpdates
    /\ pr.state = "open"
    /\ pr' = [pr EXCEPT !.head = @ + 1, !.merge = "ready", !.rollup = <<>>]
    /\ HaltOn([Charged EXCEPT !.updateHead = snap.head],
              "behind_branch_updated", snap.head)
    /\ PassKeeps
    /\ UNCHANGED <<wait, cache>>

UpdateFails ==
    /\ ClearTo("behind")
    /\ entry.branchUpdates < MaxUpdates
    /\ HaltOn(Charged, "behind_update_failed", snap.head)
    /\ Fails
    /\ UNCHANGED <<pr, wait, cache>>

(* merge_apply::merge_now, of whatever revision is there by now.           *)
Merges ==
    /\ ClearTo("ready")
    /\ pr.state = "open"
    /\ pr' = [pr EXCEPT !.state = "merged"]
    /\ Concludes(Landed(entry), notice, FALSE)
    /\ PassKeeps
    /\ UNCHANGED <<wait, cache>>

MergeFails ==
    /\ ClearTo("ready")
    /\ \E reason \in {"merge_failed", "merge_refused"} : Halts(reason)
    /\ Fails
    /\ UNCHANGED <<pr, wait, cache>>

(* Nothing is left to merge or update: the command fails.                  *)
ActsTooLate ==
    /\ pr.state # "open"
    /\ \/ ClearTo("ready") /\ Halts("merge_failed")
       \/ /\ ClearTo("behind")
          /\ entry.branchUpdates < MaxUpdates
          /\ HaltOn(Charged, "behind_update_failed", snap.head)
    /\ Looks

(* Mutant: the sweep starts the clock anew every pass.                     *)
RestampedStuckSince == IF Due(entry) /\ ~notice.stuck THEN 0 ELSE notice.settled

(* Since when the sweep has an entry down as escalated and owed a look.    *)
StuckSince ==
    IF Due(entry) /\ ~notice.stuck /\ notice.settled = None
    THEN 0 ELSE notice.settled

(* merge_escalation::sweep_stuck: an entry still owed a look that has been *)
(* escalated for long is told of after all, once.                          *)
SweepStuck ==
    /\ pc = "sweep"
    /\ LET stuck == Due(entry) /\ ~notice.stuck /\ StuckSince >= StuckAfter
       IN /\ notice' = [notice EXCEPT !.settled = StuckSince,
                                      !.stuck = @ \/ stuck]
          /\ told' = (told \/ stuck)
    /\ pc' = "reconcile"
    /\ PassKeeps
    /\ UNCHANGED <<pr, entry, wait, snap, probe, cache>>

(* RuntimeRequest::BranchUpdated: an operator has updated the branch by    *)
(* hand (runtime_request::apply_request::reset_branch_updates).            *)
OperatorUpdates ==
    /\ Event
    /\ pc = "reconcile"
    /\ pr.state = "open"
    /\ entry.phase # "merged"
    /\ pr' = [pr EXCEPT !.head = @ + 1, !.merge = "ready", !.rollup = <<>>]
    /\ entry' = ResetBranchUpdates(entry)
    /\ told' = FALSE
    /\ UNCHANGED <<rules, refused, blocked, mode, seen, wait, notice, lookVars,
                   cache>>

-----------------------------------------------------------------------------
(* Specification                                                           *)

Moves ==
    \/ Pushes \/ RunListed \/ RunFinishes \/ Retargeted
    \/ MergeStateChanges \/ PersonConcludes
    \/ ProtectionEdited \/ ModeEdited \/ PrerequisiteMoves

PassStep ==
    \/ Reconcile \/ ReadOpen \/ ReadConcluded \/ ReadFails
    \/ PrerequisiteBlocks \/ PrerequisiteProbeFails \/ PrerequisiteClears
    \/ ProbesRulesets \/ RulesetsUnavailable
    \/ ProbesClassic \/ ClassicUnavailable
    \/ StateHolds \/ UpdateCapped \/ UpdatesBranch \/ UpdateFails
    \/ Merges \/ MergeFails \/ ActsTooLate \/ SweepStuck

Next == PassStep \/ Moves \/ OperatorUpdates \/ Tick

Spec == Init /\ [][Next]_vars

(* The daemon polls on a timer, every command it waits for runs under a    *)
(* timeout, and time passes between the passes.                            *)
FairSpec == Spec /\ WF_vars(PassStep) /\ SF_vars(Tick)

-----------------------------------------------------------------------------
(* Properties                                                              *)

(* A merge or an update is only ever tried on a rollup in which, for every *)
(* check, a run that started last has passed and none of those started     *)
(* with it is in flight (check_rollup::classify).                          *)
LastRuns(rollup, i) ==
    {j \in DOMAIN rollup :
        /\ SameCheck(rollup, i, j)
        /\ \A k \in DOMAIN rollup :
             SameCheck(rollup, i, k) => rollup[k].started <= rollup[j].started}

Acts == pc = "state" /\ pc' = "sweep" /\ Stops = "none"

NewestRunsPassed ==
    [][Acts => /\ snap.rollup # <<>>
               /\ \A i \in DOMAIN snap.rollup :
                    LET last == {snap.rollup[j].result :
                                    j \in LastRuns(snap.rollup, i)}
                    IN "passed" \in last /\ "running" \notin last]_vars

(* The gate lets nothing past on protection that is not in force on the    *)
(* branch aimed at and was not within the last VERIFIED_TTL: not on an     *)
(* answer for another branch or a laxer mode, nor on one that has expired  *)
(* (protection::unmet_condition).                                          *)
Passes == pc # "state" /\ pc' = "state"

ProtectionWasInForce ==
    [][Passes /\ refused = {} =>
         \A f \in Required(mode) : /\ snap.branch \in Branches
                                   /\ seen[snap.branch][f] < VerifiedTTL]_vars

(* A merge that was asked for is made, or somebody is told why not, unless *)
(* things keep changing: no hold, cap, recheck or wait is the quiet end of *)
(* it (merge_escalation.rs).                                               *)
Answered == entry.phase = "merged" \/ told

EndsToldOrMerged == (entry.phase = "pr_opened" /\ ~notice.stuck) ~> Answered

(* What acts on a pull request was cleared, of checks and of protection.   *)
GateHolds == NewestRunsPassed /\ ProtectionWasInForce

===============================================================================
