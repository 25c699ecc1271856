-------------------------------- MODULE Landing --------------------------------
(***************************************************************************)
(* Landing, cleaning up, killing and restarting the agents of one          *)
(* repository: git/post_merge.rs, git/merge_flow.rs, git/merge_lock.rs and *)
(* their callers, the daemon (overseer/exec), the terminal UI (ui/actions) *)
(* and the MCP tools (mcp/tools/merge.rs and actions/lifecycle.rs).        *)
(*                                                                         *)
(* Four actors run at once: the daemon's pass, the UI thread, the UI's     *)
(* merge worker and an MCP server.  Merges, cleanups and the MCP tools     *)
(* take the repository's merge lock; the UI's own kill, branch delete and  *)
(* restart do not.  An operation is a sequence of git, gh and tmux         *)
(* commands, one step each, any of which may fail; the worker in the       *)
(* worktree and GitHub go on in between, and a process may die between any *)
(* two steps.                                                              *)
(*                                                                         *)
(* Not here: the merge the daemon makes itself (MergePass), a merge queued *)
(* as an approval (MergePass), remote branches, the fast-forward of the    *)
(* local base branch (best effort, read by MergePass only), shell sessions.*)
(***************************************************************************)
EXTENDS Integers, FiniteSets

CONSTANTS
    Agents,        \* agents of the repository
    NoAgent,       \* no agent
    MaxEdits,      \* bound: edits workers make
    MaxFaults,     \* bound: commands that fail and processes that die
    MaxRequests    \* bound: keys and tool calls of operators

ASSUME LandingAssumption ==
    /\ IsFiniteSet(Agents)
    /\ NoAgent \notin Agents
    /\ {MaxEdits, MaxFaults, MaxRequests} \subseteq Nat

Actors == {"daemon", "ui", "job", "mcp"}
Nobody == "nobody"

VARIABLES
    row,        \* agents with a row in the registry file
    worktree,   \* [Agents -> {"clean", "dirty", "none"}]
    branch,     \* [Agents -> Branches]: the local branch against the base
    fetched,    \* agents whose landed content origin/<base> was fetched with
    session,    \* agents whose tmux session is alive
    pr,         \* [Agents -> {"open", "merged"}]: pull requests on GitHub
    observed,   \* agents the ledger has at the phase Merged
    todo,       \* agents the daemon's pass has yet to clean up
    lock,       \* holder of the merge lock, or Nobody
    op,         \* [Actors -> Operations]: what each actor is in the middle of
    screen,     \* agents the UI lists
    dialog,     \* the UI's open dialog
    candidates, \* agents the last status capture offered for auto cleanup
    edits, faults, requests

tree == <<worktree, branch, fetched, pr>>
ui == <<screen, dialog, candidates>>
counters == <<edits, faults, requests>>
vars == <<row, tree, session, observed, todo, lock, op, ui, counters>>

\* "pushed": its commits are in the pull request; "local": it has commits
\* that are not; "landed": its content is in the base on GitHub.
Branches == {"local", "pushed", "landed", "none"}

Tasks == {"idle", "land", "clean", "reap", "kill", "restart"}
Steps == {"idle", "lock", "merge", "base", "remove", "force", "branch",
          "delete", "finish", "forget", "tree", "take", "leave"}
Operations == [task: Tasks, agent: Agents \union {NoAgent}, at: Steps,
               force: BOOLEAN, delete: BOOLEAN,
               base: BOOLEAN,     \* Cleanup::run resolved the base branch
               removed: BOOLEAN]  \* CleanupOutcome::worktree_removed, and
                                  \* for a kill that there is no worktree

Idle == [task |-> "idle", agent |-> NoAgent, at |-> "idle", force |-> FALSE,
         delete |-> FALSE, base |-> FALSE, removed |-> FALSE]

Begin(task, a, step) == [Idle EXCEPT !.task = task, !.agent = a, !.at = step]

NoDialog == [ask |-> "none", agent |-> NoAgent]
Ask(question, a) == [ask |-> question, agent |-> a]
Dialogs == [ask: {"none", "land", "clean", "kill", "force", "branch"},
            agent: Agents \union {NoAgent}]

Init ==
    /\ row = Agents
    /\ worktree = [a \in Agents |-> "clean"]
    /\ branch = [a \in Agents |-> "pushed"]
    /\ fetched = {}
    /\ session = Agents
    /\ pr = [a \in Agents |-> "open"]
    /\ observed = {}
    /\ todo = {}
    /\ lock = Nobody
    /\ op = [x \in Actors |-> Idle]
    /\ screen = Agents
    /\ dialog = NoDialog
    /\ candidates = {}
    /\ edits = 0
    /\ faults = 0
    /\ requests = 0

-----------------------------------------------------------------------------
(* Helpers *)

\* The session is gone and so is the worktree, the branch is not.
BranchOnly(a) == a \notin session /\ worktree[a] = "none" /\ branch[a] # "none"

\* The content of the branch is in origin/<base> as last fetched.
ContentMerged(a) == branch[a] = "landed" /\ a \in fetched

Goto(x, step) == op' = [op EXCEPT ![x].at = step]

\* The guard of the lock is dropped with the closure it was taken for.
Unlocked(x) == lock' = IF lock = x THEN Nobody ELSE lock

End(x) == op' = [op EXCEPT ![x] = Idle] /\ Unlocked(x)

CommandFails ==
    /\ faults < MaxFaults
    /\ faults' = faults + 1
    /\ UNCHANGED <<edits, requests>>

\* A failed step of a cleanup: the daemon's goes on, a watched one stops.
Record(x, next) ==
    IF op[x].task = "reap" THEN Goto(x, next) /\ UNCHANGED lock ELSE End(x)

Request ==
    /\ requests < MaxRequests
    /\ requests' = requests + 1
    /\ UNCHANGED <<edits, faults>>

Merged(a) ==
    /\ pr' = [pr EXCEPT ![a] = "merged"]
    /\ branch' = [branch EXCEPT ![a] = IF @ = "pushed" THEN "landed" ELSE @]

-----------------------------------------------------------------------------
(* Workers and GitHub *)

Edit(a) ==
    /\ a \in session /\ worktree[a] = "clean"
    /\ edits < MaxEdits
    /\ edits' = edits + 1
    /\ worktree' = [worktree EXCEPT ![a] = "dirty"]
    /\ UNCHANGED <<row, branch, fetched, pr, session, observed, todo, lock, op,
                   ui, faults, requests>>

Commit(a) ==
    /\ a \in session /\ worktree[a] = "dirty"
    /\ worktree' = [worktree EXCEPT ![a] = "clean"]
    /\ branch' = [branch EXCEPT ![a] = "local"]
    /\ UNCHANGED <<row, fetched, pr, session, observed, todo, lock, op, ui,
                   counters>>

Push(a) ==
    /\ a \in session /\ branch[a] = "local" /\ pr[a] = "open"
    /\ branch' = [branch EXCEPT ![a] = "pushed"]
    /\ UNCHANGED <<row, worktree, fetched, pr, session, observed, todo, lock,
                   op, ui, counters>>

SessionExits(a) ==
    /\ a \in session
    /\ session' = session \ {a}
    /\ UNCHANGED <<row, tree, observed, todo, lock, op, ui, counters>>

\* On github.com, with gh, or by the daemon's auto-merge pass.
MergedElsewhere(a) ==
    /\ pr[a] = "open"
    /\ Merged(a)
    /\ UNCHANGED <<row, worktree, fetched, session, observed, todo, lock, op,
                   ui, counters>>

-----------------------------------------------------------------------------
(* The merge lock: taken if free, never waited for *)

FirstStep(task) ==
    CASE task = "land" -> "merge"
      [] task \in {"clean", "reap"} -> "base"
      [] task = "kill" -> "tree"
      [] task = "restart" -> "finish"

TakeLock(x) ==
    /\ op[x].at = "lock"
    /\ lock = Nobody
    /\ lock' = x
    /\ Goto(x, FirstStep(op[x].task))
    /\ UNCHANGED <<row, tree, session, observed, todo, ui, counters>>

LockBusy(x) ==
    /\ op[x].at = "lock"
    /\ lock # Nobody
    /\ End(x)
    /\ UNCHANGED <<row, tree, session, observed, todo, ui, counters>>

-----------------------------------------------------------------------------
(* The merge sequence and the cleanup it shares with the daemon *)

\* gh pr merge.
MergePr(x) ==
    /\ op[x].at = "merge"
    /\ \/ pr[op[x].agent] = "open" /\ Merged(op[x].agent)
          /\ Goto(x, "base") /\ UNCHANGED <<lock, counters>>
       \/ pr[op[x].agent] = "merged" /\ End(x)
          /\ UNCHANGED <<pr, branch, counters>>
       \/ CommandFails /\ End(x) /\ UNCHANGED <<pr, branch>>
    /\ UNCHANGED <<row, worktree, fetched, session, observed, todo, ui>>

\* The base branch is resolved and fetched.
FetchBase(x) ==
    /\ op[x].at = "base"
    /\ \/ /\ op' = [op EXCEPT ![x] = [@ EXCEPT !.at = "remove", !.base = TRUE]]
          /\ fetched' = fetched \union {a \in Agents : branch[a] = "landed"}
          /\ UNCHANGED <<lock, counters>>
       \/ /\ CommandFails
          /\ IF op[x].task = "reap"
             THEN /\ \E resolved \in BOOLEAN :
                        op' = [op EXCEPT ![x] = [@ EXCEPT !.at = "remove",
                                                          !.base = resolved]]
                  /\ UNCHANGED lock
             ELSE End(x)
          /\ UNCHANGED fetched
    /\ UNCHANGED <<row, worktree, branch, pr, session, observed, todo, ui>>

Removed(x) ==
    /\ worktree' = [worktree EXCEPT ![op[x].agent] = "none"]
    /\ op' = [op EXCEPT ![x] = [@ EXCEPT !.at = "branch", !.removed = TRUE]]
    /\ UNCHANGED lock

\* The pull request has merged, whatever the branch holds by now.
TrustingLanded(x) == op[x].base /\ pr[op[x].agent] = "merged"

Landed(x) == op[x].base /\ ContentMerged(op[x].agent)

RemoveWorktree(x) ==
    /\ op[x].at = "remove"
    /\ \/ worktree[op[x].agent] # "dirty" /\ Removed(x) /\ UNCHANGED counters
       \/ /\ worktree[op[x].agent] = "dirty"
          /\ IF Landed(x) THEN Goto(x, "force") /\ UNCHANGED lock
                          ELSE Record(x, "branch")
          /\ UNCHANGED <<worktree, counters>>
       \/ CommandFails /\ Record(x, "branch") /\ UNCHANGED worktree
    /\ UNCHANGED <<row, branch, fetched, pr, session, observed, todo, ui>>

\* git worktree remove --force, or its refusal when the worktree is gone.
ForceRemove(x) ==
    /\ op[x].at = "force"
    /\ \/ /\ worktree[op[x].agent] # "none"
          /\ Removed(x) /\ UNCHANGED counters
       \/ /\ worktree[op[x].agent] = "none"
          /\ Record(x, "branch") /\ UNCHANGED <<worktree, counters>>
       \/ CommandFails /\ Record(x, "branch") /\ UNCHANGED worktree
    /\ UNCHANGED <<row, branch, fetched, pr, session, observed, todo, ui>>

\* Whether the branch goes: not while its worktree stays, and only with its
\* content in the base.
CheckBranch(x) ==
    /\ op[x].at = "branch"
    /\ \/ /\ Goto(x, IF op[x].removed /\ branch[op[x].agent] # "none" /\ Landed(x)
                     THEN "delete" ELSE "finish")
          /\ UNCHANGED <<lock, counters>>
       \/ op[x].removed /\ CommandFails /\ Record(x, "finish")
    /\ UNCHANGED <<row, tree, session, observed, todo, ui>>

\* git branch -D, which refuses a branch that is gone.
DeleteBranch(x) ==
    /\ op[x].at = "delete"
    /\ \/ /\ branch[op[x].agent] # "none"
          /\ branch' = [branch EXCEPT ![op[x].agent] = "none"]
          /\ Goto(x, "finish") /\ UNCHANGED <<lock, counters>>
       \/ /\ branch[op[x].agent] = "none"
          /\ Record(x, "finish") /\ UNCHANGED <<branch, counters>>
       \/ CommandFails /\ Record(x, "finish") /\ UNCHANGED branch
    /\ UNCHANGED <<row, worktree, fetched, pr, session, observed, todo, ui>>

\* The sessions are killed and the lock goes back, before the row does.
FinishMerge(x) ==
    /\ op[x].at = "finish" /\ op[x].task \in {"land", "clean"}
    /\ session' = session \ {op[x].agent}
    /\ Goto(x, "forget") /\ Unlocked(x)
    /\ UNCHANGED <<row, tree, observed, todo, ui, counters>>

\* The row goes whatever became of the worktree.
HastyFinishReap(x) ==
    /\ op[x].at = "finish" /\ op[x].task = "reap"
    /\ row' = row \ {op[x].agent}
    /\ End(x)
    /\ UNCHANGED <<tree, session, observed, todo, ui, counters>>

\* The daemon drops the row under the lock, once the worktree is gone.
FinishReap(x) ==
    /\ op[x].at = "finish" /\ op[x].task = "reap"
    /\ \/ /\ row' = IF op[x].removed THEN row \ {op[x].agent} ELSE row
          /\ UNCHANGED counters
       \/ op[x].removed /\ CommandFails /\ UNCHANGED row
    /\ End(x)
    /\ UNCHANGED <<tree, session, observed, todo, ui>>

FinishRestart(x) ==
    /\ op[x].at = "finish" /\ op[x].task = "restart"
    /\ session' = session \union {op[x].agent}
    /\ End(x)
    /\ UNCHANGED <<row, tree, observed, todo, ui, counters>>

Closed(a) == IF dialog.agent = a THEN NoDialog ELSE dialog

\* Best effort: a failed write leaves the row to the daemon.  The UI forgets
\* an agent it still lists, and closes the dialog about it.
Forget(x) ==
    /\ op[x].at = "forget"
    /\ \/ row' = row \ {op[x].agent} /\ UNCHANGED counters
       \/ CommandFails /\ UNCHANGED row
       \/ x = "job" /\ op[x].agent \notin screen /\ UNCHANGED <<row, counters>>
    /\ IF x = "job"
       THEN /\ screen' = screen \ {op[x].agent}
            /\ dialog' = Closed(op[x].agent)
       ELSE UNCHANGED <<screen, dialog>>
    /\ End(x)
    /\ UNCHANGED <<tree, session, observed, todo, candidates>>

-----------------------------------------------------------------------------
(* Killing an agent, from the UI and from MCP *)

\* Without force a dirty tree is refused before anything is touched.
CheckTree(x) ==
    /\ op[x].at = "tree"
    /\ LET a == op[x].agent IN
       \/ /\ op[x].removed \/ op[x].force \/ worktree[a] # "dirty"
          /\ op' = [op EXCEPT ![x] =
                       [@ EXCEPT !.at = IF op[x].removed THEN "leave" ELSE "take",
                                 !.base = worktree[a] # "none"]]
          /\ UNCHANGED <<lock, dialog, counters>>
       \/ /\ ~op[x].removed /\ ~op[x].force /\ worktree[a] = "dirty"
          /\ End(x)
          /\ dialog' = IF x = "ui" THEN Ask("force", a) ELSE dialog
          /\ UNCHANGED counters
       \/ ~op[x].removed /\ CommandFails /\ End(x) /\ UNCHANGED dialog
    /\ UNCHANGED <<row, tree, session, observed, todo, screen, candidates>>

\* The worktree found clean a moment ago goes with force.
ForcefulTakeDown(x) ==
    /\ op[x].at = "take"
    /\ session' = session \ {op[x].agent}
    /\ worktree' = [worktree EXCEPT ![op[x].agent] = "none"]
    /\ Goto(x, "leave")
    /\ UNCHANGED <<row, branch, fetched, pr, observed, todo, lock, ui, counters>>

\* The sessions go first, whether or not the worktree can be removed.
TakeDown(x) ==
    /\ op[x].at = "take"
    /\ LET a == op[x].agent
           refused == /\ op[x].base
                      /\ \/ worktree[a] = "none"
                         \/ worktree[a] = "dirty" /\ ~op[x].force
       IN /\ session' = session \ {a}
          /\ \/ /\ ~refused
                /\ worktree' = [worktree EXCEPT ![a] = "none"]
                /\ Goto(x, "leave") /\ UNCHANGED <<lock, dialog, counters>>
             \/ /\ refused \/ CommandFails
                /\ refused => UNCHANGED counters
                /\ End(x)
                /\ dialog' = IF x = "ui" THEN Ask("force", a) ELSE dialog
                /\ UNCHANGED worktree
    /\ UNCHANGED <<row, branch, fetched, pr, observed, todo, screen, candidates>>

\* The UI asks about a branch that remains; MCP deletes it if told to.
LeaveUi ==
    /\ op["ui"].at = "leave"
    /\ LET a == op["ui"].agent IN
       /\ IF branch[a] # "none"
          THEN dialog' = Ask("branch", a) /\ UNCHANGED <<row, screen>>
          ELSE /\ row' = row \ {a}
               /\ screen' = row \ {a}
               /\ UNCHANGED dialog
       /\ End("ui")
    /\ UNCHANGED <<tree, session, observed, todo, candidates, counters>>

LeaveMcp ==
    /\ op["mcp"].at = "leave"
    /\ LET a == op["mcp"].agent
           kept == branch[a] # "none" /\ ~op["mcp"].delete
       IN \/ /\ branch' = [branch EXCEPT ![a] = IF kept THEN @ ELSE "none"]
             /\ IF kept THEN End("mcp") ELSE Goto("mcp", "forget") /\ Unlocked("mcp")
             /\ UNCHANGED counters
          \/ CommandFails /\ End("mcp") /\ UNCHANGED branch
    /\ UNCHANGED <<row, worktree, fetched, pr, session, observed, todo, ui>>

-----------------------------------------------------------------------------
(* The daemon *)

\* A pass cleans up what it sees merge, and does not come back.
OneShotPass ==
    /\ op["daemon"] = Idle /\ todo = {}
    /\ observed' = observed \union {a \in Agents : pr[a] = "merged"}
    /\ todo' = (observed' \ observed) \intersect row
    /\ UNCHANGED <<row, tree, session, lock, op, ui, counters>>

\* Reconcile reads the pull request; a pass cleans up every merged entry whose
\* agent is still registered.
Pass ==
    /\ op["daemon"] = Idle /\ todo = {}
    /\ observed' = observed \union {a \in Agents : pr[a] = "merged"}
    /\ todo' = observed' \intersect row
    /\ UNCHANGED <<row, tree, session, lock, op, ui, counters>>

\* KillSession, then RemoveWorktree up to the lock, unless the first failed.
Reap(a) ==
    /\ op["daemon"] = Idle /\ a \in todo
    /\ todo' = todo \ {a}
    /\ \/ /\ session' = session \ {a}
          /\ op' = [op EXCEPT !["daemon"] =
                       IF a \in row THEN Begin("reap", a, "lock") ELSE Idle]
          /\ UNCHANGED counters
       \/ CommandFails /\ UNCHANGED <<session, op>>
    /\ UNCHANGED <<row, tree, observed, lock, ui>>

-----------------------------------------------------------------------------
(* The terminal UI *)

UiFree == op["ui"] = Idle /\ dialog = NoDialog
Merging(a) == op["job"].agent = a

\* merge_selected: a clean tree, and a dialog by the state of the pull request.
AskLand(a) ==
    /\ UiFree /\ a \in screen /\ op["job"] = Idle
    /\ ~BranchOnly(a) /\ worktree[a] = "clean"
    /\ Request
    /\ dialog' = Ask(IF pr[a] = "open" THEN "land" ELSE "clean", a)
    /\ UNCHANGED <<row, tree, session, observed, todo, lock, op, screen, candidates>>

AskKill(a) ==
    /\ UiFree /\ a \in screen /\ ~Merging(a)
    /\ Request
    /\ dialog' = Ask(IF BranchOnly(a) THEN "branch" ELSE "kill", a)
    /\ UNCHANGED <<row, tree, session, observed, todo, lock, op, screen, candidates>>

\* restart_selected does not take the merge lock.
RestartUi(a) ==
    /\ UiFree /\ a \in screen /\ ~Merging(a) /\ ~BranchOnly(a)
    /\ Request
    /\ session' = session \union {a}
    /\ UNCHANGED <<row, tree, observed, todo, lock, op, ui>>

Cancel ==
    /\ dialog # NoDialog
    /\ dialog' = NoDialog
    /\ UNCHANGED <<row, tree, session, observed, todo, lock, op, screen,
                   candidates, counters>>

\* start_merge_job: one job at a time, and any dialog closes.
StartJob(task, a) ==
    /\ dialog' = NoDialog
    /\ op' = IF a \in screen /\ op["job"] = Idle
             THEN [op EXCEPT !["job"] = Begin(task, a, "lock")] ELSE op

ConfirmMerge ==
    /\ dialog.ask \in {"land", "clean"}
    /\ StartJob(dialog.ask, dialog.agent)
    /\ UNCHANGED <<row, tree, session, observed, todo, lock, screen,
                   candidates, counters>>

\* Without the merge lock, unless the UI's own job is on this agent.
ConfirmKill ==
    /\ dialog.ask \in {"kill", "force"}
    /\ dialog' = NoDialog
    /\ op' = IF dialog.agent \in screen /\ ~Merging(dialog.agent)
             THEN [op EXCEPT !["ui"] = [Begin("kill", dialog.agent, "tree")
                                          EXCEPT !.force = dialog.ask = "force"]]
             ELSE op
    /\ UNCHANGED <<row, tree, session, observed, todo, lock, screen,
                   candidates, counters>>

\* delete_agent_branch: git branch -D whatever the branch holds.
ConfirmDelete ==
    /\ dialog.ask = "branch"
    /\ dialog' = NoDialog
    /\ LET a == dialog.agent
           deletes == a \in screen /\ ~Merging(a) /\ branch[a] # "none"
                      /\ worktree[a] = "none"
       IN /\ branch' = [branch EXCEPT ![a] = IF deletes THEN "none" ELSE @]
          /\ row' = IF deletes THEN row \ {a} ELSE row
          /\ screen' = IF deletes THEN row \ {a} ELSE screen
    /\ UNCHANGED <<worktree, fetched, pr, session, observed, todo, lock, op,
                   candidates, counters>>

\* A discovery pass: the rows on disk replace the list.
Refresh ==
    /\ op["ui"] = Idle
    /\ screen # row
    /\ screen' = row
    /\ dialog' = IF dialog.agent \in row THEN dialog ELSE NoDialog
    /\ UNCHANGED <<row, tree, session, observed, todo, lock, op, candidates, counters>>

\* The status capture looks for dead agents with a merged pull request and a
\* clean tree; the cleanup starts when the UI applies what it found.
CaptureStatus ==
    /\ candidates' = {a \in screen \intersect observed :
                         a \notin session /\ worktree[a] # "dirty" /\ ~BranchOnly(a)}
    /\ candidates' # candidates
    /\ UNCHANGED <<row, tree, session, observed, todo, lock, op, screen, dialog,
                   counters>>

AutoCleanup(a) ==
    /\ op["ui"] = Idle /\ op["job"] = Idle
    /\ a \in candidates \intersect screen
    /\ candidates' = candidates \ {a}
    /\ StartJob("clean", a)
    /\ UNCHANGED <<row, tree, session, observed, todo, lock, screen, counters>>

-----------------------------------------------------------------------------
(* The MCP tools: the row and the pull request are read before the lock *)

McpStart(a, operation) ==
    /\ op["mcp"] = Idle /\ a \in row
    /\ Request
    /\ op' = [op EXCEPT !["mcp"] = operation]
    /\ UNCHANGED <<row, tree, session, observed, todo, lock, ui>>

McpMerge(a) ==
    McpStart(a, Begin(IF pr[a] = "open" THEN "land" ELSE "clean", a, "lock"))

\* A branch-only agent has no worktree to take down.
McpKill(a, force, delete) ==
    McpStart(a, [Begin("kill", a, "lock") EXCEPT
                   !.force = force, !.delete = delete, !.removed = BranchOnly(a)])

McpRestart(a) == ~BranchOnly(a) /\ McpStart(a, Begin("restart", a, "lock"))

-----------------------------------------------------------------------------
(* A process dies; the kernel drops its lock *)

Crash(dying) ==
    /\ faults < MaxFaults
    /\ faults' = faults + 1
    /\ \E x \in dying : op[x] # Idle
    /\ op' = [x \in Actors |-> IF x \in dying THEN Idle ELSE op[x]]
    /\ lock' = IF lock \in dying THEN Nobody ELSE lock
    /\ IF "ui" \in dying
       THEN screen' = row /\ dialog' = NoDialog /\ candidates' = {}
       ELSE UNCHANGED ui
    /\ todo' = IF "daemon" \in dying THEN {} ELSE todo
    /\ UNCHANGED <<row, tree, session, observed, edits, requests>>

-----------------------------------------------------------------------------
\* What an actor that has begun an operation does next.
Step(x) ==
    \/ TakeLock(x) \/ LockBusy(x)
    \/ MergePr(x) \/ FetchBase(x)
    \/ RemoveWorktree(x) \/ ForceRemove(x) \/ CheckBranch(x) \/ DeleteBranch(x)
    \/ FinishMerge(x) \/ FinishReap(x) \/ FinishRestart(x) \/ Forget(x)
    \/ CheckTree(x) \/ TakeDown(x)

Worker(a) == Edit(a) \/ Commit(a) \/ Push(a) \/ SessionExits(a) \/ MergedElsewhere(a)

Operator(a) ==
    \/ AskLand(a) \/ AskKill(a) \/ RestartUi(a) \/ AutoCleanup(a)
    \/ McpMerge(a) \/ McpRestart(a)
    \/ \E force, delete \in BOOLEAN : McpKill(a, force, delete)

Next ==
    \/ \E x \in Actors : Step(x)
    \/ LeaveUi \/ LeaveMcp
    \/ \E a \in Agents : Worker(a) \/ Operator(a) \/ Reap(a)
    \/ Pass
    \/ Cancel \/ ConfirmMerge \/ ConfirmKill \/ ConfirmDelete
    \/ Refresh \/ CaptureStatus
    \/ \E dying \in {{"daemon"}, {"mcp"}, {"ui", "job"}} : Crash(dying)

Spec == Init /\ [][Next]_vars

\* What has begun goes on, and the daemon's passes go on; a worker or an
\* operator may stop at any point, and a process need not die.
FairSpec ==
    /\ Spec
    /\ \A x \in Actors : WF_vars(Step(x))
    /\ WF_vars(LeaveUi) /\ WF_vars(LeaveMcp)
    /\ WF_vars(Pass) /\ WF_vars(\E a \in Agents : Reap(a))

-----------------------------------------------------------------------------
(* Properties *)

\* No registry row is dropped while the worktree of its agent is there,
\* whoever drops it, whatever failed before and whoever else was at it: a
\* worktree without its row is one nobody comes back for.
RowsOutliveWorktrees ==
    [][\A a \in row \ row' : worktree[a] = "none"]_vars

DeleteAsked(a) ==
    \/ dialog = Ask("branch", a)
    \/ op["mcp"].agent = a /\ op["mcp"].delete

\* A branch with commits the base lacks is deleted only where an operator
\* asked for that: a cleanup deletes what has landed (git branch -D is safe
\* only because of the check before it), and nothing is committed in between.
CommitsKept ==
    [][\A a \in Agents : branch[a] \in {"local", "pushed"} /\ branch'[a] = "none"
          => DeleteAsked(a)]_vars

\* A worktree with uncommitted work goes only with a forced kill or after its
\* pull request has merged.
UncommittedKept ==
    [][\A a \in Agents : worktree[a] = "dirty" /\ worktree'[a] = "none"
          => \/ pr[a] = "merged"
             \/ \E x \in Actors : op[x].agent = a /\ op[x].force]_vars

\* Work a cleanup must not touch: uncommitted, in a worktree whose branch has
\* commits the base lacks.
Unfinished(a) == worktree[a] = "dirty" /\ branch[a] # "landed"

\* The daemon comes back until every agent with a merged pull request has no
\* row and no worktree any more: cleanups that fail or die half-way, a lock
\* somebody holds and rows somebody failed to drop only delay it.
MergedLeaves ==
    \A a \in Agents :
        []<>(pr[a] = "merged" => a \notin row \/ Unfinished(a))

\* Whoever lands or kills, work nobody gave up is kept, and so is the row that
\* leads to it.
WorkKept == RowsOutliveWorktrees /\ CommitsKept /\ UncommittedKept

===============================================================================
