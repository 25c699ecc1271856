--------------------------------- MODULE Reach ---------------------------------
(***************************************************************************)
(* What the daemon reads of the work behind one ledger entry, and what it  *)
(* concludes from not finding it: the probes of the task board and of      *)
(* GitHub (overseer/daemon/external_state.rs, dropr/repo_tasks.rs), the    *)
(* rule that takes a merged pull request over (monitor/apply.rs, see       *)
(* Monitor), and the retention rule that forgets an escalated entry with   *)
(* nothing left to act on (overseer/daemon/retention.rs; the window over   *)
(* settled entries is in Dispatch).                                        *)
(*                                                                         *)
(* Pull requests of the entry's branch are told apart by their state; the  *)
(* entry may know the URL of one of them.                                  *)
(***************************************************************************)
EXTENDS Naturals, FiniteSets

CONSTANTS
    TaskFetchLimit, \* TASK_FETCH_LIMIT: rows one task_list answers
    MaxRivals,      \* bound: tasks the board lists before this one
    MaxMoves,       \* bound: what people and workers do
    MaxMisses       \* bound: probes that fail

ASSUME ReachAssumption ==
    /\ TaskFetchLimit \in Nat \ {0}
    /\ {MaxRivals, MaxMoves, MaxMisses} \subseteq Nat

VARIABLES
    work,     \* the entry: [phase, knows, recent, staffed]
    job,      \* its task at dropr
    under,    \* whether its task is a subtask
    rivals,   \* open tasks the board lists before it
    enlisted, \* whether the registry has the entry's repository
    branchPrs,\* states of the pull requests on its branch
    seen,     \* the pass: where it is, what its probes answered
    dropped,  \* once the entry is forgotten: what the pass had to go by
    moves, misses

world == <<job, under, rivals, enlisted, branchPrs>>
reachVars == <<work, world, seen, dropped, moves, misses>>

PrStates == {"open", "merged", "closed"}
WorkPhases == {"working", "pr_opened", "escalated", "failed", "merged", "forgotten"}
Finished(phase) == phase \in {"escalated", "failed", "merged"}

(* registered: whether registered_agents names the worker.  jobOpen, over, *)
(* prs: what was true of the board, and of GitHub, when they were read.    *)
Unseen == [at |-> "idle", read |-> FALSE, registered |-> FALSE, task |-> "quiet",
           pr |-> "quiet", jobOpen |-> TRUE, over |-> FALSE, prs |-> PrStates]
KeptSoFar == [yes |-> FALSE, pass |-> Unseen, staffed |-> FALSE]

Works == [phase : WorkPhases, knows : PrStates \cup {"none"}, recent : BOOLEAN,
          staffed : BOOLEAN]
Passes == [at : {"idle", "tasks", "prs", "reconcile", "prune"}, read : BOOLEAN,
           registered : BOOLEAN, task : {"quiet", "listed", "absent"},
           pr : {"quiet", "error", "none"} \cup PrStates, jobOpen : BOOLEAN,
           over : BOOLEAN, prs : SUBSET PrStates]

ReachTypeOK ==
    /\ work \in Works
    /\ job \in {"open", "draft", "closed"} /\ under \in BOOLEAN
    /\ rivals \in 0 .. MaxRivals /\ enlisted \in BOOLEAN /\ branchPrs \subseteq PrStates
    /\ seen \in Passes
    /\ dropped \in [yes : BOOLEAN, pass : Passes, staffed : BOOLEAN]
    /\ moves \in 0 .. MaxMoves /\ misses \in 0 .. MaxMisses

ReachInit ==
    /\ work = [phase |-> "working", knows |-> "none", recent |-> TRUE, staffed |-> TRUE]
    /\ job = "open" /\ under \in BOOLEAN /\ rivals = 0
    /\ enlisted = TRUE /\ branchPrs = {} /\ seen = Unseen /\ dropped = KeptSoFar
    /\ moves = 0 /\ misses = 0

-----------------------------------------------------------------------------
(* The world                                                               *)

HappensTo == moves < MaxMoves /\ moves' = moves + 1 /\ UNCHANGED <<seen, dropped, misses>>
Misses == misses < MaxMisses /\ misses' = misses + 1

JobMoves ==
    /\ HappensTo
    /\ \/ job' \in {"open", "draft", "closed"} \ {job} /\ UNCHANGED rivals
       \/ rivals' \in 0 .. MaxRivals \ {rivals} /\ UNCHANGED job
    /\ UNCHANGED <<work, under, enlisted, branchPrs>>

(* The pull request the entry knows of is closed or merged, too.           *)
PrsMove ==
    /\ HappensTo
    /\ \/ "open" \notin branchPrs /\ branchPrs' = branchPrs \cup {"open"}
          /\ UNCHANGED work
       \/ \E end \in {"merged", "closed"} :
             /\ "open" \in branchPrs
             /\ branchPrs' = (branchPrs \ {"open"}) \cup {end}
             /\ work' = [work EXCEPT !.knows = IF @ = "open" THEN end ELSE @]
    /\ UNCHANGED <<job, under, rivals, enlisted>>

(* A worker is given up on, its entry grows old; it is taken down, or its  *)
(* repository leaves the registry and comes back without it.               *)
WorkMoves ==
    /\ HappensTo
    /\ \/ work.phase \in {"working", "pr_opened"} /\ UNCHANGED enlisted
          /\ \E phase \in {"escalated", "failed"} : work' = [work EXCEPT !.phase = phase]
       \/ Finished(work.phase) /\ work.recent /\ UNCHANGED enlisted
          /\ work' = [work EXCEPT !.recent = FALSE]
       \/ work.staffed /\ UNCHANGED enlisted
          /\ work' = [work EXCEPT !.staffed = FALSE]
       \/ enlisted' = ~enlisted /\ work' = [work EXCEPT !.staffed = FALSE]
    /\ UNCHANGED <<job, under, rivals, branchPrs>>

-----------------------------------------------------------------------------
(* A pass                                                                  *)

(* worth_probing                                                           *)
WorthProbing ==
    \/ work.phase \in {"working", "pr_opened"}
    \/ work.phase \in {"escalated", "failed"} /\ work.recent

WorldStays == UNCHANGED <<world, moves>>

(* gather: the registry is read first; without it nothing else is.         *)
PassStarts ==
    /\ seen.at = "idle" /\ work.phase # "forgotten"
    /\ \/ /\ UNCHANGED misses
          /\ seen' = [Unseen EXCEPT !.at = "tasks", !.read = TRUE,
                                    !.registered = work.staffed]
       \/ Misses /\ seen' = [Unseen EXCEPT !.at = "reconcile"]
    /\ UNCHANGED <<work, dropped>> /\ WorldStays

(* Only of a repository that is in the registry.                           *)
Asks == WorthProbing /\ enlisted

(* fetch_repo_tasks: the first rows of the root tasks, and as many of each *)
(* subtree; drafts and closed tasks are not asked for.                     *)
Lists == job = "open" /\ rivals < TaskFetchLimit

(* Mutant: a partial answer is read as the whole of it.                    *)
WholeAlways(complete) == TRUE

(* An entry the answer does not list is taken for absent only if every     *)
(* query of the fetch was answered.                                        *)
Whole(complete) == complete

(* gather_repo_task_states.  The root query or the whole workspace may not *)
(* answer, or the query of the subtree that has the task.                  *)
GathersTasks ==
    /\ seen.at = "tasks"
    /\ \/ /\ Asks /\ UNCHANGED misses
          /\ seen' = [seen EXCEPT !.at = "prs", !.jobOpen = (job = "open"),
                        !.over = (rivals >= TaskFetchLimit),
                        !.task = IF Lists THEN "listed"
                                 ELSE IF work.phase = "escalated" THEN "absent" ELSE @]
       \/ /\ Asks /\ under /\ Misses
          /\ seen' = [seen EXCEPT !.at = "prs", !.jobOpen = (job = "open"),
                        !.task = IF Whole(FALSE) /\ work.phase = "escalated"
                                 THEN "absent" ELSE @]
       \/ Asks /\ Misses /\ seen' = [seen EXCEPT !.at = "prs"]
       \/ ~Asks /\ UNCHANGED misses /\ seen' = [seen EXCEPT !.at = "prs"]
    /\ UNCHANGED <<work, dropped>> /\ WorldStays

(* Mutant: a settled entry is read by the URL it was settled with.         *)
ByUrl == work.knows = "none"

(* probe_by_branch: a settled entry's URL says nothing of what came after. *)
ByBranch == Finished(work.phase) \/ work.knows = "none"

(* best_pr: an open one before a merged one before an abandoned one.       *)
BestPr ==
    IF "open" \in branchPrs THEN "open"
    ELSE IF "merged" \in branchPrs THEN "merged"
    ELSE IF "closed" \in branchPrs THEN "closed"
    ELSE "none"

(* gather_pr_states                                                        *)
GathersPrs ==
    /\ seen.at = "prs"
    /\ \/ /\ Asks /\ UNCHANGED misses
          /\ seen' = [seen EXCEPT !.at = "reconcile", !.prs = branchPrs,
                                  !.pr = IF ByBranch THEN BestPr ELSE work.knows]
       \/ Asks /\ Misses /\ seen' = [seen EXCEPT !.at = "reconcile", !.pr = "error"]
       \/ ~Asks /\ UNCHANGED misses /\ seen' = [seen EXCEPT !.at = "reconcile"]
    /\ UNCHANGED <<work, dropped>> /\ WorldStays

(* apply_pr                                                                *)
TakesOver ==
    /\ seen.at = "reconcile"
    /\ work' =
          CASE seen.pr = "merged" /\ work.phase # "merged" ->
                   [work EXCEPT !.phase = "merged", !.knows = "merged"]
            [] seen.pr = "open" /\ ~Finished(work.phase) ->
                   [work EXCEPT !.phase = "pr_opened",
                                !.knows = IF @ = "none" THEN "open" ELSE @]
            [] OTHER -> work
    /\ seen' = [seen EXCEPT !.at = "prune"]
    /\ UNCHANGED <<dropped, misses>> /\ WorldStays

(* Mutant: a probe that failed found no pull request.                      *)
NotFound == seen.pr \notin PrStates

(* pr_confirmed_gone: neither a pull request nor an error was observed.    *)
ConfirmedGone == seen.pr \notin PrStates \cup {"error"}

(* beyond_reach                                                            *)
BeyondReach ==
    /\ work.phase = "escalated" /\ ~seen.registered /\ WorthProbing
    /\ seen.task = "absent" \/ (work.knows # "none" /\ ConfirmedGone)

(* prune_pass                                                              *)
Prunes ==
    /\ seen.at = "prune"
    /\ work' = IF BeyondReach THEN [work EXCEPT !.phase = "forgotten"] ELSE work
    /\ dropped' = IF BeyondReach
                  THEN [yes |-> TRUE, pass |-> seen, staffed |-> work.staffed] ELSE dropped
    /\ seen' = Unseen
    /\ UNCHANGED misses /\ WorldStays

ReachPass == PassStarts \/ GathersTasks \/ GathersPrs \/ TakesOver \/ Prunes

ReachStep == JobMoves \/ PrsMove \/ WorkMoves \/ ReachPass

(* The daemon's loop.                                                      *)
ReachFairness == WF_reachVars(ReachPass)

ReachSpec == ReachInit /\ [][ReachStep]_reachVars /\ ReachFairness

-----------------------------------------------------------------------------
(* Properties                                                              *)

(* retention.rs:162-178, "positively confirmed": an escalated entry whose  *)
(* repository could be asked about is forgotten only if its task was not   *)
(* open, or its branch had no pull request, when they were read - for as   *)
(* long as the board listed all it had.                                    *)
GoneWhenRead ==
    LET pass == dropped.pass
    IN /\ dropped.yes /\ pass.read /\ pass.pr # "quiet" /\ ~pass.over
       => ~pass.jobOpen \/ pass.prs = {}

(* Whatever URL an entry was given up with, the pull request that landed   *)
(* its branch closes it, while it is read at all.                          *)
LandedUnread ==
    /\ work.phase \in {"escalated", "failed"} /\ Asks
    /\ "merged" \in branchPrs /\ "open" \notin branchPrs
MergesNoticed == LandedUnread ~> ~LandedUnread

(* retention.rs:17-25: "Two entries are never dropped: ... A terminal      *)
(* entry whose worker is still in the registry."  (Refuted: a pass that    *)
(* cannot read the registry knows of no worker and of no pull request.)    *)
WorkersKeepRows == ~(dropped.yes /\ dropped.staffed)

=============================================================================
