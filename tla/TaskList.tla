-------------------------------- MODULE TaskList -------------------------------
(***************************************************************************)
(* The dropr task pane of one repository: what its last fetch answered   *)
(* (ui/actions/dropr_tasks.rs, dropr/repo_tasks.rs), and the launches a  *)
(* user starts from it, each on a thread of its own                      *)
(* (ui/actions/dropr_task_drill.rs, dropr_task_worker.rs,                *)
(* dropr_task_finish.rs).  The board is dropr's: other agents claim,     *)
(* release and close the same tasks.                                     *)
(*                                                                       *)
(* A row is the status of a root task; which subtasks it has is told by  *)
(* whether it has any and whether they are known.  Priorities, blockers' *)
(* reasons and what the pane says of a failure are left out.             *)
(***************************************************************************)
EXTENDS Naturals

CONSTANTS
    Tasks,     \* root tasks of the workspace
    Threads,   \* bound: launches that run at once
    MaxTurns,  \* bound: changes of the board by others
    MaxTaskFaults \* bound: fetches and launches that fail, workers that end

NoThread == 0

ASSUME TaskListAssumption ==
    {MaxTurns, MaxTaskFaults} \subseteq Nat /\ NoThread \notin Threads

VARIABLES
    boardTask, \* dropr: [Tasks -> status and claim]
    parents,  \* those that have subtasks: DroprTaskCandidate::child_count
    turn,     \* how often the board has changed
    turns,    \* of these, by others
    listRows, \* RepoNode::dropr_tasks: [Tasks -> status shown]
    known,    \* its subtrees_known
    shownAt,  \* the turn at which what is shown was read
    marked,   \* tasks whose row a launch has set since
    current,  \* the fetch in flight: DroprTaskRefresh::in_flight
    late,     \* a fetch given up, which may answer yet
    settle,   \* App::dropr_task_settle
    jobs,     \* App::task_launch_jobs: [Tasks -> thread or NoThread]
    thread,   \* [Threads -> launch]
    agents,   \* tasks of the workers the UI's registry lists
    workers,  \* tasks that have a worker, with its worktree and branch
    taskFaults

boardOfTasks == <<boardTask, turn, turns, parents>>
pane == <<listRows, known, shownAt, marked>>
fetches == <<current, late, settle>>
launches == <<jobs, thread, agents, workers>>
taskVars == <<boardOfTasks, pane, fetches, launches, taskFaults>>

Statuses == {"open", "in_progress", "closed"}
Claimants == {"nobody", "robco-ui", "other"}
Shown == {"open", "in_progress", "unlisted"}
FetchSteps == {"none", "asking", "read", "answered", "failed", "hung"}
LaunchSteps == {"idle", "resolve", "claim", "spawn", "launched", "refused"}
Fetches == [step : FetchSteps, seen : [Tasks -> Shown], at : Nat, subtrees : SUBSET Tasks]
Launches == [step : LaunchSteps, task : Tasks, was : Shown, known : BOOLEAN, named : BOOLEAN]

Unlisted == [t \in Tasks |-> "unlisted"]
NoFetch == [step |-> "none", seen |-> Unlisted, at |-> 0, subtrees |-> {}]
NewFetch == [NoFetch EXCEPT !.step = "asking"]

TaskListTypeOK ==
    /\ boardTask \in [Tasks -> [status : Statuses, claim : Claimants]]
    /\ parents \subseteq Tasks /\ turn \in Nat /\ turns \in 0 .. MaxTurns
    /\ listRows \in [Tasks -> Shown] /\ known \subseteq Tasks
    /\ shownAt \in 0 .. turn /\ marked \subseteq Tasks
    /\ {current, late} \subseteq Fetches /\ settle \in BOOLEAN
    /\ jobs \in [Tasks -> Threads \cup {NoThread}]
    /\ thread \in [Threads -> Launches]
    /\ agents \subseteq Tasks /\ workers \subseteq Tasks
    /\ taskFaults \in 0 .. MaxTaskFaults

TaskListInit ==
    /\ boardTask = [t \in Tasks |-> [status |-> "open", claim |-> "nobody"]]
    /\ turn = 0 /\ turns = 0 /\ parents \in SUBSET Tasks
    /\ listRows = Unlisted /\ known = {} /\ shownAt = 0 /\ marked = {}
    /\ current = NoFetch /\ late = NoFetch /\ settle = FALSE
    /\ jobs = [t \in Tasks |-> NoThread]
    /\ thread \in [Threads -> {l \in Launches : l.step = "idle" /\ l.was = "unlisted"
                                                /\ ~l.known /\ ~l.named}]
    /\ agents = {} /\ workers = {}
    /\ taskFaults = 0

TaskFault == taskFaults < MaxTaskFaults /\ taskFaults' = taskFaults + 1

-----------------------------------------------------------------------------
(* The board                                                             *)

Sets(t, status, claim) ==
    /\ boardTask' = [boardTask EXCEPT ![t] = [status |-> status, claim |-> claim]]
    /\ turn' = IF boardTask'[t].status = boardTask[t].status THEN turn ELSE turn + 1
    /\ UNCHANGED parents

BoardStays == UNCHANGED <<boardTask, turn, parents>>

(* Another agent claims a task, gives it back, or finishes it.           *)
OtherMoves(t) ==
    /\ turns < MaxTurns /\ turns' = turns + 1
    /\ \/ boardTask[t].claim = "nobody" /\ boardTask[t].status # "closed"
          /\ Sets(t, "in_progress", "other")
       \/ boardTask[t].claim = "other" /\ Sets(t, "open", "nobody")
       \/ boardTask[t].claim = "other" /\ Sets(t, "closed", "nobody")
    /\ UNCHANGED <<pane, fetches, launches, taskFaults>>

(* A merge from the UI removes the worker and asks for the list again    *)
(* (note_merge_settled); dropr's webhook closes the task after that.     *)
Merges(t) ==
    /\ t \in workers \cap agents /\ TaskFault
    /\ workers' = workers \ {t} /\ agents' = agents \ {t}
    /\ settle' = TRUE
    /\ UNCHANGED <<boardOfTasks, pane, current, late, jobs, thread>>

TaskEnds(t) ==
    /\ turns < MaxTurns /\ turns' = turns + 1
    /\ t \notin workers /\ boardTask[t].claim = "robco-ui" /\ jobs[t] = NoThread
    /\ Sets(t, "closed", "nobody")
    /\ UNCHANGED <<pane, fetches, launches, taskFaults>>

-----------------------------------------------------------------------------
(* Fetching                                                              *)

Displayed(t) == IF boardTask[t].status = "closed" THEN "unlisted" ELSE boardTask[t].status

(* fetch_repo_tasks: the root tasks, then the subtrees of some of them.  *)
Reads(fetch) ==
    /\ fetch.step = "asking"
    /\ \/ fetch' = [fetch EXCEPT !.step = "read", !.at = turn,
                                 !.seen = [t \in Tasks |-> Displayed(t)]]
          /\ UNCHANGED taskFaults
       \/ \E step \in {"failed", "hung"} :
              TaskFault /\ fetch' = [fetch EXCEPT !.step = step]

Walks(fetch) ==
    /\ fetch.step = "read"
    /\ \E walked \in SUBSET {t \in parents : fetch.seen[t] # "unlisted"} :
           fetch' = [fetch EXCEPT !.step = "answered", !.subtrees = walked]
    /\ UNCHANGED taskFaults

FetchStep(fetch) == Reads(fetch) \/ Walks(fetch)

CurrentStep ==
    FetchStep(current) /\ UNCHANGED <<boardOfTasks, pane, late, settle, launches>>
LateStep ==
    FetchStep(late) /\ UNCHANGED <<boardOfTasks, pane, current, settle, launches>>

Arrived(fetch) == fetch.step \in {"answered", "failed"}

(* Mutant: whatever arrives is taken, the late one after the other.      *)
TakenAny == LET arrived == {f \in {current, late} : Arrived(f)}
            IN IF late \in arrived THEN {late} ELSE arrived

(* ingest_dropr_tasks takes a result if its fetch is the one in flight.  *)
Taken == {f \in {current} : Arrived(f)}

(* apply_fetched_tasks: a failed fetch leaves no rows.                   *)
Shows(fetch) ==
    /\ listRows' = IF fetch.step = "answered" THEN fetch.seen ELSE Unlisted
    /\ known' = fetch.subtrees
    /\ shownAt' = IF fetch.step = "answered" THEN fetch.at ELSE shownAt
    /\ marked' = {}

TaskIngests ==
    \/ \E fetch \in Taken : Shows(fetch)
    \/ Taken = {} /\ UNCHANGED pane

(* Mutant: a fetch in flight stays so until it answers.                  *)
NeverExpired == {}

(* expire_stale_refreshes: a fetch given REFRESH_STALE_AFTER, which is   *)
(* longer than all its queries may take.                                 *)
Expired == {f \in {current} : f.step \in {"asking", "read", "hung"}}

(* refresh_dropr_tasks: results, then a fetch unless one is in flight.   *)
TaskRefreshes ==
    /\ TaskIngests
    /\ current' = IF Arrived(current) \/ current.step = "none" THEN NewFetch ELSE current
    /\ late' = IF Arrived(late) THEN NoFetch ELSE late
    /\ UNCHANGED <<boardOfTasks, settle, launches, taskFaults>>

(* The same, when the one in flight has gone stale.                      *)
RefreshesLate ==
    /\ current \in Expired
    /\ IF current.step = "hung" THEN UNCHANGED taskFaults ELSE TaskFault
    /\ late' = current /\ current' = NewFetch
    /\ UNCHANGED <<boardOfTasks, pane, settle, launches>>

(* drain_dropr_task_settle: schedules, and ingests nothing.              *)
TaskSettles ==
    /\ settle /\ settle' = FALSE
    /\ current' = IF current.step = "none" THEN NewFetch ELSE current
    /\ UNCHANGED <<boardOfTasks, pane, late, launches, taskFaults>>

-----------------------------------------------------------------------------
(* Launching                                                             *)

(* Mutant: what is being launched is told by its row and branch alone.   *)
NoJobAsked(t) == listRows[t] # "unlisted" /\ t \notin agents /\ t \notin workers

(* The row is listed, and neither a job nor a worker nor a branch is its.*)
Launchable(t) ==
    /\ listRows[t] # "unlisted"
    /\ jobs[t] = NoThread /\ t \notin agents /\ t \notin workers

(* launch_dropr_task and begin_launch.                                   *)
Begins(t, h) ==
    /\ Launchable(t) /\ thread[h].step = "idle"
    /\ thread' = [thread EXCEPT ![h] =
                     [step |-> "resolve", task |-> t, was |-> listRows[t],
                      known |-> t \in known, named |-> FALSE]]
    /\ jobs' = [jobs EXCEPT ![t] = h]
    /\ listRows' = [listRows EXCEPT ![t] = "in_progress"] /\ marked' = marked \cup {t}
    /\ UNCHANGED <<boardOfTasks, known, shownAt, fetches, agents, workers, taskFaults>>

Goes(h, step) == thread' = [thread EXCEPT ![h].step = step]

Quietly == UNCHANGED <<pane, fetches, jobs, agents>>

(* Mutant: what is not known to have subtasks has none.                  *)
LeafUnlessKnown(l) == ~l.known

(* resolve_launch_subtasks: nothing to name, named from the rows, or asked*)
(* for by a query of its own, which may come back empty.                 *)
Leaf(l) == l.task \notin parents

Resolves(h) ==
    /\ thread[h].step = "resolve"
    /\ \/ /\ Leaf(thread[h]) /\ Goes(h, "claim") /\ UNCHANGED taskFaults
       \/ /\ ~Leaf(thread[h])
          /\ thread' = [thread EXCEPT ![h] = [@ EXCEPT !.step = "claim", !.named = TRUE]]
          /\ UNCHANGED taskFaults
       \/ /\ ~Leaf(thread[h]) /\ ~thread[h].known
          /\ TaskFault /\ Goes(h, "refused")
    /\ UNCHANGED <<boardOfTasks, workers>> /\ Quietly

(* claim_task: given to the identity that has it, too; no answer may mean*)
(* that it was given.                                                    *)
TaskClaims(h) ==
    LET t == thread[h].task
        free == boardTask[t].claim \in {"nobody", "robco-ui"} /\ boardTask[t].status # "closed"
    IN /\ thread[h].step = "claim"
       /\ \/ free /\ Goes(h, "spawn") /\ Sets(t, "in_progress", "robco-ui")
             /\ UNCHANGED taskFaults
          \/ ~free /\ Goes(h, "refused") /\ BoardStays /\ UNCHANGED taskFaults
          \/ TaskFault /\ Goes(h, "refused")
             /\ \/ free /\ Sets(t, "in_progress", "robco-ui")
                \/ BoardStays
       /\ UNCHANGED <<turns, workers>> /\ Quietly

(* create_agent_with_launch; its branch must be new.  A claim whose agent*)
(* could not be created is released.                                     *)
TaskSpawns(h) ==
    LET t == thread[h].task
    IN /\ thread[h].step = "spawn"
       /\ \/ t \notin workers /\ workers' = workers \cup {t} /\ Goes(h, "launched")
             /\ BoardStays /\ UNCHANGED taskFaults
          \/ /\ IF t \in workers THEN UNCHANGED taskFaults ELSE TaskFault
             /\ Goes(h, "refused") /\ UNCHANGED workers
             /\ IF boardTask[t].claim = "robco-ui" THEN Sets(t, "open", "nobody")
                                             ELSE BoardStays
       /\ UNCHANGED turns /\ Quietly

(* revert_task_in_progress: a row that reads as the launch has set it.   *)
Reverted(l) == IF listRows[l.task] = "in_progress" THEN l.was ELSE listRows[l.task]

(* drain_task_launch_events: the worker is registered, or the row reverts.*)
Drains(h) ==
    LET l == thread[h]
    IN /\ l.step \in {"launched", "refused"}
       /\ thread' = [thread EXCEPT ![h] = [@ EXCEPT !.step = "idle", !.was = "unlisted",
                                                    !.known = FALSE, !.named = FALSE]]
       /\ jobs' = [jobs EXCEPT ![l.task] = IF @ = h THEN NoThread ELSE @]
       /\ IF jobs[l.task] = h /\ l.step = "launched"
          THEN agents' = agents \cup {l.task} /\ UNCHANGED <<listRows, marked>>
          ELSE IF jobs[l.task] = h
          THEN /\ listRows' = [listRows EXCEPT ![l.task] = Reverted(l)]
               /\ marked' = marked \ {l.task} /\ UNCHANGED agents
          ELSE UNCHANGED <<listRows, marked, agents>>
       /\ UNCHANGED <<boardOfTasks, known, shownAt, fetches, workers, taskFaults>>

ThreadStep(h) == Resolves(h) \/ TaskClaims(h) \/ TaskSpawns(h)

TaskListStep ==
    \/ \E t \in Tasks : OtherMoves(t) \/ Merges(t) \/ TaskEnds(t)
    \/ CurrentStep \/ LateStep
    \/ TaskRefreshes \/ RefreshesLate \/ TaskSettles
    \/ \E t \in Tasks, h \in Threads : Begins(t, h)
    \/ \E h \in Threads : ThreadStep(h) \/ Drains(h)

-----------------------------------------------------------------------------
(* Properties                                                            *)

(* A worker holds the claim of its task: no launch that ends, of the same*)
(* task or after it, gives back what a live worker works under.          *)
WorkersHoldClaims == \A t \in workers : boardTask[t].claim = "robco-ui"

(* What is shown is never replaced by something read before it.          *)
NewestShown == [][shownAt' >= shownAt]_taskVars

(* A task with subtasks is not claimed by a launch that could not name   *)
(* them in the prompt that says what to close.                           *)
ParentsNamed ==
    \A h \in Threads : /\ thread[h].step \in {"claim", "spawn", "launched"}
                       /\ thread[h].task \in parents
                       => thread[h].named

(* No launch takes from another, or closes what it does not know of.       *)
TaskListSafe == WorkersHoldClaims /\ ParentsNamed

(* The pane neither launches amiss nor shows what is older than it showed. *)
PaneSafe == []TaskListSafe /\ NewestShown

(* Once the board is left alone the pane comes to show it.               *)
ListCatchesUp == []<>(\A t \in Tasks : listRows[t] = Displayed(t))

(* A background fetch that lands between the keypress and the failure wins*)
(* over the revert (the comment on revert_task_in_progress).  (Refuted: a*)
(* fetched in_progress reads as the mark, and is overwritten.)           *)
FetchedStatusWins ==
    [][\A h \in Threads : Drains(h) =>
          \A t \in Tasks \ marked : listRows'[t] = listRows[t]]_taskVars

TaskListFairness ==
    /\ WF_taskVars(CurrentStep)
    /\ WF_taskVars(TaskRefreshes) /\ WF_taskVars(RefreshesLate)
    /\ \A h \in Threads : WF_taskVars(ThreadStep(h)) /\ WF_taskVars(Drains(h))

TaskListSpec == TaskListInit /\ [][TaskListStep]_taskVars /\ TaskListFairness

=============================================================================
