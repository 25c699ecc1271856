-------------------------------- MODULE Dispatch --------------------------------
(***************************************************************************)
(* From a request to a worker: the requests the daemon drains              *)
(* (overseer/runtime_request.rs, daemon/discord_sync.rs), the runs among   *)
(* them (overseer/dispatch), the launches of the terminal UI and of the    *)
(* command line beside it (ui/actions/dropr_task_*.rs,                     *)
(* dropr_task_spawn.rs), and the claim of the task all of them go through  *)
(* (dropr/claim.rs).                                                       *)
(*                                                                         *)
(* There is one task of one repository.  A launch is the sequence claim,   *)
(* create the worktree and the session, write the row; dropr answers, or   *)
(* its answer is lost, and a process may die between any two steps.  The   *)
(* daemon, the UI and the command line claim under different names and     *)
(* name the branch in two ways, so that two launches of one name meet at   *)
(* the branch and two of different names only at the claim.                *)
(*                                                                         *)
(* Not here: what a prompt says, the order of the ready list, the other    *)
(* requests' effects (MergePass, Triage), cleanup in its steps (Landing),  *)
(* the scans that adopt worktrees in theirs (Registry).  An entry waiting  *)
(* on a prerequisite is one that holds no capacity, like a settled one.    *)
(***************************************************************************)
EXTENDS Integers, FiniteSets, SequencesExt

CONSTANTS
    Tools,          \* processes of the command line or an MCP server
    Runs,           \* run requests written as files
    Commands,       \* run requests sent by the Discord bot
    Approvals,      \* files whose request is applied to the ledger
    MaxWorkers,     \* bound: workers ever made
    KeepPerRepo,    \* terminal_retention_per_repo; 0 keeps everything
    BranchHoldCap,  \* MAX_BRANCH_EXISTS_HOLDS
    MaxFaults,      \* bound: lost answers, failed commands, dead processes
    MaxEvents       \* bound: launches and what people and other agents do

Requests == Runs \union Commands \union Approvals

ASSUME DispatchAssumption ==
    /\ IsFiniteSet(Tools) /\ IsFiniteSet(Requests)
    /\ Runs \intersect Commands = {}
    /\ Approvals \intersect (Runs \union Commands) = {}
    /\ {"daemon", "ui"} \intersect Tools = {}
    /\ {MaxWorkers, KeepPerRepo, MaxFaults, MaxEvents} \subseteq Nat
    /\ BranchHoldCap \in Nat \ {0}

Workers == 1 .. MaxWorkers
Launchers == {"daemon", "ui"} \union Tools

Nobody == "nobody"

\* The name a launcher claims under.
Identity(x) ==
    CASE x = "daemon" -> "overseer"
      [] x = "ui" -> "robco-ui"
      [] OTHER -> "robco-spawn"

Holders == {"overseer", "robco-ui", "robco-spawn", "another", Nobody}

\* How the branch of a worker is named: by the task's slug or by its title.
Naming(x) == IF x = "daemon" THEN "slug" ELSE "title"

VARIABLES
    task,      \* [status, holder, lapsed]: the task at dropr
    holding,   \* launchers whose claim was granted and not lost since
    covered,   \* workers started under a claim that was not lost since
    worker,    \* [Workers -> [state, by]]: worktrees, branches and sessions
    listed,    \* the registry has the repository
    rows,      \* workers with a row in the registry
    op,        \* [Launchers -> [at, worker]]: launches under way
    file,      \* [Requests -> Files]: request files and messages
    pending,   \* the runs of this pass, in order
    outcome,   \* [Requests -> Outcomes]: what became of a run
    pc,        \* where the daemon's pass is
    todo,      \* files of this pass's directory listing
    registered,\* workers this pass's observations found in the registry
    ledger,    \* [entry, holds, noted]: in the daemon's memory
    saved,     \* the ledger's file
    faults, events

claims == <<holding, covered>>
dropr == <<task, claims>>
registry == <<listed, rows>>
requests == <<file, pending, outcome, todo>>
ledgers == <<ledger, saved, registered>>
counters == <<faults, events>>
vars == <<dropr, worker, registry, op, requests, pc, ledgers, counters>>

\* "stump": a worktree and its branch, without a session.
States == {"none", "stump", "running", "ended", "gone"}
Steps == {"idle", "read", "claim", "create", "persist", "release"}
Files == {"none", "written", "taken", "gone"}
Outcomes == {"none", "started", "again", "refused", "lost"}

NoEntry == [named |-> FALSE, phase |-> "none"]
Entries == [named: BOOLEAN, phase: {"none", "active", "settled"}]
Ledgers == [entry: [Workers -> Entries], holds: 0 .. BranchHoldCap,
            noted: SUBSET Approvals]

Idle == [at |-> "idle", worker |-> 0]

Init ==
    /\ task = [status |-> "open", holder |-> Nobody, lapsed |-> FALSE]
    /\ holding = {}
    /\ covered = {}
    /\ \E left \in {"none", "stump"} :  \* of a launch before
          worker = [w \in Workers |-> [by |-> "daemon",
                                      state |-> IF w = 1 THEN left ELSE "none"]]
    /\ listed = TRUE
    /\ rows = {}
    /\ op = [x \in Launchers |-> Idle]
    /\ file = [r \in Requests |-> "none"]
    /\ pending = << >>
    /\ outcome = [r \in Requests |-> "none"]
    /\ pc = "down"
    /\ todo = {}
    /\ registered = {}
    /\ saved = [entry |-> [w \in Workers |-> NoEntry], holds |-> 0, noted |-> {}]
    /\ ledger = saved
    /\ faults = 0
    /\ events = 0

-----------------------------------------------------------------------------
(* Helpers *)

Fault == faults < MaxFaults /\ faults' = faults + 1 /\ UNCHANGED events
Event == events < MaxEvents /\ events' = events + 1 /\ UNCHANGED faults

Running == {w \in Workers : worker[w].state = "running"}

\* git worktree add refuses a branch that exists.
BranchExists(naming) ==
    \E w \in Workers : /\ worker[w].state \in {"stump", "running", "ended"}
                       /\ Naming(worker[w].by) = naming

Unused == {w \in Workers : worker[w].state = "none"}

\* MaxWorkers never keeps a launch under way, or a request, from its worker.
Room ==
    Cardinality(Unused) > Cardinality({x \in Launchers : op[x].at # "idle"})
                          + Cardinality({r \in Runs \union Commands :
                                            outcome[r] = "none"})

Goto(x, step) == op' = [op EXCEPT ![x].at = step]

\* A run that reached its end, for the daemon's log.
Close(r, result) ==
    /\ pending' = Tail(pending)
    /\ outcome' = [outcome EXCEPT ![r] = IF @ = "none" THEN result ELSE @]

\* A launch that comes to nothing: for the daemon a refused run.
Ended(x) ==
    /\ op' = [op EXCEPT ![x] = Idle]
    /\ IF x = "daemon"
       THEN Close(Head(pending), "refused") /\ UNCHANGED <<file, todo>>
       ELSE UNCHANGED requests

\* has_active_worker: only entries dispatched for the task are named for it.
HasActiveWorker ==
    \E w \in Workers : ledger.entry[w].named /\ ledger.entry[w].phase = "active"

-----------------------------------------------------------------------------
(* The task service *)

\* task_next grants a task nobody else holds; a claim of one's own again.
CanGrant(id) ==
    /\ task.status # "closed"
    /\ task.holder \in {Nobody, id} \/ task.lapsed

Granted(id) ==
    task' = [status |-> "in_progress", holder |-> id, lapsed |-> FALSE]

\* Whoever had a claim has it no more.
ClaimsEnd == holding' = {} /\ covered' = {}

\* claim_ttl_minutes have passed.
Lapse ==
    /\ task.status = "in_progress" /\ task.holder # Nobody /\ ~task.lapsed
    /\ Event
    /\ task' = [task EXCEPT !.lapsed = TRUE]
    /\ ClaimsEnd
    /\ UNCHANGED <<worker, registry, op, requests, pc, ledgers>>

OtherClaims ==
    /\ CanGrant("another")
    /\ Event
    /\ Granted("another")
    /\ ClaimsEnd
    /\ UNCHANGED <<worker, registry, op, requests, pc, ledgers>>

\* A merged pull request, or a person, closes the task.
Closes ==
    /\ task.status # "closed"
    /\ Event
    /\ task' = [task EXCEPT !.status = "closed"]
    /\ ClaimsEnd
    /\ UNCHANGED <<worker, registry, op, requests, pc, ledgers>>

-----------------------------------------------------------------------------
(* A launch *)

\* x was granted the task: claims of the same name stand on.
Held(x) ==
    IF task.holder = Identity(x) /\ ~task.lapsed
    THEN holding' = holding \union {x} /\ UNCHANGED covered
    ELSE holding' = {x} /\ covered' = {}

\* claim_task: refused, granted, or granted or not without an answer.
Claim(x) ==
    /\ op[x].at = "claim"
    /\ \/ /\ CanGrant(Identity(x))
          /\ Granted(Identity(x))
          /\ Held(x)
          /\ Goto(x, "create")
          /\ UNCHANGED <<requests, counters>>
       \/ /\ ~CanGrant(Identity(x))
          /\ Ended(x)
          /\ UNCHANGED <<dropr, counters>>
    /\ UNCHANGED <<worker, registry, pc, ledgers>>

\* A mutant: it is taken for a grant.
TakenAsGranted(x) ==
    /\ Goto(x, "create")
    /\ holding' = holding \union {x}
    /\ UNCHANGED <<requests, covered>>

\* An answer that never comes, "unavailable", ends the launch.
NoAnswer(x) == Ended(x) /\ UNCHANGED claims

ClaimUnheard(x) ==
    /\ op[x].at = "claim"
    /\ Fault
    /\ \/ NoAnswer(x) /\ UNCHANGED task
       \/ /\ CanGrant(Identity(x))
          /\ Granted(Identity(x))
          /\ Ended(x)
          /\ IF task.holder = Identity(x) /\ ~task.lapsed
             THEN UNCHANGED claims ELSE ClaimsEnd
    /\ UNCHANGED <<worker, registry, pc, ledgers>>

\* A new worker of x: the claim that covered the launch now covers it.
Made(x, w, state) ==
    /\ worker' = [worker EXCEPT ![w] = [state |-> state, by |-> x]]
    /\ holding' = holding \ {x}
    /\ covered' = IF x \in holding /\ state = "running"
                  THEN covered \union {w} ELSE covered

\* What a start does to the request it was made for.
Started(x) ==
    IF x # "daemon" THEN UNCHANGED outcome
    ELSE outcome' = [outcome EXCEPT ![Head(pending)] =
                        IF @ = "none" THEN "started" ELSE "again"]

\* spawn_in_repo reads the registry again before it creates anything.
Refused(x) == BranchExists(Naming(x)) \/ (x = "daemon" /\ ~listed)

\* create_agent_with_launch.  A worktree whose session could not be started
\* stays behind with its branch.
Create(x) ==
    /\ op[x].at = "create"
    /\ \/ /\ ~Refused(x)
          /\ \E w \in Unused :
                /\ \A v \in Unused : w <= v
                /\ Made(x, w, "running")
                /\ op' = [op EXCEPT ![x] = [at |-> "persist", worker |-> w]]
          /\ Started(x)
          /\ UNCHANGED counters
       \/ /\ Refused(x)
          /\ Goto(x, "release")
          /\ UNCHANGED <<worker, claims, outcome, counters>>
       \/ /\ Fault
          /\ Goto(x, "release")
          /\ \/ UNCHANGED <<worker, claims>>
             \/ /\ ~Refused(x)
                /\ \E w \in Unused :
                      (\A v \in Unused : w <= v) /\ Made(x, w, "stump")
          /\ UNCHANGED outcome
    /\ UNCHANGED <<task, registry, file, pending, todo, pc, ledgers>>

\* push: an entry of the task for the new worker.
Entered(w) ==
    ledger' = [ledger EXCEPT !.entry[w] = [named |-> TRUE, phase |-> "active"]]

\* persist_child, or the UI's own update: the row of the new worker.  A
\* repository gone from the registry, or an update that fails, is an error:
\* the daemon takes it for a worker that never started.
Persist(x) ==
    LET w == op[x].worker
    IN /\ op[x].at = "persist"
       /\ \/ /\ listed
             /\ rows' = rows \union {w}
             /\ op' = [op EXCEPT ![x] = Idle]
             /\ IF x = "daemon"
                THEN /\ Close(Head(pending), "started")
                     /\ Entered(w)
                     /\ UNCHANGED <<file, todo>>
                ELSE UNCHANGED <<requests, ledger>>
             /\ UNCHANGED counters
          \/ /\ IF listed THEN Fault ELSE UNCHANGED counters
             /\ op' = [op EXCEPT ![x] = IF x = "daemon"
                                        THEN [at |-> "release", worker |-> 0]
                                        ELSE Idle]
             /\ UNCHANGED <<rows, requests, ledger>>
       /\ UNCHANGED <<dropr, worker, listed, pc, saved, registered>>

\* release_claim, which dropr accepts from the holder only; best effort.
Release(x) ==
    /\ op[x].at = "release"
    /\ \/ /\ IF task.holder = Identity(x) /\ task.status = "in_progress"
             THEN /\ task' = [status |-> "open", holder |-> Nobody, lapsed |-> FALSE]
                  /\ ClaimsEnd
             ELSE UNCHANGED dropr
          /\ UNCHANGED counters
       \/ Fault /\ UNCHANGED dropr
    /\ Ended(x)
    /\ UNCHANGED <<worker, registry, pc, ledgers>>

\* launch_dropr_task, after its checks of the UI's own copy of the rows, which
\* lags and only refuses more; a second launch is refused while one runs.
UiLaunch ==
    /\ op["ui"].at = "idle"
    /\ ~BranchExists("title")
    /\ Room /\ Event
    /\ Goto("ui", "claim")
    /\ UNCHANGED <<dropr, worker, registry, requests, pc, ledgers>>

\* robco spawn --dropr-task, or robco_agent_create: looks the task up only.
ToolLaunch(x) ==
    /\ op[x].at = "idle" /\ listed
    /\ Room /\ Event
    /\ Goto(x, "claim")
    /\ UNCHANGED <<dropr, worker, registry, requests, pc, ledgers>>

\* The UI or a tool is killed in the middle of a launch.
LauncherDies(x) ==
    /\ x # "daemon" /\ op[x].at # "idle"
    /\ Fault
    /\ op' = [op EXCEPT ![x] = Idle]
    /\ holding' = holding \ {x}
    /\ UNCHANGED <<task, covered, worker, registry, requests, pc, ledgers>>

-----------------------------------------------------------------------------
(* Workers and the registry *)

SessionEnds(w) ==
    /\ w \in Running
    /\ \A x \in Launchers : op[x].worker # w
    /\ Event
    /\ worker' = [worker EXCEPT ![w].state = "ended"]
    /\ UNCHANGED <<dropr, registry, op, requests, pc, ledgers>>

\* A cleanup or a kill: session, worktree, branch and row go.
CleanedUp(w) ==
    /\ w \in rows \/ worker[w].state = "stump"
    /\ Event
    /\ worker' = [worker EXCEPT ![w].state = "gone"]
    /\ rows' = rows \ {w}
    /\ covered' = covered \ {w}
    /\ UNCHANGED <<task, holding, listed, op, requests, pc, ledgers>>

\* The repository is unpinned and with it its rows are dropped.
Unpinned ==
    /\ listed
    /\ Event
    /\ listed' = FALSE
    /\ rows' = {}
    /\ UNCHANGED <<dropr, worker, op, requests, pc, ledgers>>

\* A scan of the UI's finds the repository and adopts its worktrees, those of
\* a launch under way excepted.
Scanned ==
    LET found == {w \in Workers : /\ worker[w].state \in {"stump", "running", "ended"}
                                  /\ \A x \in Launchers : op[x].worker # w}
    IN /\ ~listed \/ ~(found \subseteq rows)
       /\ Event
       /\ listed' = TRUE
       /\ rows' = rows \union found
       /\ UNCHANGED <<dropr, worker, op, requests, pc, ledgers>>

-----------------------------------------------------------------------------
(* Requests *)

\* enqueue, by a rename; or the bot's send into the daemon's channel.
Write(r) ==
    /\ file[r] = "none"
    /\ r \in Commands => pc # "down"
    /\ file' = [file EXCEPT ![r] = "written"]
    /\ UNCHANGED <<dropr, worker, registry, op, pending, outcome, todo, pc,
                   ledgers, counters>>

\* apply_ledger_requests: messages are taken until the channel is empty.
TakeCommand(r) ==
    /\ pc = "commands"
    /\ r \in Commands /\ file[r] = "written"
    /\ file' = [file EXCEPT ![r] = "gone"]
    /\ pending' = Append(pending, r)
    /\ UNCHANGED <<dropr, worker, registry, op, outcome, todo, pc, ledgers,
                   counters>>

ListFiles ==
    /\ pc = "commands"
    /\ \A r \in Commands : file[r] # "written"
    /\ pc' = "drain"
    /\ todo' = {r \in Runs \union Approvals : file[r] = "written"}
    /\ UNCHANGED <<dropr, worker, registry, op, file, pending, outcome,
                   ledgers, counters>>

QueuedAlone(r) == pending' = <<r>>  \* a mutant of Queued: the messages' runs go

Queued(r) == pending' = Append(pending, r)

NoCheckpoint == UNCHANGED saved  \* a mutant of Checkpoint

Checkpoint == saved' = ledger'

\* drain_in reads the files in the order of their random names.  A run waits
\* for the end of the pass; anything else is applied and the ledger saved.
TakeFile(r) ==
    /\ pc = "drain"
    /\ \A q \in Requests : file[q] # "taken"
    /\ r \in todo
    /\ IF r \in Runs
       THEN /\ Queued(r)
            /\ file' = [file EXCEPT ![r] = "taken"]
            /\ UNCHANGED <<todo, ledgers, counters>>
       ELSE /\ ledger' = [ledger EXCEPT !.noted = @ \union {r}]
            /\ UNCHANGED <<pending, registered>>
            /\ \/ /\ Checkpoint
                  /\ file' = [file EXCEPT ![r] = "taken"]
                  /\ UNCHANGED <<todo, counters>>
               \/ /\ Fault
                  /\ todo' = todo \ {r}
                  /\ UNCHANGED <<saved, file>>
    /\ UNCHANGED <<dropr, worker, registry, op, outcome, pc>>

\* A file that cannot be read is left to the next pass.
SkipFile(r) ==
    /\ pc = "drain" /\ r \in todo /\ file[r] = "written"
    /\ \A q \in Requests : file[q] # "taken"
    /\ Fault
    /\ todo' = todo \ {r}
    /\ UNCHANGED <<dropr, worker, registry, op, file, pending, outcome, pc,
                   ledgers>>

\* remove_file; one that cannot be removed is renamed out of the way.
Removed(r) == file' = [file EXCEPT ![r] = "gone"]
RemoveFile(r) ==
    /\ pc = "drain" /\ file[r] = "taken"
    /\ Removed(r)
    /\ todo' = todo \ {r}
    /\ UNCHANGED <<dropr, worker, registry, op, pending, outcome, pc, ledgers,
                   counters>>

-----------------------------------------------------------------------------
(* The daemon's pass *)

Start ==
    /\ pc = "down"
    /\ pc' = "commands"
    /\ ledger' = saved
    /\ UNCHANGED <<dropr, worker, registry, op, requests, saved, registered,
                   counters>>

\* A mutant: a worker the daemon made itself is taken to have an entry.
AdoptedForeign(entry) ==
    [w \in Workers |-> IF /\ w \in rows /\ entry[w].phase = "none"
                          /\ worker[w].by # "daemon"
                       THEN [named |-> FALSE, phase |-> "active"] ELSE entry[w]]

\* adopt_registry_children_from: a row without an entry gets one of its own.
Adopted(entry) ==
    [w \in Workers |-> IF w \in rows /\ entry[w].phase = "none"
                       THEN [named |-> FALSE, phase |-> "active"] ELSE entry[w]]

\* gather and reconcile: what the entries' phases become is up to reports,
\* pull requests and operators.
Observe ==
    /\ pc = "drain" /\ todo = {}
    /\ pc' = "runs"
    /\ registered' = rows
    /\ \E settled \in SUBSET Workers :
          LET known == Adopted(ledger.entry)
          IN ledger' = [ledger EXCEPT !.entry =
                [w \in Workers |->
                    IF known[w].phase = "none" THEN NoEntry
                    ELSE [named |-> known[w].named,
                          phase |-> IF w \in settled THEN "settled" ELSE "active"]]]
    /\ UNCHANGED <<dropr, worker, registry, op, requests, saved, counters>>

NextRun == pc = "runs" /\ pending # << >> /\ op["daemon"].at = "idle"

\* A task that is not listed as ready, whose task service does not answer, or
\* that another pull request closes.
TurnAway ==
    /\ NextRun
    /\ Close(Head(pending), "refused")
    /\ UNCHANGED <<dropr, worker, registry, op, file, todo, pc, ledgers, counters>>

ActiveWorker ==
    /\ NextRun
    /\ HasActiveWorker
    /\ Close(Head(pending), "refused")
    /\ UNCHANGED <<dropr, worker, registry, op, file, todo, pc, ledgers, counters>>

\* branch_exists_outcome: held, and at the cap escalated, once.
BranchHeld(holds) == IF holds < BranchHoldCap THEN holds + 1 ELSE holds
BranchTaken ==
    /\ NextRun
    /\ ~HasActiveWorker
    /\ listed /\ BranchExists("slug")
    /\ ledger' = [ledger EXCEPT !.holds = BranchHeld(@)]
    /\ Close(Head(pending), "refused")
    /\ UNCHANGED <<dropr, worker, registry, op, file, todo, pc, saved, registered,
                   counters>>

Proceed ==
    /\ NextRun
    /\ task.status # "closed"
    /\ ~HasActiveWorker
    /\ listed /\ ~BranchExists("slug")
    /\ ledger' = [ledger EXCEPT !.holds = 0]
    /\ Goto("daemon", "read")
    /\ UNCHANGED <<dropr, worker, registry, requests, pc, saved, registered,
                   counters>>

\* evaluate: may a launch under id proceed on the claim it read?
Claimable(id) ==
    /\ task.status # "closed"
    /\ IF task.holder \notin {Nobody, id} THEN task.lapsed
       ELSE task.status = "open" \/ task.holder = id

ReadClaim ==
    /\ op["daemon"].at = "read"
    /\ \/ /\ Claimable("overseer")
          /\ Goto("daemon", "claim")
          /\ UNCHANGED <<requests, counters>>
       \/ /\ IF Claimable("overseer") THEN Fault ELSE UNCHANGED counters
          /\ Ended("daemon")
    /\ UNCHANGED <<dropr, worker, registry, pc, ledgers>>

Settled == {w \in Workers : ledger.entry[w].phase = "settled"}

\* beyond_window: settled entries nobody has a row for, past the newest ones.
BeyondWindow ==
    {w \in Settled \ registered :
        /\ KeepPerRepo > 0
        /\ Cardinality({v \in Settled : v >= w}) > KeepPerRepo}

\* prune_pass and the save at the end of a pass.  An escalated entry whose
\* task or pull request is confirmed gone goes whatever its age.
Save ==
    /\ pc = "runs" /\ pending = << >>
    /\ pc' = "commands"
    /\ \E gone \in {{}, Settled \ registered} :
          ledger' = [ledger EXCEPT !.entry =
                        [w \in Workers |-> IF w \in BeyondWindow \union gone
                                           THEN NoEntry ELSE @[w]]]
    /\ saved' = ledger'
    /\ registered' = {}
    /\ UNCHANGED <<dropr, worker, registry, op, requests, counters>>

\* The daemon dies: the channel, the runs taken and its memory are lost.
Crash ==
    /\ pc # "down"
    /\ Fault
    /\ pc' = "down"
    /\ op' = [op EXCEPT !["daemon"] = Idle]
    /\ holding' = holding \ {"daemon"}
    /\ file' = [r \in Requests |->
                   CASE file[r] = "taken" -> "written"
                     [] r \in Commands /\ file[r] = "written" -> "gone"
                     [] OTHER -> file[r]]
    /\ outcome' = [r \in Requests |->
                     IF /\ r \notin Approvals
                        /\ outcome[r] = "none" /\ file[r] # "none" /\ file'[r] = "gone"
                     THEN "lost" ELSE outcome[r]]
    /\ pending' = << >>
    /\ todo' = {}
    /\ registered' = {}
    /\ ledger' = saved
    /\ UNCHANGED <<task, covered, worker, registry, saved>>

-----------------------------------------------------------------------------

LaunchStep(x) == Claim(x) \/ Create(x) \/ Persist(x) \/ Release(x)

Pass ==
    \/ \E r \in Requests : TakeCommand(r) \/ TakeFile(r) \/ RemoveFile(r)
    \/ ListFiles \/ Observe \/ ReadClaim \/ Save
    \/ TurnAway \/ ActiveWorker \/ BranchTaken \/ Proceed
    \/ LaunchStep("daemon")

Next ==
    \/ Start \/ Pass \/ Crash
    \/ \E r \in Requests : Write(r) \/ SkipFile(r)
    \/ \E x \in Launchers : ClaimUnheard(x) \/ LauncherDies(x)
    \/ UiLaunch \/ \E x \in Tools : ToolLaunch(x)
    \/ \E x \in Launchers \ {"daemon"} : LaunchStep(x)
    \/ \E w \in Workers : SessionEnds(w) \/ CleanedUp(w)
    \/ Unpinned \/ Scanned
    \/ Lapse \/ OtherClaims \/ Closes

Spec == Init /\ [][Next]_vars

\* The daemon is started again and its loop goes on.
FairSpec == Spec /\ WF_vars(Start) /\ WF_vars(Pass)

-----------------------------------------------------------------------------
(* Properties *)

\* dispatch/claim.rs: "a held candidate costs one pass, not a duplicated
\* worker".  Whoever launches, at most one running worker has a claim that was
\* granted for it and has not lapsed, been given back or been closed since.
OneCovered == Cardinality(covered \intersect Running) <= 1

\* A run request starts one worker at most, crashes and passes that find it
\* again included, and a request applied to the ledger is in the saved one
\* before its file goes.
RequestsRunOnce ==
    /\ \A r \in Requests : outcome[r] # "again"
    /\ \A r \in Approvals : file[r] = "gone" => r \in saved.noted

\* Every run request is answered: dispatched, refused or lost with the daemon.
RunsSettled ==
    \A r \in Runs \union Commands :
        file[r] = "written" ~> outcome[r] # "none"

\* Every worker with a row has an entry, again and again, also one whose daemon
\* died between writing the row and saving the ledger.
WorkersWatched == []<>(\A w \in rows : ledger.entry[w].phase # "none")

\* dispatch/worker.rs: "The claim was taken for a worker that never started".
\* No launcher gives back a claim a running worker was started under.
ReleasesUnstarted ==
    [][\A x \in Launchers :
          op[x].at = "release" /\ task.holder = Identity(x) /\ task'.holder = Nobody
          => covered \intersect Running = {}]_vars

\* One task, one worker; one request, one run.
DispatchSafe == OneCovered /\ RequestsRunOnce

\* Nothing a dispatch leaves behind is forgotten: no request, no worker.
DispatchSettles == RunsSettled /\ WorkersWatched

===============================================================================
