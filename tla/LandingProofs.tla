---------------------------- MODULE LandingProofs ----------------------------
(***************************************************************************)
(* Proofs about Landing: whoever lands, cleans up or kills, no row leaves  *)
(* before its worktree, no commit the base lacks is deleted unasked, and   *)
(* no uncommitted work goes but by force or after the merge.               *)
(* And about Launch: a launch is judged by its own session, leaves none    *)
(* behind, takes no other's, and gives it the environment it should have.  *)
(* And about Status: a row at rest is of a screen seen at rest, a row that *)
(* is dead is of a session that is gone, and answers keep their distance.  *)
(***************************************************************************)
EXTENDS Landing, Launch, Status, TLAPS

-----------------------------------------------------------------------------
(* Types                                                                   *)

Trees == [Agents -> {"clean", "dirty", "none"}]
Pulls == [Agents -> {"open", "merged"}]

TreeTypes == worktree \in Trees /\ branch \in [Agents -> Branches] /\ pr \in Pulls
ListTypes == row \subseteq Agents /\ screen \subseteq Agents /\ dialog \in Dialogs

-----------------------------------------------------------------------------
(* What an operation under way may rely on                                 *)

(* The worktree an operation believes gone is gone, the branch it is about *)
(* to delete has landed, and what it forces away has merged.               *)
Sound(o, sites, branches, prs) ==
    /\ o.at # "idle" \/ o.removed => o.agent \in Agents
    /\ o.at = "lock" => o.task \in {"land", "clean", "reap", "kill", "restart"}
    /\ o.at \in {"branch", "delete", "finish"} /\ o.task \notin {"reap", "restart"}
         => o.removed
    /\ o.removed => sites[o.agent] = "none"
    /\ o.at = "delete" => o.removed /\ branches[o.agent] \in {"landed", "none"}
    /\ o.at = "force" => prs[o.agent] = "merged"
    /\ o.at \in {"forget", "leave"} => sites[o.agent] = "none"
    /\ o.at = "take" /\ ~o.base => sites[o.agent] = "none"

OpsSound ==
    /\ op \in [Actors -> Operations]
    /\ \A x \in Actors : Sound(op[x], worktree, branch, pr)

(* A branch lands with its pull request.                                   *)
LandsMerged == \A a \in Agents : branch[a] = "landed" => pr[a] = "merged"

LandingInv == TreeTypes /\ ListTypes /\ OpsSound /\ LandsMerged

(* What no step undoes: a worktree that is gone, the branch behind it, a   *)
(* merge.                                                                  *)
Stays(a, sites, branches, prs, trees2, branches2, prs2) ==
    /\ sites[a] = "none" => trees2[a] = "none"
    /\ sites[a] = "none" /\ branches[a] \in {"landed", "none"}
         => branches2[a] \in {"landed", "none"}
    /\ prs[a] = "merged" => prs2[a] = "merged"

NothingReturns == \A a \in Agents : Stays(a, worktree, branch, pr, worktree', branch', pr')

LEMMA IdleSound ==
    /\ Idle \in Operations
    /\ \A sites, branches, prs : Sound(Idle, sites, branches, prs)
  BY DEF Idle, Operations, Tasks, Steps, Sound

LEMMA BeginTyped ==
  \A task \in Tasks, a \in Agents, step \in Steps :
         /\ Begin(task, a, step) \in Operations
         /\ Begin(task, a, step).task = task
         /\ Begin(task, a, step).agent = a
         /\ Begin(task, a, step).at = step
         /\ Begin(task, a, step).removed = FALSE
<1> TAKE task \in Tasks, a \in Agents, step \in Steps
<1>1. ASSUME NEW o \in Operations
      PROVE  LET q == [o EXCEPT !.task = task]
             IN q \in Operations /\ q.task = task /\ q.removed = o.removed
  BY DEF Operations
<1>2. ASSUME NEW o \in Operations
      PROVE  LET q == [o EXCEPT !.agent = a]
             IN q \in Operations /\ q.task = o.task /\ q.agent = a /\ q.removed = o.removed
  BY DEF Operations
<1>3. ASSUME NEW o \in Operations
      PROVE  LET q == [o EXCEPT !.at = step]
             IN /\ q \in Operations /\ q.task = o.task /\ q.agent = o.agent
                /\ q.at = step /\ q.removed = o.removed
  BY DEF Operations
<1>4. Idle \in Operations /\ Idle.removed = FALSE
  BY IdleSound DEF Idle
<1> DEFINE p == [Idle EXCEPT !.task = task]
           q == [p EXCEPT !.agent = a]
<1>5. p \in Operations /\ p.task = task /\ p.removed = FALSE
  BY <1>1, <1>4
<1> HIDE DEF p
<1>6. q \in Operations /\ q.task = task /\ q.agent = a /\ q.removed = FALSE
  BY <1>2, <1>5
<1> HIDE DEF q
<1>7. Begin(task, a, step) = [q EXCEPT !.at = step]
  BY DEF Begin, p, q
<1> QED
  BY <1>3, <1>6, <1>7

(* An operation is as sound after somebody else's step.                    *)
LEMMA SoundStays ==
  ASSUME NEW o \in Operations, Sound(o, worktree, branch, pr),
         NothingReturns
  PROVE  Sound(o, worktree', branch', pr')
  BY DEF Sound, NothingReturns, Stays, Operations

(* One actor moves on, soundly, and the others stay where they are.        *)
LEMMA OneMoves ==
  ASSUME OpsSound, NothingReturns, NEW x \in Actors, NEW o \in Operations,
         op' = [op EXCEPT ![x] = o], Sound(o, worktree', branch', pr')
  PROVE  OpsSound'
<1>1. op' \in [Actors -> Operations]
  BY DEF OpsSound
<1>2. ASSUME NEW y \in Actors
      PROVE  Sound(op'[y], worktree', branch', pr')
  <2>1. CASE y = x
    BY <2>1 DEF OpsSound
  <2>2. CASE y # x
    BY <2>2, SoundStays DEF OpsSound
  <2> QED
    BY <2>1, <2>2
<1> QED
  BY <1>1, <1>2 DEF OpsSound

LEMMA NobodyMoves == ASSUME OpsSound, NothingReturns, UNCHANGED op PROVE OpsSound'
  BY SoundStays DEF OpsSound

LEMMA OneEnds ==
  ASSUME OpsSound, NothingReturns, NEW x \in Actors, op' = [op EXCEPT ![x] = Idle]
  PROVE  OpsSound'
  BY IdleSound, OneMoves

(* What an operation is once it has gone on to another step.               *)
At(x, step) == [op[x] EXCEPT !.at = step]

LEMMA GoesOn ==
  ASSUME OpsSound, NEW x \in Actors, NEW step \in Steps
  PROVE  /\ At(x, step) \in Operations
         /\ At(x, step).at = step
         /\ At(x, step).task = op[x].task
         /\ At(x, step).agent = op[x].agent
         /\ At(x, step).base = op[x].base
         /\ At(x, step).removed = op[x].removed
         /\ Goto(x, step) => op' = [op EXCEPT ![x] = At(x, step)]
<1>1. op[x] \in Operations /\ op \in [Actors -> Operations]
  BY DEF OpsSound
<1>2. Goto(x, step) => op' = [op EXCEPT ![x] = At(x, step)]
  BY <1>1 DEF Goto, At
<1> QED
  BY <1>1, <1>2 DEF At, Operations

-----------------------------------------------------------------------------
(* Worktrees, branches and pull requests                                   *)

LEMMA TreesStay == ASSUME TreeTypes, LandsMerged, UNCHANGED <<worktree, branch, pr>>
                   PROVE  TreeTypes' /\ LandsMerged' /\ NothingReturns
  BY DEF TreeTypes, LandsMerged, NothingReturns, Stays

LEMMA MergedMoves ==
  ASSUME TreeTypes, LandsMerged, NEW a \in Agents, Merged(a), UNCHANGED worktree
  PROVE  TreeTypes' /\ LandsMerged' /\ NothingReturns
  BY DEF TreeTypes, LandsMerged, NothingReturns, Stays, Merged, Branches, Trees, Pulls

LEMMA WorktreeRemoved ==
  ASSUME TreeTypes, LandsMerged, NEW a \in Agents,
         worktree' = [worktree EXCEPT ![a] = "none"], UNCHANGED <<branch, pr>>
  PROVE  TreeTypes' /\ LandsMerged' /\ NothingReturns
  BY DEF TreeTypes, LandsMerged, NothingReturns, Stays, Trees

LEMMA BranchGoes ==
  ASSUME TreeTypes, LandsMerged, NEW a \in Agents,
         branch' = [branch EXCEPT ![a] = "none"], UNCHANGED <<worktree, pr>>
  PROVE  TreeTypes' /\ LandsMerged' /\ NothingReturns
  BY DEF TreeTypes, LandsMerged, NothingReturns, Stays, Branches

(* The tree moves with an actor that moves its own agent's part of it.     *)
LEMMA TreeStep ==
  ASSUME LandingInv, Next
  PROVE  TreeTypes' /\ LandsMerged' /\ NothingReturns
<1>0. TreeTypes /\ LandsMerged /\ OpsSound
  BY DEF LandingInv
<1>1. ASSUME NEW x \in Actors, op[x].at # "idle"
      PROVE  op[x].agent \in Agents
  BY <1>0, <1>1 DEF OpsSound, Sound
<1>2. ASSUME NEW a \in Agents, Edit(a)
      PROVE  TreeTypes' /\ LandsMerged' /\ NothingReturns
  BY <1>0, <1>2 DEF Edit, TreeTypes, LandsMerged, NothingReturns, Stays, Trees
<1>3. ASSUME NEW a \in Agents, Commit(a)
      PROVE  TreeTypes' /\ LandsMerged' /\ NothingReturns
  BY <1>0, <1>3 DEF Commit, TreeTypes, LandsMerged, NothingReturns, Stays, Trees, Branches
<1>4. ASSUME NEW a \in Agents, Push(a)
      PROVE  TreeTypes' /\ LandsMerged' /\ NothingReturns
  BY <1>0, <1>4 DEF Push, TreeTypes, LandsMerged, NothingReturns, Stays, Branches
<1>5. ASSUME NEW a \in Agents, MergedElsewhere(a)
      PROVE  TreeTypes' /\ LandsMerged' /\ NothingReturns
  BY <1>0, <1>5, MergedMoves DEF MergedElsewhere
<1>6. ASSUME NEW x \in Actors, MergePr(x)
      PROVE  TreeTypes' /\ LandsMerged' /\ NothingReturns
  BY <1>0, <1>1, <1>6, MergedMoves, TreesStay DEF MergePr
<1>7. ASSUME NEW x \in Actors, RemoveWorktree(x) \/ ForceRemove(x) \/ TakeDown(x)
      PROVE  TreeTypes' /\ LandsMerged' /\ NothingReturns
  <2>1. op[x].agent \in Agents
    BY <1>1, <1>7 DEF RemoveWorktree, ForceRemove, TakeDown
  <2>2. UNCHANGED <<branch, pr>>
    BY <1>7 DEF RemoveWorktree, ForceRemove, TakeDown
  <2>3. UNCHANGED worktree \/ worktree' = [worktree EXCEPT ![op[x].agent] = "none"]
    BY <1>7 DEF RemoveWorktree, ForceRemove, TakeDown, Removed
  <2> QED
    BY <1>0, <2>1, <2>2, <2>3, WorktreeRemoved, TreesStay
<1>8. ASSUME NEW x \in Actors, DeleteBranch(x)
      PROVE  TreeTypes' /\ LandsMerged' /\ NothingReturns
  BY <1>0, <1>1, <1>8, BranchGoes, TreesStay DEF DeleteBranch
<1>9. CASE LeaveMcp
  <2>1. op["mcp"].agent \in Agents
    BY <1>1, <1>9 DEF LeaveMcp, Actors
  <2>2. UNCHANGED <<worktree, pr>>
    BY <1>9 DEF LeaveMcp
  <2>3. UNCHANGED branch \/ branch' = [branch EXCEPT ![op["mcp"].agent] = "none"]
    BY <1>0, <1>9 DEF LeaveMcp, TreeTypes
  <2> QED
    BY <1>0, <2>1, <2>2, <2>3, BranchGoes, TreesStay
<1>10. CASE ConfirmDelete
  <2>1. dialog.agent \in Agents => UNCHANGED branch \/ branch' = [branch EXCEPT ![dialog.agent] = "none"]
    BY <1>0, <1>10 DEF ConfirmDelete, TreeTypes
  <2>2. dialog.agent \notin Agents => UNCHANGED branch
    BY <1>0, <1>10 DEF ConfirmDelete, TreeTypes
  <2>3. UNCHANGED <<worktree, pr>>
    BY <1>10 DEF ConfirmDelete
  <2> QED
    BY <1>0, <2>1, <2>2, <2>3, BranchGoes, TreesStay
<1>11. ASSUME NEW x \in Actors,
              \/ TakeLock(x) \/ LockBusy(x) \/ FetchBase(x) \/ CheckBranch(x)
              \/ FinishMerge(x) \/ FinishReap(x) \/ FinishRestart(x) \/ Forget(x)
              \/ CheckTree(x)
       PROVE  UNCHANGED <<worktree, branch, pr>>
  BY <1>11 DEF TakeLock, LockBusy, FetchBase, CheckBranch, FinishMerge, FinishReap,
               FinishRestart, Forget, CheckTree, tree
<1>12. ASSUME NEW a \in Agents, SessionExits(a) \/ Operator(a) \/ Reap(a)
       PROVE  UNCHANGED <<worktree, branch, pr>>
  BY <1>12 DEF SessionExits, Operator, Reap, AskLand, AskKill, RestartUi, AutoCleanup,
               McpMerge, McpRestart, McpKill, McpStart, tree
<1>13. ASSUME \/ LeaveUi \/ Pass \/ Cancel \/ ConfirmMerge \/ ConfirmKill \/ Refresh
              \/ CaptureStatus \/ \E dying \in {{"daemon"}, {"mcp"}, {"ui", "job"}} : Crash(dying)
       PROVE  UNCHANGED <<worktree, branch, pr>>
  BY <1>13 DEF LeaveUi, Pass, Cancel, ConfirmMerge, ConfirmKill, Refresh, CaptureStatus,
               Crash, tree
<1> QED
  BY <1>0, <1>2, <1>3, <1>4, <1>5, <1>6, <1>7, <1>8, <1>9, <1>10, <1>11, <1>12, <1>13,
     TreesStay DEF Next, Step, Worker

-----------------------------------------------------------------------------
(* The registry file and what the UI shows of it                           *)

LEMMA ListStep ==
  ASSUME LandingInv, Next
  PROVE  ListTypes'
<1>0. ListTypes
  BY DEF LandingInv
<1>1. ASSUME NEW a \in Agents, NEW ask \in {"land", "clean", "kill", "force", "branch"}
      PROVE  Ask(ask, a) \in Dialogs
  BY DEF Ask, Dialogs
<1>2. NoDialog \in Dialogs
  BY DEF NoDialog, Dialogs
<1>3. \A x \in Actors : op[x].at # "idle" => op[x].agent \in Agents
  BY DEF LandingInv, OpsSound, Sound
<1>4. ASSUME NEW a \in Agents, Worker(a) \/ Reap(a)
      PROVE  ListTypes'
  BY <1>0, <1>4 DEF Worker, Edit, Commit, Push, SessionExits, MergedElsewhere, Reap,
                    ListTypes, ui
<1>5. ASSUME NEW x \in Actors,
             \/ TakeLock(x) \/ LockBusy(x) \/ MergePr(x) \/ FetchBase(x)
             \/ RemoveWorktree(x) \/ ForceRemove(x) \/ CheckBranch(x) \/ DeleteBranch(x)
             \/ FinishMerge(x) \/ FinishReap(x) \/ FinishRestart(x)
      PROVE  ListTypes'
  BY <1>0, <1>5 DEF TakeLock, LockBusy, MergePr, FetchBase, RemoveWorktree, ForceRemove,
                    CheckBranch, DeleteBranch, FinishMerge, FinishReap, FinishRestart,
                    ListTypes, ui
<1>6. ASSUME NEW x \in Actors, Forget(x)
      PROVE  ListTypes'
  BY <1>0, <1>2, <1>6 DEF Forget, Closed, ListTypes
<1>7. ASSUME NEW x \in Actors, CheckTree(x) \/ TakeDown(x)
      PROVE  ListTypes'
  BY <1>0, <1>1, <1>3, <1>7 DEF CheckTree, TakeDown, ListTypes
<1>8. CASE LeaveUi
  BY <1>0, <1>1, <1>3, <1>8 DEF LeaveUi, ListTypes, Actors
<1>9. CASE LeaveMcp \/ Pass \/ CaptureStatus
  BY <1>0, <1>9 DEF LeaveMcp, Pass, CaptureStatus, ListTypes, ui
<1>10. ASSUME NEW a \in Agents, Operator(a)
       PROVE  ListTypes'
  BY <1>0, <1>1, <1>2, <1>10 DEF Operator, AskLand, AskKill, RestartUi, AutoCleanup, StartJob,
         McpMerge, McpRestart, McpKill, McpStart, ListTypes, ui
<1>11. CASE Cancel \/ ConfirmMerge \/ ConfirmKill \/ ConfirmDelete \/ Refresh
  BY <1>0, <1>2, <1>11 DEF Cancel, ConfirmMerge, StartJob, ConfirmKill, ConfirmDelete, Refresh,
         ListTypes
<1>12. ASSUME NEW dying \in {{"daemon"}, {"mcp"}, {"ui", "job"}}, Crash(dying)
       PROVE  ListTypes'
  BY <1>0, <1>2, <1>12 DEF Crash, ListTypes, ui
<1> QED
  BY <1>4, <1>5, <1>6, <1>7, <1>8, <1>9, <1>10, <1>11, <1>12 DEF Next, Step

-----------------------------------------------------------------------------
(* Operations                                                              *)

LEMMA SharedSteps ==
  ASSUME LandingInv, NothingReturns, NEW x \in Actors,
         \/ TakeLock(x) \/ LockBusy(x) \/ MergePr(x) \/ FetchBase(x)
         \/ FinishMerge(x) \/ FinishReap(x) \/ FinishRestart(x) \/ Forget(x)
  PROVE  OpsSound'
<1>0. OpsSound /\ Sound(op[x], worktree, branch, pr) /\ op[x] \in Operations
  BY DEF LandingInv, OpsSound
<1>1. ASSUME End(x) PROVE OpsSound'
  BY <1>0, <1>1, OneEnds DEF End
<1>2. CASE TakeLock(x)
  <2> DEFINE step == FirstStep(op[x].task)
  <2>1. step \in {"merge", "base", "tree", "finish"} /\ step \in Steps
        /\ (step = "finish" => op[x].task = "restart") /\ op[x].agent \in Agents
    BY <1>0, <1>2 DEF TakeLock, FirstStep, Sound, Steps
  <2> HIDE DEF step
  <2>2. Goto(x, step)
    BY <1>2 DEF TakeLock, step
  <2>3. Sound(op[x], worktree', branch', pr')
    BY <1>0, SoundStays
  <2>4. Sound(At(x, step), worktree', branch', pr')
    BY <1>0, <2>1, <2>3, GoesOn DEF Sound
  <2> QED
    BY <1>0, <2>1, <2>2, <2>4, GoesOn, OneMoves
<1>3. CASE LockBusy(x) \/ FinishReap(x) \/ FinishRestart(x) \/ Forget(x)
  BY <1>1, <1>3 DEF LockBusy, FinishReap, FinishRestart, Forget
<1>4. CASE MergePr(x)
  <2>1. End(x) \/ Goto(x, "base")
    BY <1>4 DEF MergePr
  <2>2. op[x].agent \in Agents /\ "base" \in Steps
    BY <1>0, <1>4 DEF MergePr, Sound, Steps
  <2>3. Sound(op[x], worktree', branch', pr')
    BY <1>0, SoundStays
  <2>4. Sound(At(x, "base"), worktree', branch', pr')
    BY <1>0, <2>2, <2>3, GoesOn DEF Sound
  <2> QED
    BY <1>0, <1>1, <2>1, <2>2, <2>4, GoesOn, OneMoves
<1>5. CASE FetchBase(x)
  <2>1. End(x) \/ \E b \in BOOLEAN :
                     op' = [op EXCEPT ![x] = [@ EXCEPT !.at = "remove", !.base = b]]
    BY <1>5 DEF FetchBase
  <2>2. ASSUME NEW b \in BOOLEAN, op' = [op EXCEPT ![x] = [@ EXCEPT !.at = "remove", !.base = b]]
        PROVE  OpsSound'
    <3> DEFINE o == [op[x] EXCEPT !.at = "remove", !.base = b]
    <3>1. /\ o \in Operations /\ o.at = "remove" /\ o.task = op[x].task
          /\ o.agent = op[x].agent /\ o.removed = op[x].removed
      BY <1>0 DEF Operations, Steps
    <3>2. op' = [op EXCEPT ![x] = o]
      BY <1>0, <2>2 DEF OpsSound
    <3> HIDE DEF o
    <3>3. op[x].agent \in Agents /\ Sound(op[x], worktree', branch', pr')
      BY <1>0, <1>5, SoundStays DEF FetchBase, Sound
    <3>4. Sound(o, worktree', branch', pr')
      BY <3>1, <3>3 DEF Sound
    <3> QED
      BY <1>0, <3>1, <3>2, <3>4, OneMoves
  <2> QED
    BY <1>1, <2>1, <2>2
<1>6. CASE FinishMerge(x)
  <2>1. op[x].at = "finish" /\ op[x].removed /\ op[x].agent \in Agents /\ Goto(x, "forget")
    BY <1>0, <1>6 DEF FinishMerge, Sound
  <2>2. Sound(op[x], worktree', branch', pr') /\ "forget" \in Steps
    BY <1>0, SoundStays DEF Steps
  <2>3. Sound(At(x, "forget"), worktree', branch', pr')
    BY <1>0, <2>1, <2>2, GoesOn DEF Sound
  <2> QED
    BY <1>0, <2>1, <2>2, <2>3, GoesOn, OneMoves
<1> QED
  BY <1>2, <1>3, <1>4, <1>5, <1>6

(* A cleanup deletes a branch only behind a worktree that is gone, so that *)
(* what it found landed is landed when it deletes it.                      *)
LEMMA CleanupSteps ==
  ASSUME LandingInv, NothingReturns, NEW x \in Actors,
         RemoveWorktree(x) \/ ForceRemove(x) \/ CheckBranch(x) \/ DeleteBranch(x)
  PROVE  OpsSound'
<1>0. /\ OpsSound /\ Sound(op[x], worktree, branch, pr) /\ op[x] \in Operations
      /\ TreeTypes /\ LandsMerged
  BY DEF LandingInv, OpsSound
<1>1. ASSUME End(x) PROVE OpsSound'
  BY <1>0, <1>1, OneEnds DEF End
<1>2. op[x].agent \in Agents /\ {"force", "branch", "delete", "finish"} \subseteq Steps
  BY <1>0 DEF RemoveWorktree, ForceRemove, CheckBranch, DeleteBranch, Sound, Steps
<1>3. Sound(op[x], worktree', branch', pr')
  BY <1>0, SoundStays
<1>4. ASSUME NEW step \in {"branch", "finish"}, Record(x, step)
      PROVE  OpsSound'
  <2>1. CASE op[x].task = "reap"
    <3>1. Goto(x, step) /\ step \in Steps
      BY <1>2, <1>4, <2>1 DEF Record
    <3>2. Sound(At(x, step), worktree', branch', pr')
      BY <1>0, <1>2, <1>3, <2>1, <3>1, GoesOn DEF Sound
    <3> QED
      BY <1>0, <3>1, <3>2, GoesOn, OneMoves
  <2> QED
    BY <1>1, <1>4, <2>1 DEF Record
<1>5. ASSUME Removed(x)
      PROVE  OpsSound'
  <2> DEFINE o == [op[x] EXCEPT !.at = "branch", !.removed = TRUE]
  <2>1. /\ o \in Operations /\ o.at = "branch" /\ o.task = op[x].task
        /\ o.agent = op[x].agent /\ o.removed
    BY <1>0, <1>2 DEF Operations
  <2>2. op' = [op EXCEPT ![x] = o] /\ worktree'[op[x].agent] = "none"
    BY <1>0, <1>2, <1>5 DEF Removed, OpsSound, TreeTypes, Trees
  <2> HIDE DEF o
  <2>3. Sound(o, worktree', branch', pr')
    BY <1>2, <2>1, <2>2 DEF Sound
  <2> QED
    BY <1>0, <2>1, <2>2, <2>3, OneMoves
<1>6. CASE RemoveWorktree(x)
  <2>1. ASSUME Landed(x), Goto(x, "force")
        PROVE  OpsSound'
    <3>1. pr[op[x].agent] = "merged"
      BY <1>0, <1>2, <2>1 DEF Landed, ContentMerged, LandsMerged
    <3>2. pr'[op[x].agent] = "merged"
      BY <1>2, <3>1 DEF NothingReturns, Stays
    <3>3. Sound(At(x, "force"), worktree', branch', pr')
      BY <1>0, <1>2, <1>3, <3>2, GoesOn DEF Sound
    <3> QED
      BY <1>0, <1>2, <2>1, <3>3, GoesOn, OneMoves
  <2> QED
    BY <1>4, <1>5, <1>6, <2>1 DEF RemoveWorktree
<1>7. CASE ForceRemove(x)
  BY <1>4, <1>5, <1>7 DEF ForceRemove
<1>8. CASE CheckBranch(x)
  <2> DEFINE deletes == op[x].removed /\ branch[op[x].agent] # "none" /\ Landed(x)
  <2>1. op[x].at = "branch" /\ UNCHANGED <<worktree, branch>>
    BY <1>8 DEF CheckBranch, tree
  <2>2. ASSUME deletes, Goto(x, "delete")
        PROVE  OpsSound'
    <3>1. op[x].removed /\ branch[op[x].agent] = "landed"
      BY <2>2 DEF Landed, ContentMerged
    <3>2. Sound(At(x, "delete"), worktree', branch', pr')
      BY <1>0, <1>2, <1>3, <2>1, <3>1, GoesOn DEF Sound
    <3> QED
      BY <1>0, <1>2, <2>2, <3>2, GoesOn, OneMoves
  <2>3. ASSUME Goto(x, "finish")
        PROVE  OpsSound'
    <3>1. Sound(At(x, "finish"), worktree', branch', pr')
      BY <1>0, <1>2, <1>3, <2>1, GoesOn DEF Sound
    <3> QED
      BY <1>0, <1>2, <2>3, <3>1, GoesOn, OneMoves
  <2> QED
    BY <1>4, <1>8, <2>2, <2>3 DEF CheckBranch
<1>9. CASE DeleteBranch(x)
  <2>1. ASSUME Goto(x, "finish")
        PROVE  OpsSound'
    <3>1. Sound(At(x, "finish"), worktree', branch', pr')
      BY <1>0, <1>2, <1>3, <1>9, GoesOn DEF Sound, DeleteBranch
    <3> QED
      BY <1>0, <1>2, <2>1, <3>1, GoesOn, OneMoves
  <2> QED
    BY <1>4, <1>9, <2>1 DEF DeleteBranch
<1> QED
  BY <1>6, <1>7, <1>8, <1>9

(* A kill leaves only once there is no worktree, removed by it or not.     *)
LEMMA KillSteps ==
  ASSUME LandingInv, NothingReturns, NEW x \in Actors,
         \/ CheckTree(x) \/ TakeDown(x)
         \/ x = "ui" /\ LeaveUi
         \/ x = "mcp" /\ LeaveMcp
  PROVE  OpsSound'
<1>0. /\ OpsSound /\ Sound(op[x], worktree, branch, pr) /\ op[x] \in Operations
      /\ TreeTypes
  BY DEF LandingInv, OpsSound
<1>1. ASSUME End(x) PROVE OpsSound'
  BY <1>0, <1>1, OneEnds DEF End
<1>2. op[x].agent \in Agents /\ {"take", "leave", "forget"} \subseteq Steps
  BY <1>0 DEF CheckTree, TakeDown, LeaveUi, LeaveMcp, Sound, Steps
<1>3. Sound(op[x], worktree', branch', pr')
  BY <1>0, SoundStays
<1>4. CASE CheckTree(x)
  <2> DEFINE here == worktree[op[x].agent] # "none"
             step == IF op[x].removed THEN "leave" ELSE "take"
  <2>1. ASSUME op' = [op EXCEPT ![x] = [@ EXCEPT !.at = step, !.base = here]]
        PROVE  OpsSound'
    <3> DEFINE o == [op[x] EXCEPT !.at = step, !.base = here]
    <3>1. op' = [op EXCEPT ![x] = o]
      BY <1>0, <2>1 DEF OpsSound
    <3>2. here \in BOOLEAN /\ step \in {"take", "leave"} /\ UNCHANGED worktree
          /\ (here \/ worktree[op[x].agent] = "none")
          /\ (step = "leave" => op[x].removed)
      BY <1>4 DEF CheckTree, tree
    <3> HIDE DEF here, step
    <3>3. /\ o \in Operations /\ o.at = step /\ o.task = op[x].task
          /\ o.agent = op[x].agent /\ o.removed = op[x].removed /\ o.base = here
      BY <1>0, <1>2, <3>2 DEF Operations
    <3> HIDE DEF o
    <3>4. Sound(o, worktree', branch', pr')
      BY <1>2, <1>3, <3>2, <3>3 DEF Sound
    <3> QED
      BY <1>0, <3>1, <3>3, <3>4, OneMoves
  <2> QED
    BY <1>1, <1>4, <2>1 DEF CheckTree
<1>5. CASE TakeDown(x)
  <2>1. ASSUME worktree' = [worktree EXCEPT ![op[x].agent] = "none"], Goto(x, "leave")
        PROVE  OpsSound'
    <3>1. worktree'[op[x].agent] = "none"
      BY <1>0, <1>2, <2>1 DEF TreeTypes, Trees
    <3>2. Sound(At(x, "leave"), worktree', branch', pr')
      BY <1>0, <1>2, <1>3, <3>1, GoesOn DEF Sound
    <3> QED
      BY <1>0, <1>2, <2>1, <3>2, GoesOn, OneMoves
  <2> QED
    BY <1>1, <1>5, <2>1 DEF TakeDown
<1>6. CASE x = "ui" /\ LeaveUi
  BY <1>1, <1>6 DEF LeaveUi
<1>7. CASE x = "mcp" /\ LeaveMcp
  <2>1. ASSUME Goto(x, "forget")
        PROVE  OpsSound'
    <3>1. Sound(At(x, "forget"), worktree', branch', pr')
      BY <1>0, <1>2, <1>3, <1>7, GoesOn DEF Sound, LeaveMcp
    <3> QED
      BY <1>0, <1>2, <2>1, <3>1, GoesOn, OneMoves
  <2> QED
    BY <1>1, <1>7, <2>1 DEF LeaveMcp
<1> QED
  BY <1>4, <1>5, <1>6, <1>7

(* Operations begin before their lock, or at a worktree nobody has checked.*)
LEMMA Starts ==
  ASSUME LandingInv, NothingReturns, Next, UNCHANGED tree
  PROVE  /\ \A a \in Agents : Operator(a) \/ Reap(a) => OpsSound'
         /\ ConfirmMerge \/ ConfirmKill => OpsSound'
<1>0. OpsSound /\ TreeTypes /\ ListTypes
  BY DEF LandingInv
<1>1. ASSUME UNCHANGED op PROVE OpsSound'
  BY <1>0, <1>1, NobodyMoves
<1>2. ASSUME NEW x \in Actors, op' = [op EXCEPT ![x] = Idle] PROVE OpsSound'
  BY <1>0, <1>2, OneEnds
<1>3. ASSUME NEW x \in Actors, NEW a \in Agents,
             NEW task \in {"land", "clean", "reap", "restart"},
             op' = [op EXCEPT ![x] = Begin(task, a, "lock")]
      PROVE  OpsSound'
  <2>1. task \in Tasks /\ "lock" \in Steps
    BY DEF Tasks, Steps
  <2> DEFINE o == Begin(task, a, "lock")
  <2>2. o \in Operations /\ o.task = task /\ o.agent = a /\ o.at = "lock" /\ o.removed = FALSE
    BY <2>1, BeginTyped
  <2>3. op' = [op EXCEPT ![x] = o]
    BY <1>3
  <2> HIDE DEF o
  <2>4. Sound(o, worktree', branch', pr')
    BY <2>2 DEF Sound
  <2> QED
    BY <1>0, <2>2, <2>3, <2>4, OneMoves
<1>4. ASSUME NEW x \in Actors, NEW a \in Agents, NEW step \in {"lock", "tree"},
             NEW force \in BOOLEAN, NEW delete \in BOOLEAN, NEW removed \in BOOLEAN,
             removed => worktree[a] = "none",
             op' = [op EXCEPT ![x] = [Begin("kill", a, step) EXCEPT
                      !.force = force, !.delete = delete, !.removed = removed]]
      PROVE  OpsSound'
  <2> DEFINE b == Begin("kill", a, step)
             o == [b EXCEPT !.force = force, !.delete = delete, !.removed = removed]
  <2>1. "kill" \in Tasks /\ step \in Steps
    BY DEF Tasks, Steps
  <2>2. b \in Operations /\ b.task = "kill" /\ b.agent = a /\ b.at = step
    BY <2>1, BeginTyped
  <2>3. op' = [op EXCEPT ![x] = o]
    BY <1>4
  <2> HIDE DEF b
  <2>4. o \in Operations /\ o.task = "kill" /\ o.agent = a /\ o.at = step /\ o.removed = removed
    BY <2>2 DEF Operations
  <2> HIDE DEF o
  <2>5. worktree' = worktree
    BY DEF tree
  <2>6. Sound(o, worktree', branch', pr')
    BY <1>4, <2>4, <2>5 DEF Sound
  <2> QED
    BY <1>0, <2>3, <2>4, <2>6, OneMoves
<1>5. ASSUME NEW a \in Agents, NEW force \in BOOLEAN,
             op' = [op EXCEPT !["ui"] = [Begin("kill", a, "tree") EXCEPT !.force = force]]
      PROVE  OpsSound'
  <2> DEFINE b == Begin("kill", a, "tree")
             o == [b EXCEPT !.force = force]
  <2>1. "kill" \in Tasks /\ "tree" \in Steps /\ "ui" \in Actors
    BY DEF Tasks, Steps, Actors
  <2>2. b \in Operations /\ b.task = "kill" /\ b.agent = a /\ b.at = "tree" /\ b.removed = FALSE
    BY <2>1, BeginTyped
  <2>3. op' = [op EXCEPT !["ui"] = o]
    BY <1>5
  <2> HIDE DEF b
  <2>4. o \in Operations /\ o.task = "kill" /\ o.agent = a /\ o.at = "tree" /\ o.removed = FALSE
    BY <2>2 DEF Operations
  <2> HIDE DEF o
  <2>5. Sound(o, worktree', branch', pr')
    BY <2>4 DEF Sound
  <2> QED
    BY <1>0, <2>1, <2>3, <2>4, <2>5, OneMoves
<1>6. ASSUME NEW a \in Agents, Reap(a)
      PROVE  OpsSound'
  <2>1. UNCHANGED op \/ op' = [op EXCEPT !["daemon"] = Begin("reap", a, "lock")]
        \/ op' = [op EXCEPT !["daemon"] = Idle]
    BY <1>6 DEF Reap
  <2> QED
    BY <1>1, <1>2, <1>3, <2>1 DEF Actors
<1>7. ASSUME NEW a \in Agents, NEW task \in {"land", "clean"}, StartJob(task, a)
      PROVE  OpsSound'
  BY <1>1, <1>3, <1>7 DEF StartJob, Actors
<1>8. ASSUME NEW a \in Agents, McpKill(a, FALSE, FALSE) \/ McpKill(a, FALSE, TRUE)
                             \/ McpKill(a, TRUE, FALSE) \/ McpKill(a, TRUE, TRUE)
      PROVE  OpsSound'
  <2>1. PICK force \in BOOLEAN, delete \in BOOLEAN : McpKill(a, force, delete)
    BY <1>8
  <2> DEFINE removed == BranchOnly(a)
  <2>2. removed \in BOOLEAN /\ (removed => worktree[a] = "none")
    BY DEF BranchOnly
  <2>3. op' = [op EXCEPT !["mcp"] = [Begin("kill", a, "lock") EXCEPT
                 !.force = force, !.delete = delete, !.removed = removed]]
    BY <2>1 DEF McpKill, McpStart
  <2> HIDE DEF removed
  <2> QED
    BY <1>4, <2>2, <2>3 DEF Actors
<1>9. ASSUME NEW a \in Agents, Operator(a)
      PROVE  OpsSound'
  <2>1. CASE AskLand(a) \/ AskKill(a) \/ RestartUi(a)
    BY <1>1, <2>1 DEF AskLand, AskKill, RestartUi
  <2>2. CASE AutoCleanup(a)
    BY <1>7, <2>2 DEF AutoCleanup
  <2>3. CASE McpMerge(a) \/ McpRestart(a)
    BY <1>3, <2>3 DEF McpMerge, McpRestart, McpStart, Actors
  <2>4. CASE \E force, delete \in BOOLEAN : McpKill(a, force, delete)
    BY <1>8, <2>4
  <2> QED
    BY <1>9, <2>1, <2>2, <2>3, <2>4 DEF Operator
<1>10. ASSUME ConfirmMerge
       PROVE  OpsSound'
  <2>1. CASE dialog.agent \in Agents
    BY <1>7, <1>10, <2>1 DEF ConfirmMerge
  <2>2. CASE dialog.agent \notin Agents
    BY <1>0, <1>1, <1>10, <2>2 DEF ConfirmMerge, StartJob, ListTypes
  <2> QED
    BY <2>1, <2>2
<1>11. ASSUME ConfirmKill
       PROVE  OpsSound'
  <2> DEFINE force == dialog.ask = "force"
  <2>1. force \in BOOLEAN
    OBVIOUS
  <2>2. CASE dialog.agent \in screen /\ ~Merging(dialog.agent)
    <3>1. op' = [op EXCEPT !["ui"] = [Begin("kill", dialog.agent, "tree") EXCEPT !.force = force]]
      BY <1>11, <2>2 DEF ConfirmKill
    <3>2. dialog.agent \in Agents
      BY <1>0, <2>2 DEF ListTypes
    <3> HIDE DEF force
    <3> QED
      BY <1>5, <2>1, <3>1, <3>2
  <2> QED
    BY <1>1, <1>11, <2>2 DEF ConfirmKill
<1> QED
  BY <1>6, <1>9, <1>10, <1>11

(* A process that dies leaves what it was in the middle of.                *)
LEMMA CrashSound ==
  ASSUME LandingInv, NothingReturns, NEW dying \in SUBSET Actors, Crash(dying)
  PROVE  OpsSound'
<1>1. \A x \in Actors : op'[x] = IF x \in dying THEN Idle ELSE op[x]
  BY DEF Crash
<1>2. \A x \in Actors : op[x] \in Operations /\ Sound(op[x], worktree', branch', pr')
  BY SoundStays DEF LandingInv, OpsSound
<1>3. op' \in [Actors -> Operations]
  BY <1>2, IdleSound DEF Crash
<1> QED
  BY <1>1, <1>2, <1>3, IdleSound DEF OpsSound

LEMMA OpStep ==
  ASSUME LandingInv, Next, NothingReturns
  PROVE  OpsSound'
<1>0. OpsSound
  BY DEF LandingInv
<1>1. ASSUME NEW x \in Actors, Step(x)
      PROVE  OpsSound'
  BY <1>1, SharedSteps, CleanupSteps, KillSteps DEF Step
<1>2. CASE LeaveUi \/ LeaveMcp
  BY <1>2, KillSteps DEF Actors
<1>3. ASSUME NEW a \in Agents, Operator(a) \/ Reap(a)
      PROVE  OpsSound'
  <2>1. UNCHANGED tree
    BY <1>3 DEF Operator, Reap, AskLand, AskKill, RestartUi, AutoCleanup, McpMerge,
                McpRestart, McpKill, McpStart
  <2> QED
    BY <1>3, <2>1, Starts
<1>4. CASE ConfirmMerge \/ ConfirmKill
  <2>1. UNCHANGED tree
    BY <1>4 DEF ConfirmMerge, ConfirmKill, tree
  <2> QED
    BY <1>4, <2>1, Starts
<1>5. ASSUME NEW a \in Agents, Worker(a)
      PROVE  OpsSound'
  BY <1>0, <1>5, NobodyMoves DEF Worker, Edit, Commit, Push, SessionExits, MergedElsewhere
<1>6. CASE Pass \/ Cancel \/ ConfirmDelete \/ Refresh \/ CaptureStatus
  BY <1>0, <1>6, NobodyMoves DEF Pass, Cancel, ConfirmDelete, Refresh, CaptureStatus
<1>7. ASSUME NEW dying \in {{"daemon"}, {"mcp"}, {"ui", "job"}}, Crash(dying)
      PROVE  OpsSound'
  BY <1>7, CrashSound DEF Actors
<1> QED
  BY <1>1, <1>2, <1>3, <1>4, <1>5, <1>6, <1>7 DEF Next

LEMMA LandingStep == LandingInv /\ [Next]_vars => LandingInv'
<1> SUFFICES ASSUME LandingInv, [Next]_vars
             PROVE  LandingInv'
  OBVIOUS
<1>1. CASE Next
  BY <1>1, TreeStep, ListStep, OpStep DEF LandingInv
<1>2. CASE UNCHANGED vars
  BY <1>2 DEF vars, tree, ui, LandingInv, TreeTypes, ListTypes, OpsSound, LandsMerged
<1> QED
  BY <1>1, <1>2

LEMMA LandingStarts == Init => LandingInv
<1> SUFFICES ASSUME Init
             PROVE  LandingInv
  OBVIOUS
<1>1. TreeTypes /\ LandsMerged
  BY DEF Init, TreeTypes, Trees, Pulls, Branches, LandsMerged
<1>2. ListTypes
  BY DEF Init, ListTypes, NoDialog, Dialogs
<1>3. OpsSound
  BY IdleSound DEF Init, OpsSound
<1> QED
  BY <1>1, <1>2, <1>3 DEF LandingInv

-----------------------------------------------------------------------------
(* What is kept                                                            *)

(* A row goes behind its worktree: a cleanup or a kill that drops it has   *)
(* seen the worktree removed, whatever failed before.                      *)
LEMMA RowStep ==
  ASSUME LandingInv, Next, NEW a \in row \ row'
  PROVE  worktree[a] = "none"
<1>0. \A x \in Actors : Sound(op[x], worktree, branch, pr)
  BY DEF LandingInv, OpsSound
<1>1. ASSUME NEW x \in Actors, FinishReap(x) \/ Forget(x)
      PROVE  worktree[a] = "none"
  BY <1>0, <1>1 DEF FinishReap, Forget, Sound
<1>2. CASE LeaveUi
  BY <1>0, <1>2 DEF LeaveUi, Sound, Actors
<1>3. CASE ConfirmDelete
  BY <1>3 DEF ConfirmDelete
<1>4. ASSUME NEW x \in Actors,
             \/ TakeLock(x) \/ LockBusy(x) \/ MergePr(x) \/ FetchBase(x)
             \/ RemoveWorktree(x) \/ ForceRemove(x) \/ CheckBranch(x) \/ DeleteBranch(x)
             \/ FinishMerge(x) \/ FinishRestart(x) \/ CheckTree(x) \/ TakeDown(x)
      PROVE  UNCHANGED row
  BY <1>4 DEF TakeLock, LockBusy, MergePr, FetchBase, RemoveWorktree, ForceRemove,
              CheckBranch, DeleteBranch, FinishMerge, FinishRestart, CheckTree, TakeDown
<1>5. ASSUME NEW b \in Agents, Worker(b) \/ Operator(b) \/ Reap(b)
      PROVE  UNCHANGED row
  BY <1>5 DEF Worker, Edit, Commit, Push, SessionExits, MergedElsewhere, Operator, AskLand,
     AskKill, RestartUi, AutoCleanup, McpMerge, McpRestart, McpKill, McpStart, Reap
<1>6. ASSUME \/ LeaveMcp \/ Pass \/ Cancel \/ ConfirmMerge \/ ConfirmKill \/ Refresh
             \/ CaptureStatus \/ \E dying \in {{"daemon"}, {"mcp"}, {"ui", "job"}} : Crash(dying)
      PROVE  UNCHANGED row
  BY <1>6 DEF LeaveMcp, Pass, Cancel, ConfirmMerge, ConfirmKill, Refresh, CaptureStatus, Crash
<1> QED
  BY <1>1, <1>2, <1>3, <1>4, <1>5, <1>6 DEF Next, Step

(* A branch with work the base lacks goes where an operator asked.         *)
LEMMA BranchStep ==
  ASSUME LandingInv, Next, NEW a \in Agents,
         branch[a] \in {"local", "pushed"}, branch'[a] = "none"
  PROVE  DeleteAsked(a)
<1>0. TreeTypes /\ \A x \in Actors : Sound(op[x], worktree, branch, pr)
  BY DEF LandingInv, OpsSound
<1>1. ASSUME NEW x \in Actors, DeleteBranch(x)
      PROVE  FALSE
  BY <1>0, <1>1 DEF DeleteBranch, Sound, TreeTypes
<1>2. CASE LeaveMcp
  BY <1>0, <1>2 DEF LeaveMcp, DeleteAsked, TreeTypes
<1>3. CASE ConfirmDelete
  <2>1. dialog.ask = "branch" /\ dialog.agent = a
    BY <1>0, <1>3 DEF ConfirmDelete, TreeTypes
  <2>2. dialog = Ask("branch", a)
    BY <2>1 DEF LandingInv, ListTypes, Dialogs, Ask
  <2> QED
    BY <2>2 DEF DeleteAsked
<1>4. ASSUME NEW b \in Agents, Merged(b) PROVE FALSE
  BY <1>0, <1>4 DEF Merged, TreeTypes
<1>5. ASSUME NEW x \in Actors, MergePr(x) PROVE FALSE
  BY <1>0, <1>4, <1>5 DEF MergePr, Sound
<1>6. ASSUME NEW b \in Agents, Edit(b) \/ Commit(b) \/ Push(b) \/ MergedElsewhere(b)
      PROVE  FALSE
  BY <1>0, <1>4, <1>6 DEF Edit, Commit, Push, MergedElsewhere, TreeTypes
<1>7. ASSUME NEW x \in Actors,
             \/ TakeLock(x) \/ LockBusy(x) \/ FetchBase(x) \/ RemoveWorktree(x)
             \/ ForceRemove(x) \/ CheckBranch(x) \/ FinishMerge(x) \/ FinishReap(x)
             \/ FinishRestart(x) \/ Forget(x) \/ CheckTree(x) \/ TakeDown(x)
      PROVE  UNCHANGED branch
  BY <1>7 DEF TakeLock, LockBusy, FetchBase, RemoveWorktree, ForceRemove, CheckBranch,
              FinishMerge, FinishReap, FinishRestart, Forget, CheckTree, TakeDown, tree
<1>8. ASSUME NEW b \in Agents, SessionExits(b) \/ Operator(b) \/ Reap(b)
      PROVE  UNCHANGED branch
  BY <1>8 DEF SessionExits, Operator, AskLand, AskKill, RestartUi, AutoCleanup, McpMerge,
              McpRestart, McpKill, McpStart, Reap, tree
<1>9. ASSUME \/ LeaveUi \/ Pass \/ Cancel \/ ConfirmMerge \/ ConfirmKill \/ Refresh
             \/ CaptureStatus \/ \E dying \in {{"daemon"}, {"mcp"}, {"ui", "job"}} : Crash(dying)
      PROVE  UNCHANGED branch
  BY <1>9 DEF LeaveUi, Pass, Cancel, ConfirmMerge, ConfirmKill, Refresh, CaptureStatus,
              Crash, tree
<1> QED
  BY <1>1, <1>2, <1>3, <1>5, <1>6, <1>7, <1>8, <1>9 DEF Next, Step, Worker

(* Uncommitted work goes by force, or behind a merge.                      *)
LEMMA DirtyStep ==
  ASSUME LandingInv, Next, NEW a \in Agents, worktree[a] = "dirty", worktree'[a] = "none"
  PROVE  pr[a] = "merged" \/ \E x \in Actors : op[x].agent = a /\ op[x].force
<1>0. TreeTypes /\ \A x \in Actors : Sound(op[x], worktree, branch, pr)
  BY DEF LandingInv, OpsSound
<1>1. ASSUME NEW x \in Actors, RemoveWorktree(x)
      PROVE  FALSE
  BY <1>0, <1>1 DEF RemoveWorktree, Removed, TreeTypes, Trees
<1>2. ASSUME NEW x \in Actors, ForceRemove(x)
      PROVE  pr[a] = "merged"
  BY <1>0, <1>2 DEF ForceRemove, Removed, Sound, TreeTypes, Trees
<1>3. ASSUME NEW x \in Actors, TakeDown(x)
      PROVE  op[x].agent = a /\ op[x].force
  BY <1>0, <1>3 DEF TakeDown, Sound, TreeTypes, Trees
<1>4. ASSUME NEW b \in Agents, Edit(b) \/ Commit(b)
      PROVE  FALSE
  BY <1>0, <1>4 DEF Edit, Commit, TreeTypes, Trees
<1>5. ASSUME NEW x \in Actors,
             \/ TakeLock(x) \/ LockBusy(x) \/ MergePr(x) \/ FetchBase(x)
             \/ CheckBranch(x) \/ DeleteBranch(x) \/ FinishMerge(x) \/ FinishReap(x)
             \/ FinishRestart(x) \/ Forget(x) \/ CheckTree(x)
      PROVE  UNCHANGED worktree
  BY <1>5 DEF TakeLock, LockBusy, MergePr, FetchBase, CheckBranch, DeleteBranch, FinishMerge,
              FinishReap, FinishRestart, Forget, CheckTree, tree
<1>6. ASSUME NEW b \in Agents,
             \/ Push(b) \/ SessionExits(b) \/ MergedElsewhere(b) \/ Operator(b) \/ Reap(b)
      PROVE  UNCHANGED worktree
  BY <1>6 DEF Push, SessionExits, MergedElsewhere, Operator, AskLand, AskKill, RestartUi,
              AutoCleanup, McpMerge, McpRestart, McpKill, McpStart, Reap, tree
<1>7. ASSUME \/ LeaveUi \/ LeaveMcp \/ Pass \/ Cancel \/ ConfirmMerge \/ ConfirmKill
             \/ ConfirmDelete \/ Refresh \/ CaptureStatus
             \/ \E dying \in {{"daemon"}, {"mcp"}, {"ui", "job"}} : Crash(dying)
      PROVE  UNCHANGED worktree
  BY <1>7 DEF LeaveUi, LeaveMcp, Pass, Cancel, ConfirmMerge, ConfirmKill, ConfirmDelete,
              Refresh, CaptureStatus, Crash, tree
<1> QED
  BY <1>1, <1>2, <1>3, <1>4, <1>5, <1>6, <1>7 DEF Next, Step, Worker

(* Work nobody gave up is kept, and so is the row that leads to it,        *)
(* whoever lands, cleans up, kills or dies (git/post_merge.rs,             *)
(* git/merge_flow.rs, overseer/exec and ui/actions).                       *)
THEOREM LandingKeepsWork == Spec => WorkKept
<1>1. LandingInv /\ [Next]_vars => [\A a \in row \ row' : worktree[a] = "none"]_vars
  BY RowStep
<1>2. LandingInv /\ [Next]_vars
        => [\A a \in Agents : branch[a] \in {"local", "pushed"} /\ branch'[a] = "none"
              => DeleteAsked(a)]_vars
  BY BranchStep
<1>3. LandingInv /\ [Next]_vars
        => [\A a \in Agents : worktree[a] = "dirty" /\ worktree'[a] = "none"
              => \/ pr[a] = "merged"
                 \/ \E x \in Actors : op[x].agent = a /\ op[x].force]_vars
  BY DirtyStep
<1> QED
  BY <1>1, <1>2, <1>3, LandingStarts, LandingStep, PTL
     DEF Spec, WorkKept, RowsOutliveWorktrees, CommitsKept, UncommittedKept

-----------------------------------------------------------------------------
(***************************************************************************)
(* The launch of a session                                                 *)
(***************************************************************************)

(* What is so of the environment of whoever was launched, and of whoever   *)
(* was started again.                                                      *)
OwnEnv(env) ==
    /\ env \in [VarNames -> Values]
    /\ env["id"] = "own" /\ env["identity"] = "empty"
    /\ env["parent"] \in {"own", "empty"}
    /\ env["color"] # "ambient"
    /\ env["bot"] \notin {"file", "config"}

WorkerOwnEnv(env) == OwnEnv(env) /\ env["blocked"] # "ambient"

LEMMA GivenFits ==
    ASSUME NEW own \in SUBSET {"blocked", "color"},
           NEW server \in SUBSET {"blocked", "bot", "identity"},
           NEW file \in SUBSET {"blocked", "bot"}, NEW config \in SUBSET {"blocked"},
           NEW given,
           given = Prefer(WorkerEnv(BlockedEnv(own, server), Channel(file, config)), ChildEnv)
    PROVE  /\ {"id", "parent"} \subseteq DOMAIN given /\ given["id"] = "own" /\ given["parent"] = "own"
           /\ {"identity", "color"} \cap DOMAIN given = {}
           /\ "bot" \in DOMAIN given => given["bot"] = "empty"
           /\ "bot" \in server => "bot" \in DOMAIN given
           /\ "blocked" \in server => "blocked" \in DOMAIN given
           /\ "blocked" \in DOMAIN given => given["blocked"] \in {"empty", "file", "config"}
<1> DEFINE c == Channel(file, config)
           b == BlockedEnv(own, server)
           w == WorkerEnv(b, c)
           i == ChildEnv
<1>1. /\ DOMAIN c = (file \cup config) \ {"bot"}
      /\ \A n \in DOMAIN c : c[n] \in {"config", "file"}
  BY DEF Channel
<1>2. /\ DOMAIN b = (own \cup server) \cap {"blocked", "bot"}
      /\ \A n \in DOMAIN b : b[n] = "empty"
  BY DEF BlockedEnv
<1>3. /\ DOMAIN w = DOMAIN c \cup DOMAIN b
      /\ \A n \in DOMAIN w : w[n] = IF n \in DOMAIN c THEN c[n] ELSE b[n]
  BY DEF WorkerEnv, Prefer
<1>4. DOMAIN i = {"id", "parent"} /\ i["id"] = "own" /\ i["parent"] = "own"
  BY DEF AgentEnv, ChildEnv
<1> HIDE DEF c, b, i
<1> HIDE DEF w
<1>5. /\ DOMAIN given = DOMAIN w \cup DOMAIN i
      /\ \A n \in DOMAIN given : given[n] = IF n \in DOMAIN w THEN w[n] ELSE i[n]
  BY DEF Prefer, w, b, c, i
<1>6. DOMAIN w \subseteq {"blocked", "bot"} /\ "bot" \notin DOMAIN c
  BY <1>1, <1>2, <1>3
<1>7. {"id", "parent"} \subseteq DOMAIN given /\ given["id"] = "own" /\ given["parent"] = "own"
  BY <1>4, <1>5, <1>6
<1>8. {"identity", "color"} \cap DOMAIN given = {}
  BY <1>4, <1>5, <1>6
<1>9. "bot" \in DOMAIN given => given["bot"] = "empty"
  <2> SUFFICES ASSUME "bot" \in DOMAIN given PROVE given["bot"] = "empty"
    OBVIOUS
  <2>1. "bot" \in DOMAIN w
    BY <1>4, <1>5
  <2>2. w["bot"] = b["bot"] /\ "bot" \in DOMAIN b
    BY <2>1, <1>3, <1>6
  <2> QED BY <2>1, <2>2, <1>2, <1>5
<1>10. /\ "bot" \in server => "bot" \in DOMAIN given
       /\ "blocked" \in server => "blocked" \in DOMAIN given
  BY <1>2, <1>3, <1>5
<1>11. "blocked" \in DOMAIN given => given["blocked"] \in {"empty", "file", "config"}
  <2> SUFFICES ASSUME "blocked" \in DOMAIN given PROVE given["blocked"] \in {"empty", "file", "config"}
    OBVIOUS
  <2>1. "blocked" \in DOMAIN w
    BY <1>4, <1>5
  <2>2. w["blocked"] \in {"empty", "file", "config"}
    BY <2>1, <1>1, <1>2, <1>3
  <2> QED BY <2>1, <2>2, <1>5
<1> QED BY <1>7, <1>8, <1>9, <1>10, <1>11

LEMMA LaunchedEnv == \A env \in LaunchEnvs : WorkerOwnEnv(env)
<1> SUFFICES ASSUME NEW e \in LaunchEnvs PROVE WorkerOwnEnv(e)
  OBVIOUS
<1>0. \E own \in SUBSET {"blocked", "color"}, server \in SUBSET {"blocked", "bot", "identity"},
         file \in SUBSET {"blocked", "bot"}, config \in SUBSET {"blocked"} :
       e = SessionEnv(Prefer(WorkerEnv(BlockedEnv(own, server), Channel(file, config)), ChildEnv),
                      own, server)
  BY DEF LaunchEnvs
<1> PICK own \in SUBSET {"blocked", "color"}, server \in SUBSET {"blocked", "bot", "identity"},
         file \in SUBSET {"blocked", "bot"}, config \in SUBSET {"blocked"} :
       e = SessionEnv(Prefer(WorkerEnv(BlockedEnv(own, server), Channel(file, config)), ChildEnv),
                      own, server)
  BY <1>0
<1> DEFINE given == Prefer(WorkerEnv(BlockedEnv(own, server), Channel(file, config)), ChildEnv)
           env == SessionEnv(given, own, server)
<1>e. e = env
  OBVIOUS
<1>1. /\ {"id", "parent"} \subseteq DOMAIN given /\ given["id"] = "own" /\ given["parent"] = "own"
      /\ {"identity", "color"} \cap DOMAIN given = {}
      /\ "bot" \in DOMAIN given => given["bot"] = "empty"
      /\ "bot" \in server => "bot" \in DOMAIN given
      /\ "blocked" \in server => "blocked" \in DOMAIN given
      /\ "blocked" \in DOMAIN given => given["blocked"] \in {"empty", "file", "config"}
  BY GivenFits
<1> HIDE DEF given
<1>2. env = [n \in VarNames |->
         IF n \in DOMAIN given THEN given[n]
         ELSE IF n \in {"id", "parent", "identity"} THEN "empty"
         ELSE IF n = "color" THEN (IF n \in own THEN "terminal" ELSE "unset")
         ELSE IF n \in server THEN "ambient" ELSE "unset"]
  BY DEF SessionEnv
<1> HIDE DEF env
<1>3. /\ env["id"] = "own" /\ env["parent"] = "own" /\ env["identity"] = "empty"
      /\ env["color"] \in {"terminal", "unset"}
  BY <1>1, <1>2 DEF VarNames
<1>4. env["bot"] \in {"empty", "unset"}
  BY <1>1, <1>2 DEF VarNames
<1>5. env["blocked"] \in {"empty", "file", "config", "unset"}
  BY <1>1, <1>2 DEF VarNames
<1>6. env \in [VarNames -> Values]
  <2>1. \A n \in VarNames : env[n] \in Values
    BY <1>3, <1>4, <1>5 DEF VarNames, Values
  <2> QED BY <1>2, <2>1
<1>7. WorkerOwnEnv(env)
  BY <1>3, <1>4, <1>5, <1>6 DEF WorkerOwnEnv, OwnEnv
<1> QED BY <1>e, <1>7

LEMMA RelaunchedEnv == \A env \in RelaunchEnvs : OwnEnv(env)
<1> SUFFICES ASSUME NEW parented \in BOOLEAN, NEW own \in SUBSET {"color"},
                    NEW server \in SUBSET {"identity", "parent"}
             PROVE  OwnEnv(SessionEnv(AgentEnv(parented), own, server))
  BY DEF RelaunchEnvs
<1> DEFINE given == AgentEnv(parented)
           env == SessionEnv(given, own, server)
<1>1. /\ DOMAIN given \in {{"id"}, {"id", "parent"}}
      /\ \A n \in DOMAIN given : given[n] = "own"
  BY DEF AgentEnv
<1> HIDE DEF given
<1>2. env = [n \in VarNames |->
         IF n \in DOMAIN given THEN given[n]
         ELSE IF n \in {"id", "parent", "identity"} THEN "empty"
         ELSE IF n = "color" THEN (IF n \in own THEN "terminal" ELSE "unset")
         ELSE IF n \in server THEN "ambient" ELSE "unset"]
  BY DEF SessionEnv
<1> HIDE DEF env
<1>3. /\ env["id"] = "own" /\ env["parent"] \in {"own", "empty"} /\ env["identity"] = "empty"
      /\ env["color"] \in {"terminal", "unset"}
      /\ env["bot"] = "unset" /\ env["blocked"] = "unset"
  BY <1>1, <1>2 DEF VarNames
<1>4. env \in [VarNames -> Values]
  <2>1. \A n \in VarNames : env[n] \in Values
    BY <1>3 DEF VarNames, Values
  <2> QED BY <1>2, <2>1
<1> QED BY <1>3, <1>4 DEF OwnEnv, env, given

-----------------------------------------------------------------------------
(* A launch has the name from its start until it is judged, unless another *)
(* took it.                                                                *)
Held(a) ==
    \/ stage[a] \in {"dead", "path", "kill"}
    \/ stage[a] \in {"untap", "unset"} /\ outcome[a] = "ok"

Holds(a) ==
    /\ stage[a] \in {"new", "hooks", "start", "dead", "path"} => outcome[a] = "none"
    /\ stage[a] \in {"new", "hooks", "start", "dead", "path"} => checks[a] # 0
    /\ stage[a] = "kill" => outcome[a] \in {"crashed", "wrong cwd"}
    /\ stage[a] = "untap" => outcome[a] # "none"
    /\ stage[a] = "unset" => outcome[a] = "ok"
    /\ Held(a) /\ a \notin touched => tmuxSession.owner = a /\ tmuxSession.remains
    /\ stage[a] \in {"untap", "unset"} /\ outcome[a] = "ok" /\ a \notin touched
       => tmuxSession.cwd = a

(* Before it starts, and once it has failed, it has none.                  *)
Without(a) ==
    \/ stage[a] \in {"new", "hooks", "start"}
    \/ troubles = 0 /\ stage[a] = "failed"
    \/ troubles = 0 /\ stage[a] = "untap" /\ outcome[a] \in {"crashed", "wrong cwd"}

HasNone(a) == Without(a) => tmuxSession.owner # a

LaunchInv ==
    /\ LaunchTypeOK
    /\ \A a \in Namesakes : Holds(a) /\ HasNone(a)
    /\ EnvRight

LEMMA LaunchStarts == LaunchInit => LaunchInv
<1> SUFFICES ASSUME LaunchInit PROVE LaunchInv
  OBVIOUS
<1> USE LaunchAssumption
<1>1. /\ stage \in [Namesakes -> {"row", "new"}]
      /\ trees \subseteq Namesakes
  BY DEF LaunchInit
<1>2. tmuxSession = NoSession /\ NoSession.owner = NoNamesake
  BY DEF LaunchInit, NoSession
<1>3. LaunchTypeOK
  BY <1>1, <1>2 DEF LaunchInit, LaunchTypeOK, NoSession, Stages, Values
<1>4. ASSUME NEW a \in Namesakes PROVE Holds(a) /\ HasNone(a)
  BY <1>1, <1>2 DEF LaunchInit, Holds, HasNone, Held
<1>5. EnvRight
  BY <1>2 DEF EnvRight, Named
<1> QED BY <1>3, <1>4, <1>5 DEF LaunchInv

LEMMA SessionTyped ==
    ASSUME LaunchTypeOK
    PROVE  /\ tmuxSession.owner \in Namesakes \cup {NoNamesake}
           /\ tmuxSession.runs \in BOOLEAN /\ tmuxSession.remains \in BOOLEAN
           /\ tmuxSession.env \in [VarNames -> Values]
BY DEF LaunchTypeOK

(* What ends the session of the name.                                      *)
LEMMA EndsSafely ==
    ASSUME LaunchInv, NEW by \in Namesakes \cup {NoNamesake}, Ends(by)
    PROVE  /\ tmuxSession' = NoSession /\ tmuxSession'.owner = NoNamesake
           /\ touched \subseteq touched' /\ touched' \subseteq Namesakes
           /\ tmuxSession' \in [owner : Namesakes \cup {NoNamesake},
                                cwd : Namesakes \cup {NoNamesake},
                                runs : BOOLEAN, remains : BOOLEAN, env : [VarNames -> Values]]
           /\ EnvRight'
           /\ \A a \in Namesakes : a # by /\ Held(a) => a \in touched'
<1> USE LaunchAssumption
<1>1. tmuxSession' = NoSession /\ tmuxSession'.owner = NoNamesake
  BY DEF Ends, NoSession
<1>2. touched \subseteq touched' /\ touched' \subseteq Namesakes
  BY SessionTyped DEF LaunchInv, LaunchTypeOK, Ends, Named
<1>3. NoSession \in [owner : Namesakes \cup {NoNamesake}, cwd : Namesakes \cup {NoNamesake},
                     runs : BOOLEAN, remains : BOOLEAN, env : [VarNames -> Values]]
  BY DEF NoSession, Values
<1>4. EnvRight'
  BY <1>1 DEF EnvRight, Named
<1>5. ASSUME NEW a \in Namesakes, a # by, Held(a) PROVE a \in touched'
  BY <1>5 DEF LaunchInv, Holds, Ends, Named
<1> QED BY <1>1, <1>2, <1>3, <1>4, <1>5

(* An agent that is not moved keeps what it holds, when the session is     *)
(* kept or another's.                                                      *)
LEMMA OthersKept ==
    ASSUME LaunchInv, NEW b \in Namesakes,
           stage'[b] = stage[b], outcome'[b] = outcome[b], checks'[b] = checks[b],
           touched \subseteq touched',
           troubles' = 0 => troubles = 0,
           Held(b) => b \in touched' \/ UNCHANGED tmuxSession,
           tmuxSession'.owner = b => tmuxSession.owner = b
    PROVE  Holds(b)' /\ HasNone(b)'
BY DEF LaunchInv, Holds, HasNone, Held, Without

LEMMA SameEnv ==
    ASSUME LaunchInv, UNCHANGED tmuxSession,
           \A b \in Namesakes : stage'[b] \in Verifying => stage[b] \in Verifying
    PROVE  EnvRight'
BY SessionTyped DEF LaunchInv, EnvRight, Named

LEMMA CountersGrow ==
    ASSUME LaunchInv
    PROVE  /\ Trouble => troubles' \in 0 .. MaxTroubles /\ troubles' # 0
           /\ NoTrouble => troubles' = troubles
           /\ Again => relaunches' \in 0 .. MaxRelaunches
<1> DEFINE n == MaxTroubles
           m == MaxRelaunches
<1>1. n \in Nat /\ m \in Nat
  BY LaunchAssumption
<1>2. troubles \in 0 .. n /\ relaunches \in 0 .. m
  BY DEF LaunchInv, LaunchTypeOK
<1> HIDE DEF n, m
<1>3. troubles < n /\ troubles' = troubles + 1 => troubles' \in 0 .. n /\ troubles' # 0
  BY <1>1, <1>2
<1>4. relaunches < m /\ relaunches' = relaunches + 1 => relaunches' \in 0 .. m
  BY <1>1, <1>2
<1> QED BY <1>3, <1>4 DEF Trouble, NoTrouble, Again, n, m

-----------------------------------------------------------------------------
LEMMA LaunchKeeps == LaunchInv /\ [LaunchStep]_launchVars => LaunchInv'
<1> SUFFICES ASSUME LaunchInv, [LaunchStep]_launchVars PROVE LaunchInv'
  OBVIOUS
<1> USE LaunchAssumption
<1>0. LaunchTypeOK
  BY DEF LaunchInv
<1>t. /\ tmuxSession.owner \in Namesakes \cup {NoNamesake}
      /\ tmuxSession.runs \in BOOLEAN /\ tmuxSession.remains \in BOOLEAN
      /\ tmuxSession.env \in [VarNames -> Values]
  BY <1>0, SessionTyped
<1>r. /\ Trouble => troubles' \in 0 .. MaxTroubles /\ troubles' # 0
      /\ NoTrouble => troubles' = troubles
      /\ Again => relaunches' \in 0 .. MaxRelaunches
  BY CountersGrow
<1>1. ASSUME NEW a \in Namesakes, AddsWorktree(a) PROVE LaunchInv'
  <2>1. LaunchTypeOK'
    BY <1>0, <1>1, <1>r DEF LaunchTypeOK, AddsWorktree, Enters, Stages, NoTrouble
  <2>2. Holds(a)' /\ HasNone(a)'
    BY <1>0, <1>1, <1>r DEF LaunchInv, LaunchTypeOK, AddsWorktree, Enters, Holds, HasNone, Held, Without
  <2>3. ASSUME NEW b \in Namesakes \ {a} PROVE Holds(b)' /\ HasNone(b)'
    BY <1>0, <1>1, <1>r, OthersKept DEF LaunchTypeOK, AddsWorktree, Enters
  <2>4. EnvRight'
    BY <1>0, <1>1, SameEnv DEF LaunchTypeOK, AddsWorktree, Enters, Verifying
  <2> QED BY <2>1, <2>2, <2>3, <2>4 DEF LaunchInv
<1>2. ASSUME NEW a \in Namesakes, WritesHooks(a) PROVE LaunchInv'
  <2>1. LaunchTypeOK'
    BY <1>0, <1>2, <1>r DEF LaunchTypeOK, WritesHooks, Enters, Stages, NoTrouble
  <2>2. Holds(a)' /\ HasNone(a)'
    BY <1>0, <1>2, <1>r DEF LaunchInv, LaunchTypeOK, WritesHooks, Enters, Holds, HasNone, Held, Without
  <2>3. ASSUME NEW b \in Namesakes \ {a} PROVE Holds(b)' /\ HasNone(b)'
    BY <1>0, <1>2, <1>r, OthersKept DEF LaunchTypeOK, WritesHooks, Enters
  <2>4. EnvRight'
    BY <1>0, <1>2, SameEnv DEF LaunchTypeOK, WritesHooks, Enters, Verifying
  <2> QED BY <2>1, <2>2, <2>3, <2>4 DEF LaunchInv
<1>3. ASSUME NEW a \in Namesakes, StartsSession(a) PROVE LaunchInv'
  <2>1. CASE UNCHANGED tmuxSession /\ Enters(a, "failed")
    <3>1. LaunchTypeOK'
      BY <1>0, <1>3, <1>r, <2>1 DEF LaunchTypeOK, StartsSession, Enters, Stages, NoTrouble
    <3>2. Holds(a)' /\ HasNone(a)'
      BY <1>0, <1>3, <1>r, <2>1 DEF LaunchInv, LaunchTypeOK, StartsSession, Enters, Holds, HasNone, Held, Without
    <3>3. ASSUME NEW b \in Namesakes \ {a} PROVE Holds(b)' /\ HasNone(b)'
      BY <1>0, <1>3, <1>r, <2>1, OthersKept DEF LaunchTypeOK, StartsSession, Enters
    <3>4. EnvRight'
      BY <1>0, <2>1, SameEnv DEF LaunchTypeOK, Enters, Verifying
    <3> QED BY <3>1, <3>2, <3>3, <3>4 DEF LaunchInv
  <2>2. ASSUME NEW cwd \in {a, NoNamesake}, ~Named, Enters(a, "dead"),
               Begins(a, cwd, Remains, LaunchEnvs), NoTrouble \/ Trouble
        PROVE  LaunchInv'
    <3>1. PICK env \in LaunchEnvs :
            tmuxSession' = [owner |-> a, cwd |-> cwd, runs |-> TRUE, remains |-> Remains, env |-> env]
      BY <2>2, Zenon DEF Begins
    <3>2. WorkerOwnEnv(env)
      BY LaunchedEnv
    <3>3. LaunchTypeOK'
      BY <1>0, <1>3, <1>r, <2>2, <3>1, <3>2
         DEF LaunchTypeOK, StartsSession, Enters, Stages, NoTrouble, WorkerOwnEnv, OwnEnv, Remains, Verifying
    <3>4. Holds(a)' /\ HasNone(a)'
      BY <1>0, <1>3, <2>2, <3>1
         DEF LaunchInv, LaunchTypeOK, StartsSession, Enters, Holds, HasNone, Held, Without, Remains
    <3>5. ASSUME NEW b \in Namesakes \ {a} PROVE Holds(b)' /\ HasNone(b)'
      <4>1. Held(b) => b \in touched
        BY <2>2 DEF LaunchInv, Holds, Named
      <4>2. tmuxSession'.owner = a
        BY <3>1
      <4> QED BY <1>0, <1>3, <1>r, <2>2, <4>1, <4>2, OthersKept DEF LaunchTypeOK, StartsSession, Enters
    <3>6. EnvRight'
      BY <3>1, <3>2 DEF EnvRight, WorkerOwnEnv, OwnEnv
    <3> QED BY <3>3, <3>4, <3>5, <3>6 DEF LaunchInv
  <2> QED BY <1>3, <2>1, <2>2 DEF StartsSession
<1>4. ASSUME NEW a \in Namesakes, AsksDead(a) PROVE LaunchInv'
  <2>1. LaunchTypeOK'
    BY <1>0, <1>4, <1>r DEF LaunchTypeOK, AsksDead, Enters, Finds, Stages, Verifying, NoTrouble, DeathNext
  <2>0. /\ stage[a] = "dead" /\ outcome[a] = "none" /\ checks[a] # 0
        /\ UNCHANGED <<tmuxSession, touched, checks>>
        /\ a \notin touched => tmuxSession.owner = a /\ tmuxSession.remains
    BY <1>4 DEF AsksDead, LaunchInv, Holds, Held
  <2>2. Holds(a)' /\ HasNone(a)'
    <3>1. CASE /\ stage'[a] = "untap" /\ outcome'[a] = "crashed"
               /\ ~Named \/ troubles' # 0
      <4>1. ~Named => tmuxSession.owner # a
        BY DEF Named
      <4> QED BY <2>0, <3>1, <4>1 DEF Holds, HasNone, Held, Without
    <3>2. CASE stage'[a] = "kill" /\ outcome'[a] = "crashed"
      BY <2>0, <3>2 DEF Holds, HasNone, Held, Without
    <3>3. CASE stage'[a] = "path" /\ outcome'[a] = "none"
      BY <2>0, <3>3 DEF Holds, HasNone, Held, Without
    <3>4. \/ ~Named /\ Enters(a, "untap") /\ Finds(a, "crashed")
          \/ Enters(a, "untap") /\ Finds(a, "crashed") /\ Trouble
          \/ Enters(a, "kill") /\ Finds(a, "crashed")
          \/ Enters(a, "path") /\ UNCHANGED outcome
      BY <1>4 DEF AsksDead, DeathNext
    <3>5. ASSUME NEW s, Enters(a, s) PROVE stage'[a] = s
      BY <1>0, <3>5 DEF LaunchTypeOK, Enters
    <3>6. ASSUME NEW o, Finds(a, o) PROVE outcome'[a] = o
      BY <1>0, <3>6 DEF LaunchTypeOK, Finds
    <3>7. \/ stage'[a] = "untap" /\ outcome'[a] = "crashed" /\ (~Named \/ troubles' # 0)
          \/ stage'[a] = "kill" /\ outcome'[a] = "crashed"
          \/ stage'[a] = "path" /\ outcome'[a] = "none"
      BY <1>r, <2>0, <3>4, <3>5, <3>6
    <3> QED BY <3>1, <3>2, <3>3, <3>7
  <2>3. ASSUME NEW b \in Namesakes \ {a} PROVE Holds(b)' /\ HasNone(b)'
    BY <1>0, <1>4, <1>r, OthersKept DEF LaunchTypeOK, AsksDead, Enters, Finds
  <2>4. EnvRight'
    BY <1>0, <1>4, SameEnv DEF LaunchTypeOK, AsksDead, Enters, Verifying
  <2> QED BY <2>1, <2>2, <2>3, <2>4 DEF LaunchInv
<1>5. ASSUME NEW a \in Namesakes, AsksPath(a) PROVE LaunchInv'
  <2>0. /\ stage[a] = "path" /\ outcome[a] = "none" /\ checks[a] # 0
        /\ UNCHANGED <<oneRepo, trees, tmuxSession, touched, relaunches>>
        /\ a \notin touched => tmuxSession.owner = a /\ tmuxSession.remains
    BY <1>5 DEF AsksPath, LaunchInv, Holds, Held
  <2>k. \/ Enters(a, "kill") /\ Finds(a, "crashed") /\ UNCHANGED checks
        \/ Enters(a, "kill") /\ Finds(a, "wrong cwd") /\ UNCHANGED checks
        \/ /\ Enters(a, "dead") /\ UNCHANGED outcome
           /\ checks[a] > 1 /\ checks' = [checks EXCEPT ![a] = @ - 1]
        \/ Enters(a, "untap") /\ Finds(a, "ok") /\ ~Misplaced(a)
    BY <1>5 DEF AsksPath
  <2>c. checks' \in [Namesakes -> 0 .. Attempts] /\ troubles' \in 0 .. MaxTroubles
    <3>1. CASE UNCHANGED checks /\ (UNCHANGED troubles \/ Trouble)
      BY <1>0, <1>r, <3>1 DEF LaunchTypeOK
    <3>2. CASE checks' = [checks EXCEPT ![a] = @ - 1] /\ NoTrouble
      <4> DEFINE n == Attempts
      <4>1. n \in Nat /\ checks \in [Namesakes -> 0 .. n]
        BY <1>0 DEF LaunchTypeOK
      <4> HIDE DEF n
      <4>2. checks[a] - 1 \in 0 .. n
        BY <2>0, <4>1
      <4>3. checks' \in [Namesakes -> 0 .. n]
        BY <3>2, <4>1, <4>2
      <4> QED BY <1>0, <1>r, <3>2, <4>3 DEF LaunchTypeOK, n
    <3> QED BY <1>5, <3>1, <3>2 DEF AsksPath
  <2>1. LaunchTypeOK'
    <3>1. stage' \in [Namesakes -> Stages]
      BY <1>0, <2>k DEF LaunchTypeOK, Enters, Stages, Verifying
    <3>2. outcome' \in [Namesakes -> {"none", "ok", "crashed", "wrong cwd"}]
      BY <1>0, <2>k DEF LaunchTypeOK, Finds
    <3> QED BY <1>0, <2>0, <2>c, <3>1, <3>2 DEF LaunchTypeOK
  <2>2. Holds(a)' /\ HasNone(a)'
    <3>1. \/ stage'[a] = "kill" /\ outcome'[a] \in {"crashed", "wrong cwd"}
          \/ stage'[a] = "dead" /\ outcome'[a] = "none" /\ checks'[a] # 0
          \/ stage'[a] = "untap" /\ outcome'[a] = "ok" /\ tmuxSession.cwd = a
      <4>1. ASSUME checks[a] > 1, checks' = [checks EXCEPT ![a] = @ - 1] PROVE checks'[a] # 0
        <5> DEFINE n == Attempts
        <5>1. n \in Nat /\ checks \in [Namesakes -> 0 .. n]
          BY <1>0 DEF LaunchTypeOK
        <5> HIDE DEF n
        <5>2. checks'[a] = checks[a] - 1 /\ checks[a] \in Nat
          BY <4>1, <5>1
        <5> QED BY <4>1, <5>2
      <4>2. ASSUME NEW s, Enters(a, s) PROVE stage'[a] = s
        BY <1>0, <4>2 DEF LaunchTypeOK, Enters
      <4>3. ASSUME NEW o, Finds(a, o) PROVE outcome'[a] = o
        BY <1>0, <4>3 DEF LaunchTypeOK, Finds
      <4> QED BY <2>0, <2>k, <4>1, <4>2, <4>3 DEF Misplaced
    <3> QED BY <2>0, <3>1 DEF Holds, HasNone, Held, Without
  <2>3. ASSUME NEW b \in Namesakes \ {a} PROVE Holds(b)' /\ HasNone(b)'
    BY <1>0, <1>5, <1>r, OthersKept DEF LaunchTypeOK, AsksPath, Enters, Finds
  <2>4. EnvRight'
    BY <1>0, <1>5, SameEnv DEF LaunchTypeOK, AsksPath, Enters, Verifying
  <2> QED BY <2>1, <2>2, <2>3, <2>4 DEF LaunchInv
<1>6. ASSUME NEW a \in Namesakes, KillsBroken(a) PROVE LaunchInv'
  <2>1. CASE UNCHANGED <<tmuxSession, touched>> /\ Trouble
    <3>1. LaunchTypeOK'
      BY <1>0, <1>6, <1>r, <2>1 DEF LaunchTypeOK, KillsBroken, Enters, Stages, Verifying
    <3>2. Holds(a)' /\ HasNone(a)'
      BY <1>0, <1>6, <1>r, <2>1 DEF LaunchInv, LaunchTypeOK, KillsBroken, Enters, Holds, HasNone, Held, Without
    <3>3. ASSUME NEW b \in Namesakes \ {a} PROVE Holds(b)' /\ HasNone(b)'
      BY <1>0, <1>6, <1>r, <2>1, OthersKept DEF LaunchTypeOK, KillsBroken, Enters
    <3>4. EnvRight'
      BY <1>0, <1>6, <2>1, SameEnv DEF LaunchTypeOK, KillsBroken, Enters, Verifying
    <3> QED BY <3>1, <3>2, <3>3, <3>4 DEF LaunchInv
  <2>2. CASE Ends(a) /\ NoTrouble
    <3>0. /\ tmuxSession'.owner = NoNamesake
          /\ touched \subseteq touched' /\ touched' \subseteq Namesakes
          /\ tmuxSession' \in [owner : Namesakes \cup {NoNamesake},
                               cwd : Namesakes \cup {NoNamesake},
                               runs : BOOLEAN, remains : BOOLEAN, env : [VarNames -> Values]]
          /\ EnvRight'
          /\ \A b \in Namesakes : b # a /\ Held(b) => b \in touched'
      BY <2>2, EndsSafely
    <3>1. LaunchTypeOK'
      BY <1>0, <1>6, <1>r, <2>2, <3>0 DEF LaunchTypeOK, KillsBroken, Enters, Stages, Verifying
    <3>2. Holds(a)' /\ HasNone(a)'
      BY <1>0, <1>6, <3>0 DEF LaunchInv, LaunchTypeOK, KillsBroken, Enters, Holds, HasNone, Held, Without
    <3>3. ASSUME NEW b \in Namesakes \ {a} PROVE Holds(b)' /\ HasNone(b)'
      BY <1>0, <1>6, <1>r, <2>2, <3>0, OthersKept DEF LaunchTypeOK, KillsBroken, Enters
    <3> QED BY <3>0, <3>1, <3>2, <3>3 DEF LaunchInv
  <2> QED BY <1>6, <2>1, <2>2 DEF KillsBroken
<1>7. ASSUME NEW a \in Namesakes, StopsTap(a) PROVE LaunchInv'
  <2>1. LaunchTypeOK'
    BY <1>0, <1>7 DEF LaunchTypeOK, StopsTap, Enters, Stages, Verifying
  <2>2. Holds(a)' /\ HasNone(a)'
    BY <1>0, <1>7 DEF LaunchInv, LaunchTypeOK, StopsTap, Enters, Holds, HasNone, Held, Without
  <2>3. ASSUME NEW b \in Namesakes \ {a} PROVE Holds(b)' /\ HasNone(b)'
    BY <1>0, <1>7, OthersKept DEF LaunchTypeOK, StopsTap, Enters
  <2>4. EnvRight'
    BY <1>0, <1>7, SameEnv DEF LaunchTypeOK, StopsTap, Enters, Verifying
  <2> QED BY <2>1, <2>2, <2>3, <2>4 DEF LaunchInv
<1>8. ASSUME NEW a \in Namesakes, UnsetsRemain(a) PROVE LaunchInv'
  <2>1. CASE UNCHANGED <<tmuxSession, touched>> /\ Trouble
    <3>1. LaunchTypeOK'
      BY <1>0, <1>8, <1>r, <2>1 DEF LaunchTypeOK, UnsetsRemain, Enters, Stages
    <3>2. Holds(a)' /\ HasNone(a)'
      BY <1>0, <1>8, <1>r, <2>1 DEF LaunchInv, LaunchTypeOK, UnsetsRemain, Enters, Holds, HasNone, Held, Without
    <3>3. ASSUME NEW b \in Namesakes \ {a} PROVE Holds(b)' /\ HasNone(b)'
      BY <1>0, <1>8, <1>r, <2>1, OthersKept DEF LaunchTypeOK, UnsetsRemain, Enters
    <3>4. EnvRight'
      BY <1>0, <1>8, <2>1, SameEnv DEF LaunchTypeOK, UnsetsRemain, Enters, Verifying
    <3> QED BY <3>1, <3>2, <3>3, <3>4 DEF LaunchInv
  <2>2. CASE /\ tmuxSession' = [tmuxSession EXCEPT !.remains = FALSE]
             /\ touched' = IF Named /\ tmuxSession.owner # a THEN touched \cup {tmuxSession.owner}
                           ELSE touched
             /\ NoTrouble
    <3>0. /\ tmuxSession'.owner = tmuxSession.owner /\ tmuxSession'.env = tmuxSession.env
          /\ touched \subseteq touched' /\ touched' \subseteq Namesakes
          /\ tmuxSession' \in [owner : Namesakes \cup {NoNamesake},
                               cwd : Namesakes \cup {NoNamesake},
                               runs : BOOLEAN, remains : BOOLEAN, env : [VarNames -> Values]]
          /\ \A b \in Namesakes : b # a /\ Held(b) => b \in touched'
      <4>1. /\ tmuxSession'.owner = tmuxSession.owner /\ tmuxSession'.env = tmuxSession.env
            /\ tmuxSession' \in [owner : Namesakes \cup {NoNamesake},
                                 cwd : Namesakes \cup {NoNamesake},
                                 runs : BOOLEAN, remains : BOOLEAN, env : [VarNames -> Values]]
        BY <1>0, <2>2 DEF LaunchTypeOK
      <4>2. touched \subseteq touched' /\ touched' \subseteq Namesakes
        BY <1>0, <1>t, <2>2 DEF LaunchTypeOK, Named
      <4>3. ASSUME NEW b \in Namesakes, b # a, Held(b) PROVE b \in touched'
        BY <2>2, <4>3 DEF LaunchInv, Holds, Named
      <4> QED BY <4>1, <4>2, <4>3
    <3>1. LaunchTypeOK'
      BY <1>0, <1>8, <1>r, <2>2, <3>0 DEF LaunchTypeOK, UnsetsRemain, Enters, Stages
    <3>2. Holds(a)' /\ HasNone(a)'
      BY <1>0, <1>8, <3>0 DEF LaunchInv, LaunchTypeOK, UnsetsRemain, Enters, Holds, HasNone, Held, Without
    <3>3. ASSUME NEW b \in Namesakes \ {a} PROVE Holds(b)' /\ HasNone(b)'
      BY <1>0, <1>8, <1>r, <2>2, <3>0, OthersKept DEF LaunchTypeOK, UnsetsRemain, Enters
    <3>4. EnvRight'
      BY <1>0, <1>t, <1>8, <3>0 DEF LaunchInv, EnvRight, LaunchTypeOK, Named, UnsetsRemain, Enters, Verifying
    <3> QED BY <3>1, <3>2, <3>3, <3>4 DEF LaunchInv
  <2> QED BY <1>8, <2>1, <2>2 DEF UnsetsRemain
<1>9. ASSUME NEW a \in Namesakes, PersistsRow(a) PROVE LaunchInv'
  <2>1. LaunchTypeOK'
    BY <1>0, <1>9, <1>r DEF LaunchTypeOK, PersistsRow, Enters, Stages, NoTrouble
  <2>2. Holds(a)' /\ HasNone(a)'
    BY <1>0, <1>9 DEF LaunchInv, LaunchTypeOK, PersistsRow, Enters, Holds, HasNone, Held, Without
  <2>3. ASSUME NEW b \in Namesakes \ {a} PROVE Holds(b)' /\ HasNone(b)'
    BY <1>0, <1>9, <1>r, OthersKept DEF LaunchTypeOK, PersistsRow, Enters
  <2>4. EnvRight'
    BY <1>0, <1>9, SameEnv DEF LaunchTypeOK, PersistsRow, Enters, Verifying
  <2> QED BY <2>1, <2>2, <2>3, <2>4 DEF LaunchInv
<1>10. ASSUME NEW a \in Namesakes, Restarts(a) PROVE LaunchInv'
  <2>0. /\ tmuxSession'.owner = NoNamesake
        /\ touched \subseteq touched' /\ touched' \subseteq Namesakes
        /\ tmuxSession' \in [owner : Namesakes \cup {NoNamesake}, cwd : Namesakes \cup {NoNamesake},
                             runs : BOOLEAN, remains : BOOLEAN, env : [VarNames -> Values]]
        /\ EnvRight'
        /\ \A b \in Namesakes : b # a /\ Held(b) => b \in touched'
    BY <1>10, EndsSafely DEF Restarts
  <2>1. LaunchTypeOK'
    BY <1>0, <1>10, <1>r, <2>0 DEF LaunchTypeOK, Restarts, Enters, Stages
  <2>2. Holds(a)' /\ HasNone(a)'
    BY <1>0, <1>10, <2>0 DEF LaunchInv, LaunchTypeOK, Restarts, Enters, Holds, HasNone, Held, Without
  <2>3. ASSUME NEW b \in Namesakes \ {a} PROVE Holds(b)' /\ HasNone(b)'
    BY <1>0, <1>10, <2>0, OthersKept DEF LaunchTypeOK, Restarts, Enters
  <2> QED BY <2>0, <2>1, <2>2, <2>3 DEF LaunchInv
<1>11. ASSUME NEW a \in Namesakes, Ensures(a) PROVE LaunchInv'
  <2>1. LaunchTypeOK'
    BY <1>0, <1>11, <1>r DEF LaunchTypeOK, Ensures, Enters, Stages
  <2>2. Holds(a)' /\ HasNone(a)'
    BY <1>0, <1>11 DEF LaunchInv, LaunchTypeOK, Ensures, Enters, Holds, HasNone, Held, Without
  <2>3. ASSUME NEW b \in Namesakes \ {a} PROVE Holds(b)' /\ HasNone(b)'
    BY <1>0, <1>11, OthersKept DEF LaunchTypeOK, Ensures, Enters
  <2>4. EnvRight'
    BY <1>0, <1>11, SameEnv DEF LaunchTypeOK, Ensures, Enters, Verifying
  <2> QED BY <2>1, <2>2, <2>3, <2>4 DEF LaunchInv
<1>12. ASSUME NEW a \in Namesakes, Relaunches(a) PROVE LaunchInv'
  <2>1. CASE UNCHANGED tmuxSession
    <3>1. LaunchTypeOK'
      BY <1>0, <1>12, <2>1 DEF LaunchTypeOK, Relaunches, Enters, Stages
    <3>2. Holds(a)' /\ HasNone(a)'
      BY <1>0, <1>12 DEF LaunchInv, LaunchTypeOK, Relaunches, Enters, Holds, HasNone, Held, Without
    <3>3. ASSUME NEW b \in Namesakes \ {a} PROVE Holds(b)' /\ HasNone(b)'
      BY <1>0, <1>12, <2>1, OthersKept DEF LaunchTypeOK, Relaunches, Enters
    <3>4. EnvRight'
      BY <1>0, <1>12, <2>1, SameEnv DEF LaunchTypeOK, Relaunches, Enters, Verifying
    <3> QED BY <3>1, <3>2, <3>3, <3>4 DEF LaunchInv
  <2>2. ASSUME NEW cwd \in Namesakes \cup {NoNamesake}, ~Named, Begins(a, cwd, FALSE, RelaunchEnvs)
        PROVE  LaunchInv'
    <3>1. PICK env \in RelaunchEnvs :
            tmuxSession' = [owner |-> a, cwd |-> cwd, runs |-> TRUE, remains |-> FALSE, env |-> env]
      BY <2>2, Zenon DEF Begins
    <3>2. OwnEnv(env)
      BY RelaunchedEnv
    <3>3. LaunchTypeOK'
      BY <1>0, <1>12, <2>2, <3>1, <3>2 DEF LaunchTypeOK, Relaunches, Enters, Stages, OwnEnv
    <3>4. Holds(a)' /\ HasNone(a)'
      BY <1>0, <1>12 DEF LaunchInv, LaunchTypeOK, Relaunches, Enters, Holds, HasNone, Held, Without
    <3>5. ASSUME NEW b \in Namesakes \ {a} PROVE Holds(b)' /\ HasNone(b)'
      <4>1. Held(b) => b \in touched
        BY <2>2 DEF LaunchInv, Holds, Named
      <4>2. tmuxSession'.owner = a
        BY <3>1
      <4> QED BY <1>0, <1>12, <2>2, <4>1, <4>2, OthersKept DEF LaunchTypeOK, Relaunches, Enters
    <3>6. EnvRight'
      BY <1>0, <1>12, <3>1, <3>2 DEF EnvRight, OwnEnv, LaunchTypeOK, Relaunches, Enters, Verifying
    <3> QED BY <3>3, <3>4, <3>5, <3>6 DEF LaunchInv
  <2> QED BY <1>12, <2>1, <2>2 DEF Relaunches
<1>13. CASE ProgramExits
  <2>1. CASE tmuxSession.remains
    <3>0. /\ tmuxSession' = [tmuxSession EXCEPT !.runs = FALSE]
          /\ UNCHANGED <<oneRepo, stage, checks, outcome, trees, touched, relaunches, troubles>>
      BY <1>13, <2>1 DEF ProgramExits
    <3>1. LaunchTypeOK'
      BY <1>0, <3>0 DEF LaunchTypeOK
    <3>2. ASSUME NEW b \in Namesakes PROVE Holds(b)' /\ HasNone(b)'
      BY <1>0, <3>0 DEF LaunchInv, LaunchTypeOK, Holds, HasNone, Held, Without
    <3>3. EnvRight'
      BY <1>0, <3>0 DEF LaunchInv, EnvRight, LaunchTypeOK, Named
    <3> QED BY <3>1, <3>2, <3>3 DEF LaunchInv
  <2>2. CASE ~tmuxSession.remains
    <3>0. /\ tmuxSession' = NoSession /\ tmuxSession'.owner = NoNamesake
          /\ UNCHANGED <<oneRepo, stage, checks, outcome, trees, touched, relaunches, troubles>>
      BY <1>13, <2>2 DEF ProgramExits, NoSession
    <3>1. LaunchTypeOK'
      BY <1>0, <3>0 DEF LaunchTypeOK, NoSession, Values
    <3>2. ASSUME NEW b \in Namesakes PROVE Holds(b)' /\ HasNone(b)'
      BY <1>0, <2>2, <3>0 DEF LaunchInv, LaunchTypeOK, Holds, HasNone, Held, Without
    <3>3. EnvRight'
      BY <3>0 DEF EnvRight, Named
    <3> QED BY <3>1, <3>2, <3>3 DEF LaunchInv
  <2> QED BY <2>1, <2>2
<1>14. CASE EndedByName
  <2>0. /\ tmuxSession'.owner = NoNamesake
        /\ touched \subseteq touched' /\ touched' \subseteq Namesakes
        /\ tmuxSession' \in [owner : Namesakes \cup {NoNamesake}, cwd : Namesakes \cup {NoNamesake},
                             runs : BOOLEAN, remains : BOOLEAN, env : [VarNames -> Values]]
        /\ EnvRight'
        /\ \A b \in Namesakes : b # NoNamesake /\ Held(b) => b \in touched'
    BY <1>14, EndsSafely DEF EndedByName
  <2>1. LaunchTypeOK'
    BY <1>0, <1>14, <1>r, <2>0 DEF LaunchTypeOK, EndedByName
  <2>2. ASSUME NEW b \in Namesakes PROVE Holds(b)' /\ HasNone(b)'
    BY <1>0, <1>14, <2>0, OthersKept DEF LaunchTypeOK, EndedByName
  <2> QED BY <2>0, <2>1, <2>2 DEF LaunchInv
<1>15. CASE UNCHANGED launchVars
  <2> USE <1>15 DEF launchVars
  <2>1. LaunchTypeOK'
    BY <1>0 DEF LaunchTypeOK
  <2>2. ASSUME NEW b \in Namesakes PROVE Holds(b)' /\ HasNone(b)'
    BY DEF LaunchInv, Holds, HasNone, Held, Without
  <2>3. EnvRight'
    BY SameEnv
  <2> QED BY <2>1, <2>2, <2>3 DEF LaunchInv
<1> QED
  BY <1>1, <1>2, <1>3, <1>4, <1>5, <1>6, <1>7, <1>8, <1>9, <1>10, <1>11, <1>12, <1>13, <1>14, <1>15
     DEF LaunchStep, Launches

(* Launch.LaunchSafe: see there.  agent/creation.rs, tmux/launch.rs,       *)
(* session/env.rs.                                                         *)
THEOREM LaunchIsSafe == LaunchSpec => LaunchSafe
<1>1. LaunchSpec => []LaunchInv
  BY LaunchStarts, LaunchKeeps, PTL DEF LaunchSpec
<1>2. LaunchInv' => [GoodIsOwn' /\ NoStray' /\ EnvRight']_launchVars
  BY DEF LaunchInv, GoodIsOwn, NoStray, Holds, Held, HasNone, Without
<1>3. LaunchInv => [\A a \in Namesakes :
          stage[a] = "kill" /\ stage'[a] # "kill" /\ tmuxSession' # tmuxSession
            => tmuxSession.owner = a \/ a \in touched]_launchVars
  BY DEF LaunchInv, Holds, Held
<1> QED BY <1>1, <1>2, <1>3, PTL DEF LaunchSafe, SparesOthers

-----------------------------------------------------------------------------
(***************************************************************************)
(* The status the UI shows                                                 *)
(***************************************************************************)

(* No row knows of an answer later than the last one, and the copy a       *)
(* capture works on of none later than the row.                            *)
SentFits ==
    /\ which # "worker" => past.typed = CooldownSecs
    /\ capture.at = "idle" => shown.sent <= past.typed
    /\ capture.at # "idle" => capture.row.sent <= past.typed /\ capture.row.sent <= shown.sent
    /\ capture.at = "type" => which = "worker" /\ capture.row.sent = CooldownSecs
    /\ capture.stale => which = "control"

(* A row turns dead in a capture only while the session was seen gone.     *)
GoneFits ==
    /\ capture.at # "idle" /\ (~pane.alive \/ capture.saw = "gone") => past.gone
    /\ capture.at # "idle" /\ capture.row.status \in {"dead", "branch"}
         => capture.row.status = shown.status \/ past.gone
    /\ which = "control" => shown.status \notin {"dead", "branch"}
    /\ which = "control" /\ capture.at # "idle" => capture.row.status \notin {"dead", "branch"}

(* While the screen changed lately a row knows of it, or of a text that is *)
(* gone.                                                                   *)
Fresh(r) ==
    past.age < SettleSecs => r.text # Unseen /\ (r.text # pane.text \/ r.changed <= past.age)

RestFits ==
    /\ shown.text <= pane.text /\ capture.row.text <= pane.text
    /\ past.met = (shown.text # Unseen)
    /\ ~past.met => past.age = SettleSecs
    /\ Fresh(shown)
    /\ capture.at # "idle" /\ ~capture.stale
         => (capture.saw = "gone" /\ capture.row.text = Unseen) \/ Fresh(capture.row)
    /\ capture.at # "idle" /\ ~capture.stale /\ ~capture.read /\ capture.saw # "gone"
         => capture.row.text = shown.text
    /\ capture.at = "panes" => capture.saw = "unknown"
    /\ capture.read => /\ capture.row.text # Unseen /\ capture.saw = "alive"
                       /\ capture.at \in {"type", "result"}
    /\ capture.at # "idle" /\ ~capture.stale /\ capture.read /\ ~capture.shell /\ capture.moving
         => capture.row.status \notin {"done", "idle"}

StatusInv == StatusTypeOK /\ SentFits /\ GoneFits /\ RestFits

-----------------------------------------------------------------------------
(* What the operators of Status make of a row                              *)

Ages == {"none", "up", "down"}
Found == {"waiting", "running", "done", "idle"}

LEMMA OlderFits ==
    ASSUME NEW m \in Nat, NEW a \in 0 .. m, NEW b \in 0 .. m
    PROVE  /\ Older(a, m) \in 0 .. m
           /\ a <= b => Older(a, m) <= Older(b, m)
           /\ Older(a, m) < m => a < m
           /\ a = m => Older(a, m) = m
           /\ m # 0 => Older(a, m) # 0
BY DEF Older

LEMMA AgedFits ==
    ASSUME NEW r \in Rows
    PROVE  /\ Aged(r) \in Rows
           /\ Aged(r).status = r.status /\ Aged(r).text = r.text /\ Aged(r).spin = r.spin
           /\ Aged(r).changed = Older(r.changed, SettleSecs)
           /\ Aged(r).sent = Older(r.sent, CooldownSecs)
<1>1. r.changed \in 0 .. SettleSecs /\ r.sent \in 0 .. CooldownSecs
  BY DEF Rows
<1>2. /\ Older(r.changed, SettleSecs) \in 0 .. SettleSecs
      /\ Older(r.sent, CooldownSecs) \in 0 .. CooldownSecs
  BY <1>1, OlderFits, StatusAssumption
<1> QED BY <1>2 DEF Aged, Rows

LEMMA NewRowFits ==
    NewRow \in Rows /\ NewRow.text = Unseen /\ NewRow.sent = CooldownSecs /\ NewRow.status = "none"
BY StatusAssumption DEF NewRow, Rows, Unseen

LEMMA FramesFit == ASSUME NEW frame \in Frames(pane.marks) PROVE frame \in Ages
BY DEF Frames, Ages

LEMMA ClassifiedFits ==
    ASSUME StatusTypeOK, NEW r \in Rows, NEW frame \in Ages
    PROVE  LET c == Classified(r, frame) IN
           /\ c \in Rows /\ c.text = pane.text /\ c.text # Unseen /\ c.sent = r.sent
           /\ c.status \in Found
           /\ Fresh(r) /\ past.age < SettleSecs
                => c.changed <= past.age /\ c.status \in {"waiting", "running"}
<1> DEFINE c == Classified(r, frame)
           l == LastChange(r)
<1>1. /\ l \in 0 .. SettleSecs
      /\ Fresh(r) /\ past.age < SettleSecs => l <= past.age /\ l < SettleSecs
  <2>1. /\ r.changed \in 0 .. SettleSecs /\ past.age \in 0 .. SettleSecs
        /\ SettleSecs \in Nat
    BY StatusAssumption DEF Rows, StatusTypeOK
  <2>2. l = 0 \/ l = r.changed
    BY DEF LastChange
  <2>3. Fresh(r) /\ past.age < SettleSecs => l = 0 \/ l <= past.age
    BY DEF LastChange, Fresh
  <2> QED BY <2>1, <2>2, <2>3
<1> HIDE DEF l
<1>2. pane.text \in 0 .. MaxScreens /\ pane.text # Unseen
  BY StatusAssumption DEF StatusTypeOK, Unseen
<1>3. PICK st \in Found :
        /\ c = [r EXCEPT !.text = pane.text, !.spin = frame, !.changed = l, !.status = st]
        /\ l < SettleSecs => st \in {"waiting", "running"}
  BY DEF Classified, Found, l
<1> HIDE DEF c
<1>4. c \in Rows /\ c.text = pane.text /\ c.sent = r.sent /\ c.status = st /\ c.changed = l
  BY <1>1, <1>2, <1>3 DEF Rows, Ages, Found
<1> QED BY <1>1, <1>2, <1>3, <1>4 DEF c

LEMMA DowngradedFits ==
    ASSUME NEW r \in Rows, r.status \in Found, NEW shell \in BOOLEAN
    PROVE  LET d == Downgraded(r, shell) IN
           /\ d \in Rows /\ d.text = r.text /\ d.sent = r.sent /\ d.changed = r.changed
           /\ d.status \in Found
           /\ ~shell => d.status = r.status
BY DEF Downgraded, Rows, Found

LEMMA AbsentFits ==
    ASSUME StatusTypeOK, NEW r \in Rows, NEW left
    PROVE  LET d == Absent(r, left) IN
           /\ d \in Rows /\ d.sent = r.sent
           /\ d.text # Unseen => d.text = r.text /\ d.changed = r.changed
           /\ which # "worker" => d.status \notin {"dead", "branch"}
           /\ d.text \in {Unseen, r.text}
<1>1. CASE which = "worker"
  BY <1>1 DEF Absent, Rows
<1>2. CASE which = "main"
  BY <1>2, NewRowFits DEF Absent, Rows
<1>3. CASE which = "control"
  BY <1>3 DEF Absent, Rows
<1> QED BY <1>1, <1>2, <1>3 DEF StatusTypeOK

LEMMA CopiedFits ==
    ASSUME NEW t \in Rows, NEW r \in Rows
    PROVE  LET d == Copied(t, r) IN
           /\ d \in Rows /\ d.sent = r.sent /\ d.text = r.text /\ d.changed = r.changed
           /\ d.status = r.status
BY DEF Copied, Rows

Pasts == [age : 0 .. SettleSecs, typed : 0 .. CooldownSecs, gone : BOOLEAN,
          met : BOOLEAN, spin : {"none", "up", "down"}]
Panes == [alive : BOOLEAN, shell : BOOLEAN, marks : Screens, text : 1 .. MaxScreens,
          left : {"worktree", "branch", "nothing"}]
Flights == [at : {"idle", "panes", "screen", "type", "result"}, row : Rows,
            saw : {"alive", "gone", "unknown"}, shell : BOOLEAN,
            read : BOOLEAN, moving : BOOLEAN, stale : BOOLEAN]

LEMMA KnowsFits ==
    ASSUME StatusTypeOK, NEW r \in Rows
    PROVE  LET k == Knows(r) IN
           /\ k \in Pasts /\ k.typed = past.typed /\ k.gone = past.gone
           /\ k.met = (r.text # Unseen)
           /\ k.age = IF r.text = Unseen THEN SettleSecs ELSE past.age
<1> DEFINE m == r.text # Unseen
           a == IF r.text = Unseen THEN SettleSecs ELSE past.age
<1>1. past \in Pasts /\ r.spin \in {"none", "up", "down"} /\ m \in BOOLEAN
  BY DEF StatusTypeOK, Pasts, Rows
<1>2. a \in 0 .. SettleSecs
  BY StatusAssumption DEF StatusTypeOK
<1>3. Knows(r) = [past EXCEPT !.met = m, !.spin = r.spin, !.age = a]
  BY DEF Knows
<1> HIDE DEF m, a
<1>4. /\ Knows(r) \in Pasts /\ Knows(r).typed = past.typed /\ Knows(r).gone = past.gone
      /\ Knows(r).met = m /\ Knows(r).age = a
  BY <1>1, <1>2, <1>3 DEF Pasts
<1> QED BY <1>4 DEF m, a

(* What the numbers of a state range over.                                 *)
LEMMA Ranges ==
    ASSUME StatusTypeOK
    PROVE  /\ shown \in Rows /\ capture.row \in Rows
           /\ shown.text \in Nat /\ capture.row.text \in Nat /\ pane.text \in Nat \ {0}
           /\ shown.sent \in 0 .. CooldownSecs /\ capture.row.sent \in 0 .. CooldownSecs
           /\ shown.changed \in 0 .. SettleSecs /\ capture.row.changed \in 0 .. SettleSecs
           /\ past.typed \in 0 .. CooldownSecs /\ past.age \in 0 .. SettleSecs
           /\ SettleSecs \in Nat \ {0} /\ CooldownSecs \in Nat \ {0} /\ MaxScreens \in Nat
<1>1. SettleSecs \in Nat \ {0} /\ CooldownSecs \in Nat \ {0} /\ MaxScreens \in Nat
  BY StatusAssumption
<1>2. /\ shown \in Rows /\ capture.row \in Rows /\ pane.text \in 1 .. MaxScreens
      /\ past.typed \in 0 .. CooldownSecs /\ past.age \in 0 .. SettleSecs
  BY DEF StatusTypeOK
<1>3. \A r \in Rows : /\ r.text \in 0 .. MaxScreens
                      /\ r.sent \in 0 .. CooldownSecs /\ r.changed \in 0 .. SettleSecs
  BY DEF Rows
<1> QED BY <1>1, <1>2, <1>3

LEMMA TypedWhole ==
    /\ StatusTypeOK => /\ pane \in Panes /\ past \in Pasts /\ capture \in Flights
    /\ StatusTypeOK' <=> /\ which' \in {"worker", "main", "control"}
                         /\ pane' \in Panes /\ shown' \in Rows /\ capture' \in Flights
                         /\ past' \in Pasts
                         /\ turns' \in 0 .. MaxTurns /\ lapses' \in 0 .. MaxLapses
BY DEF StatusTypeOK, Panes, Pasts, Flights, Rows

LEMMA LapseFits ==
    ASSUME StatusTypeOK
    PROVE  /\ Lapse => lapses' \in 0 .. MaxLapses
           /\ Turns => turns' \in 0 .. MaxTurns
<1> DEFINE n == MaxLapses
           m == MaxTurns
<1>1. n \in Nat /\ m \in Nat
  BY StatusAssumption
<1>2. lapses \in 0 .. n /\ turns \in 0 .. m
  BY DEF StatusTypeOK
<1> HIDE DEF n, m
<1>3. lapses < n /\ lapses' = lapses + 1 => lapses' \in 0 .. n
  BY <1>1, <1>2
<1>4. turns < m /\ turns' = turns + 1 => turns' \in 0 .. m
  BY <1>1, <1>2
<1> QED BY <1>3, <1>4 DEF Lapse, Turns, n, m

-----------------------------------------------------------------------------
(* The session, its program and the clock                                  *)

(* What happens to the session leaves the rows what they were.             *)
LEMMA SessionMoves ==
    ASSUME StatusInv, StatusTypeOK', UNCHANGED <<which, shown, capture>>,
           past'.typed = past.typed, past'.met = past.met,
           past.gone => past'.gone,
           ~pane'.alive => ~pane.alive \/ past'.gone,
           \/ pane'.text = pane.text /\ past'.age = past.age
           \/ pane'.text > pane.text /\ past'.age = IF past.met THEN 0 ELSE past.age
    PROVE  StatusInv'
<1>1. SentFits'
  BY DEF StatusInv, SentFits
<1>2. GoneFits'
  BY DEF StatusInv, GoneFits
<1>3. ASSUME NEW r \in Rows, Fresh(r), r.text <= pane.text, r.text # Unseen \/ ~past.met
      PROVE  Fresh(r)' /\ r.text <= pane'.text
  <2>1. r.text \in Nat /\ pane.text \in Nat /\ pane'.text \in Nat
    BY TypedWhole, StatusAssumption DEF Rows, Panes, StatusInv
  <2>2. CASE pane'.text = pane.text /\ past'.age = past.age
    BY <1>3, <2>2 DEF Fresh
  <2>3. CASE pane'.text > pane.text /\ past.met
    BY <1>3, <2>1, <2>3 DEF Fresh
  <2>4. CASE pane'.text > pane.text /\ past'.age = past.age /\ ~past.met
    BY <1>3, <2>1, <2>4 DEF Fresh, StatusInv, RestFits
  <2> QED BY <2>2, <2>3, <2>4
<1>4. /\ shown.text <= pane'.text /\ capture.row.text <= pane'.text
      /\ shown \in Rows /\ capture.row \in Rows
  BY Ranges, StatusAssumption DEF StatusInv, RestFits, StatusTypeOK
<1>5. Fresh(shown)'
  BY <1>3, <1>4 DEF StatusInv, RestFits
<1>6. capture.at # "idle" /\ ~capture.stale
         => (capture.saw = "gone" /\ capture.row.text = Unseen) \/ Fresh(capture.row)'
  <2>1. CASE capture.row.text # Unseen
    BY <1>3, <1>4, <2>1 DEF StatusInv, RestFits
  <2>2. CASE capture.row.text = Unseen
    BY <1>3, <1>4, <2>2 DEF StatusInv, RestFits
  <2> QED BY <2>1, <2>2
<1>7. ~past'.met => past'.age = SettleSecs
  BY DEF StatusInv, RestFits
<1> QED BY <1>1, <1>2, <1>4, <1>5, <1>6, <1>7 DEF StatusInv, RestFits

LEMMA SessionSteps ==
    ASSUME StatusInv,
           NewText \/ Redraws \/ SessionEnds \/ SessionBegins \/ ProgramEnds \/ WorktreeGoes
    PROVE  StatusInv'
<1>0. /\ StatusTypeOK /\ which \in {"worker", "main", "control"} /\ pane \in Panes
      /\ past \in Pasts /\ capture \in Flights /\ shown \in Rows
      /\ turns \in 0 .. MaxTurns /\ lapses \in 0 .. MaxLapses
  BY TypedWhole DEF StatusInv, StatusTypeOK
<1>t. Turns => turns' \in 0 .. MaxTurns
  BY <1>0, LapseFits
<1>n. MaxScreens \in Nat /\ pane.text \in 1 .. MaxScreens
  BY <1>0, StatusAssumption DEF Panes
<1>m. pane.text < MaxScreens => pane.text + 1 \in 1 .. MaxScreens /\ pane.text + 1 > pane.text
  BY <1>n
<1>s. Stirs => /\ past' \in Pasts /\ past'.typed = past.typed /\ past'.met = past.met
               /\ past'.gone = past.gone
               /\ past'.age = IF past.met THEN 0 ELSE past.age
  <2> DEFINE a == IF past.met THEN 0 ELSE past.age
  <2>1. a \in 0 .. SettleSecs
    BY <1>0, StatusAssumption DEF Pasts
  <2>2. Stirs => past' = [past EXCEPT !.age = a]
    BY <1>0 DEF Stirs, Pasts
  <2> HIDE DEF a
  <2>3. Stirs => /\ past' \in Pasts /\ past'.typed = past.typed /\ past'.met = past.met
                 /\ past'.gone = past.gone /\ past'.age = a
    BY <1>0, <2>1, <2>2 DEF Pasts
  <2> QED BY <2>3 DEF a
<1>1. CASE NewText
  <2>1. /\ pane' \in Panes /\ pane'.alive = pane.alive /\ pane'.text > pane.text
        /\ Stirs /\ UNCHANGED <<which, shown, capture, turns, lapses>>
    BY <1>0, <1>1, <1>m DEF NewText, Panes
  <2> QED BY <1>0, <1>s, <2>1, SessionMoves, TypedWhole
<1>2. CASE Redraws
  <2>1. /\ pane' \in Panes /\ pane'.alive = pane.alive /\ pane'.text = pane.text
        /\ UNCHANGED <<which, shown, capture, past, turns, lapses>>
    BY <1>0, <1>2 DEF Redraws, Panes
  <2> QED BY <1>0, <2>1, SessionMoves, TypedWhole
<1>3. CASE SessionEnds
  <2>1. /\ pane' \in Panes /\ pane'.text = pane.text
        /\ past' \in Pasts /\ past'.gone /\ past'.typed = past.typed /\ past'.met = past.met
        /\ past'.age = past.age
        /\ Turns /\ UNCHANGED <<which, shown, capture, lapses>>
    BY <1>0, <1>3 DEF SessionEnds, Panes, Pasts, Turns
  <2> QED BY <1>0, <1>t, <2>1, SessionMoves, TypedWhole
<1>4. CASE SessionBegins
  <2>1. /\ pane' \in Panes /\ pane'.alive /\ pane'.text > pane.text
        /\ Stirs /\ Turns /\ UNCHANGED <<which, shown, capture, lapses>>
    BY <1>0, <1>4, <1>m, StatusAssumption DEF SessionBegins, Panes, Turns
  <2> QED BY <1>0, <1>t, <1>s, <2>1, SessionMoves, TypedWhole
<1>5. CASE ProgramEnds
  <2>1. /\ pane' \in Panes /\ pane'.alive = pane.alive /\ pane'.text = pane.text
        /\ Turns /\ UNCHANGED <<which, shown, capture, past, lapses>>
    BY <1>0, <1>5 DEF ProgramEnds, Panes, Turns
  <2> QED BY <1>0, <1>t, <2>1, SessionMoves, TypedWhole
<1>6. CASE WorktreeGoes
  <2>1. /\ pane' \in Panes /\ pane'.alive = pane.alive /\ pane'.text = pane.text
        /\ Turns /\ UNCHANGED <<which, shown, capture, past, lapses>>
    BY <1>0, <1>6 DEF WorktreeGoes, Panes, Turns
  <2> QED BY <1>0, <1>t, <2>1, SessionMoves, TypedWhole
<1> QED BY <1>1, <1>2, <1>3, <1>4, <1>5, <1>6

LEMMA SecondStep == ASSUME StatusInv, Second PROVE StatusInv'
<1>0. /\ StatusTypeOK /\ which \in {"worker", "main", "control"} /\ pane \in Panes
      /\ past \in Pasts /\ capture \in Flights /\ shown \in Rows /\ capture.row \in Rows
      /\ turns \in 0 .. MaxTurns /\ lapses \in 0 .. MaxLapses
  BY TypedWhole, Ranges DEF StatusInv, StatusTypeOK
<1>1. /\ shown' \in Rows
      /\ shown'.status = shown.status /\ shown'.text = shown.text
      /\ shown'.changed = Older(shown.changed, SettleSecs)
      /\ shown'.sent = Older(shown.sent, CooldownSecs)
  BY <1>0, AgedFits DEF Second
<1>2. /\ Aged(capture.row) \in Rows
      /\ Aged(capture.row).status = capture.row.status /\ Aged(capture.row).text = capture.row.text
      /\ Aged(capture.row).changed = Older(capture.row.changed, SettleSecs)
      /\ Aged(capture.row).sent = Older(capture.row.sent, CooldownSecs)
  BY <1>0, AgedFits
<1>3. /\ capture' \in Flights /\ capture'.row = Aged(capture.row)
      /\ capture'.at = capture.at /\ capture'.saw = capture.saw /\ capture'.shell = capture.shell
      /\ capture'.read = capture.read /\ capture'.moving = capture.moving
      /\ capture'.stale = capture.stale
  BY <1>0, <1>2 DEF Second, Flights
<1>4. /\ Older(past.age, SettleSecs) \in 0 .. SettleSecs
      /\ Older(past.typed, CooldownSecs) \in 0 .. CooldownSecs
  BY <1>0, Ranges, OlderFits
<1>5. /\ past' \in Pasts /\ past'.age = Older(past.age, SettleSecs)
      /\ past'.typed = Older(past.typed, CooldownSecs)
      /\ past'.gone = past.gone /\ past'.met = past.met
  BY <1>0, <1>4 DEF Second, Pasts
<1>6. UNCHANGED <<which, pane, turns, lapses>>
  BY DEF Second
<1>7. StatusTypeOK'
  BY <1>0, <1>1, <1>3, <1>5, <1>6, TypedWhole
<1>8. SentFits'
  <2>1. /\ past.typed \in 0 .. CooldownSecs /\ shown.sent \in 0 .. CooldownSecs
        /\ capture.row.sent \in 0 .. CooldownSecs /\ CooldownSecs \in Nat
    BY <1>0, Ranges
  <2>2. /\ shown.sent <= past.typed => shown'.sent <= past'.typed
        /\ capture.row.sent <= past.typed => capture'.row.sent <= past'.typed
        /\ capture.row.sent <= shown.sent => capture'.row.sent <= shown'.sent
        /\ capture.row.sent = CooldownSecs => capture'.row.sent = CooldownSecs
        /\ past.typed = CooldownSecs => past'.typed = CooldownSecs
    BY <1>1, <1>2, <1>3, <1>5, <2>1, OlderFits
  <2> QED BY <1>3, <1>6, <2>2 DEF StatusInv, SentFits
<1>9. GoneFits'
  BY <1>1, <1>2, <1>3, <1>5, <1>6 DEF StatusInv, GoneFits
<1>10. ASSUME NEW r \in Rows, NEW s \in Rows, Fresh(r), s.text = r.text,
              s.changed = Older(r.changed, SettleSecs)
       PROVE  past'.age < SettleSecs => s.text # Unseen /\ (s.text # pane.text \/ s.changed <= past'.age)
  <2>1. past.age \in 0 .. SettleSecs /\ r.changed \in 0 .. SettleSecs /\ SettleSecs \in Nat
    BY <1>0, Ranges DEF Rows
  <2>2. past'.age < SettleSecs => past.age < SettleSecs
    BY <1>5, <2>1, OlderFits
  <2>3. r.changed <= past.age => s.changed <= past'.age
    BY <1>5, <1>10, <2>1, OlderFits
  <2> QED BY <1>10, <2>2, <2>3 DEF Fresh
<1>11. Fresh(shown)'
  BY <1>0, <1>1, <1>6, <1>10 DEF StatusInv, RestFits, Fresh
<1>12. Fresh(capture.row) => Fresh(capture.row)'
  BY <1>0, <1>2, <1>3, <1>6, <1>10 DEF Fresh
<1>13. past.age = SettleSecs => past'.age = SettleSecs
  BY <1>0, <1>5, Ranges, OlderFits
<1>14. RestFits'
  BY <1>1, <1>2, <1>3, <1>5, <1>6, <1>11, <1>12, <1>13 DEF StatusInv, RestFits
<1> QED BY <1>7, <1>8, <1>9, <1>14 DEF StatusInv

-----------------------------------------------------------------------------
(* The capture                                                             *)

LEMMA Wholes ==
    ASSUME StatusInv
    PROVE  /\ StatusTypeOK /\ which \in {"worker", "main", "control"} /\ pane \in Panes
           /\ past \in Pasts /\ capture \in Flights /\ shown \in Rows /\ capture.row \in Rows
           /\ turns \in 0 .. MaxTurns /\ lapses \in 0 .. MaxLapses
           /\ pane.text # Unseen
BY TypedWhole, Ranges DEF StatusInv, StatusTypeOK, Unseen

(* An idle capture asks nothing but what the row must fit.                 *)
LEMMA Quiet ==
    ASSUME StatusTypeOK', capture' = NoCapture,
           which' # "worker" => past'.typed = CooldownSecs,
           shown'.sent <= past'.typed,
           which' = "control" => shown'.status \notin {"dead", "branch"},
           shown'.text <= pane'.text, past'.met = (shown'.text # Unseen),
           ~past'.met => past'.age = SettleSecs,
           Fresh(shown)'
    PROVE  StatusInv'
<1>1. /\ capture'.at = "idle" /\ ~capture'.stale /\ ~capture'.read /\ capture'.row.text = 0
  BY DEF NoCapture, NewRow, Unseen
<1>2. pane'.text \in Nat
  BY StatusAssumption DEF StatusTypeOK
<1>3. SentFits'
  BY <1>1 DEF SentFits
<1>4. GoneFits'
  BY <1>1 DEF GoneFits
<1>5. RestFits'
  BY <1>1, <1>2 DEF RestFits
<1> QED BY <1>3, <1>4, <1>5 DEF StatusInv

LEMMA NoCaptureFits == NoCapture \in Flights
BY NewRowFits DEF NoCapture, Flights

LEMMA ScheduleStep == ASSUME StatusInv, Schedule PROVE StatusInv'
<1>0. /\ StatusTypeOK /\ pane \in Panes /\ past \in Pasts /\ shown \in Rows
      /\ which \in {"worker", "main", "control"}
      /\ turns \in 0 .. MaxTurns /\ lapses \in 0 .. MaxLapses
  BY Wholes
<1>1. /\ capture' \in Flights /\ capture'.at = "panes" /\ capture'.row = shown
      /\ capture'.saw = "unknown" /\ ~capture'.read /\ ~capture'.stale
  BY <1>0, NoCaptureFits DEF Schedule, NoCapture, Flights
<1>2. /\ past' \in Pasts /\ past'.age = past.age /\ past'.typed = past.typed
      /\ past'.met = past.met
      /\ ~pane.alive => past'.gone
  <2> DEFINE g == ~pane.alive
  <2>1. g \in BOOLEAN /\ past' = [past EXCEPT !.gone = g]
    BY DEF Schedule
  <2> HIDE DEF g
  <2>2. /\ past' \in Pasts /\ past'.age = past.age /\ past'.typed = past.typed
        /\ past'.met = past.met /\ past'.gone = g
    BY <1>0, <2>1 DEF Pasts
  <2> QED BY <2>2 DEF g
<1>3. capture.at = "idle" /\ UNCHANGED <<which, pane, shown, turns, lapses>>
  BY DEF Schedule
<1>4. StatusTypeOK'
  BY <1>0, <1>1, <1>2, <1>3, TypedWhole
<1>5. SentFits'
  BY <1>0, <1>1, <1>2, <1>3, Ranges DEF StatusInv, SentFits
<1>6. GoneFits'
  BY <1>1, <1>2, <1>3 DEF StatusInv, GoneFits
<1>7. Fresh(shown)' /\ Fresh(capture.row)'
  BY <1>1, <1>2, <1>3 DEF StatusInv, RestFits, Fresh
<1>8. RestFits'
  BY <1>1, <1>2, <1>3, <1>7 DEF StatusInv, RestFits
<1> QED BY <1>4, <1>5, <1>6, <1>8 DEF StatusInv

(* A step of the capture that leaves its row, or takes from it what it     *)
(* knew of the screen.                                                     *)
LEMMA CaptureMoves ==
    ASSUME StatusInv, capture.at # "idle", capture' \in Flights,
           UNCHANGED <<which, pane, shown, past, turns>>, lapses' \in 0 .. MaxLapses,
           capture'.at \in {"screen", "result"},
           capture'.row.sent = capture.row.sent,
           capture'.stale = capture.stale, capture'.read = capture.read,
           capture'.shell = capture.shell \/ ~capture.read,
           capture'.moving = capture.moving,
           capture.read => capture'.saw = capture.saw /\ capture'.at = "result",
           capture'.saw = "gone" => ~pane.alive \/ capture.saw = "gone",
           capture'.saw # "gone" => capture.saw # "gone",
           \/ capture'.row = capture.row
           \/ /\ capture'.saw = "gone" /\ ~capture.read
              /\ which # "worker" => capture'.row.status \notin {"dead", "branch"}
              /\ capture'.row.text \in {Unseen, capture.row.text}
              /\ capture'.row.text # Unseen
                   => capture'.row.text = capture.row.text /\ capture'.row.changed = capture.row.changed
    PROVE  StatusInv'
<1>0. /\ StatusTypeOK /\ pane \in Panes /\ past \in Pasts /\ shown \in Rows /\ capture \in Flights
      /\ which \in {"worker", "main", "control"} /\ turns \in 0 .. MaxTurns
  BY Wholes
<1>1. StatusTypeOK'
  BY <1>0, TypedWhole
<1>2. SentFits'
  BY DEF StatusInv, SentFits
<1>3. GoneFits'
  BY DEF StatusInv, GoneFits
<1>4. Fresh(shown)' /\ shown.text <= pane.text
  BY DEF StatusInv, RestFits, Fresh
<1>5. capture'.row.text <= pane.text
  BY <1>0, Ranges DEF StatusInv, RestFits, Unseen
<1>6. ~capture.stale => (capture'.saw = "gone" /\ capture'.row.text = Unseen) \/ Fresh(capture.row)'
  BY DEF StatusInv, RestFits, Fresh
<1>7. RestFits'
  BY <1>4, <1>5, <1>6 DEF StatusInv, RestFits
<1> QED BY <1>1, <1>2, <1>3, <1>7 DEF StatusInv

LEMMA ListsStep == ASSUME StatusInv, ListsPanes PROVE StatusInv'
<1>0. /\ StatusTypeOK /\ pane \in Panes /\ capture \in Flights /\ lapses \in 0 .. MaxLapses
      /\ Lapse => lapses' \in 0 .. MaxLapses
  BY Wholes, LapseFits
<1>1. capture.at = "panes" /\ ~capture.read
  BY DEF ListsPanes, StatusInv, RestFits
<1>2. CASE /\ capture' = [capture EXCEPT !.at = "screen", !.shell = pane.shell,
                                         !.saw = IF pane.alive THEN "alive" ELSE "gone"]
           /\ UNCHANGED <<which, pane, shown, turns, past, lapses>>
  <2> DEFINE w == IF pane.alive THEN "alive" ELSE "gone"
  <2>1. w \in {"alive", "gone"} /\ (w = "gone" => ~pane.alive) /\ pane.shell \in BOOLEAN
    BY <1>0 DEF Panes
  <2>2. capture' = [capture EXCEPT !.at = "screen", !.shell = pane.shell, !.saw = w]
    BY <1>2
  <2> HIDE DEF w
  <2>3. /\ capture' \in Flights /\ capture'.at = "screen" /\ capture'.row = capture.row
        /\ capture'.stale = capture.stale /\ capture'.read = capture.read
        /\ capture'.moving = capture.moving /\ capture'.saw = w
    BY <1>0, <2>1, <2>2 DEF Flights
  <2>4. capture.saw # "gone" \/ w = "gone"
    BY <1>1 DEF StatusInv, RestFits
  <2> QED BY <1>0, <1>1, <1>2, <2>1, <2>3, <2>4, CaptureMoves
<1>3. CASE capture' = Unlisted(capture) /\ Lapse /\ UNCHANGED <<which, pane, shown, turns, past>>
  <2>1. /\ capture' \in Flights /\ capture'.at = "result" /\ capture'.row = capture.row
        /\ capture'.stale = capture.stale /\ capture'.read = capture.read
        /\ capture'.shell = capture.shell
        /\ capture'.moving = capture.moving /\ capture'.saw = capture.saw
    BY <1>0, <1>3 DEF Flights, Unlisted
  <2> QED BY <1>0, <1>1, <1>3, <2>1, CaptureMoves
<1> QED BY <1>2, <1>3 DEF ListsPanes, Captures

LEMMA FindsStep == ASSUME StatusInv, FindsGone PROVE StatusInv'
<1>0. /\ StatusTypeOK /\ capture \in Flights /\ capture.row \in Rows /\ lapses \in 0 .. MaxLapses
      /\ Lapse => lapses' \in 0 .. MaxLapses
  BY Wholes, LapseFits
<1>1. capture.at = "screen" /\ ~capture.read /\ capture.saw = "gone"
  BY DEF FindsGone, StatusInv, RestFits
<1>2. PICK left \in {pane.left, "nothing"} :
        /\ capture' = [capture EXCEPT !.at = "result", !.row = Absent(capture.row, left)]
        /\ UNCHANGED <<which, pane, shown, turns, past>> /\ (UNCHANGED lapses \/ Lapse)
  BY <1>0 DEF FindsGone, Captures, Flights
<1> DEFINE d == Absent(capture.row, left)
<1>3. /\ d \in Rows /\ d.sent = capture.row.sent
      /\ d.text # Unseen => d.text = capture.row.text /\ d.changed = capture.row.changed
      /\ which # "worker" => d.status \notin {"dead", "branch"}
      /\ d.text \in {Unseen, capture.row.text}
  BY <1>0, AbsentFits
<1> HIDE DEF d
<1>4. /\ capture' \in Flights /\ capture'.at = "result" /\ capture'.row = d
      /\ capture'.stale = capture.stale /\ capture'.read = capture.read
      /\ capture'.shell = capture.shell
      /\ capture'.moving = capture.moving /\ capture'.saw = capture.saw
  BY <1>0, <1>2, <1>3 DEF Flights, d
<1> QED BY <1>0, <1>1, <1>2, <1>3, <1>4, CaptureMoves

LEMMA ReadsStep == ASSUME StatusInv, ReadsScreen PROVE StatusInv'
<1>0. /\ StatusTypeOK /\ pane \in Panes /\ past \in Pasts /\ shown \in Rows
      /\ which \in {"worker", "main", "control"} /\ turns \in 0 .. MaxTurns
      /\ capture \in Flights /\ capture.row \in Rows /\ lapses \in 0 .. MaxLapses
      /\ Lapse => lapses' \in 0 .. MaxLapses /\ pane.text # Unseen
  BY Wholes, LapseFits
<1>1. /\ capture.at = "screen" /\ ~capture.read /\ capture.saw = "alive"
      /\ UNCHANGED <<which, pane, shown, turns, past>>
  BY DEF ReadsScreen, Captures, StatusInv, RestFits
<1>2. CASE /\ capture' = [capture EXCEPT !.at = "result", !.row = Kept(@)]
           /\ IF pane.alive THEN Lapse ELSE UNCHANGED lapses
  <2>1. /\ capture' \in Flights /\ capture'.at = "result" /\ capture'.row = capture.row
        /\ capture'.stale = capture.stale /\ capture'.read = capture.read
        /\ capture'.shell = capture.shell
        /\ capture'.moving = capture.moving /\ capture'.saw = capture.saw
    BY <1>0, <1>2 DEF Flights, Kept
  <2>2. lapses' \in 0 .. MaxLapses
    BY <1>0, <1>2
  <2> QED BY <1>1, <2>1, <2>2, CaptureMoves
<1>3. ASSUME pane.alive, NEW frame \in Frames(pane.marks), UNCHANGED lapses,
             capture' = [capture EXCEPT
                    !.at = IF Answers(capture.row) THEN "type" ELSE "result",
                    !.row = Downgraded(Classified(@, frame), capture.shell),
                    !.read = TRUE, !.moving = past.age < SettleSecs]
      PROVE  StatusInv'
  <2> DEFINE c == Classified(capture.row, frame)
             d == Downgraded(c, capture.shell)
             w == IF Answers(capture.row) THEN "type" ELSE "result"
             m == past.age < SettleSecs
  <2>1. /\ c \in Rows /\ c.text = pane.text /\ c.text # Unseen /\ c.sent = capture.row.sent
        /\ c.status \in Found
        /\ Fresh(capture.row) /\ past.age < SettleSecs
             => c.changed <= past.age /\ c.status \in {"waiting", "running"}
    BY <1>0, <1>3, FramesFit, ClassifiedFits
  <2> HIDE DEF c
  <2>2. /\ d \in Rows /\ d.text = c.text /\ d.sent = c.sent /\ d.changed = c.changed
        /\ d.status \in Found
        /\ ~capture.shell => d.status = c.status
    BY <1>0, <2>1, DowngradedFits DEF Flights
  <2> HIDE DEF d
  <2>3. /\ w \in {"type", "result"}
        /\ w = "type" => which = "worker" /\ capture.row.sent = CooldownSecs
    BY DEF Answers
  <2>4. capture' = [capture EXCEPT !.at = w, !.row = d, !.read = TRUE, !.moving = m]
    BY <1>0, <1>3 DEF c, d, Flights
  <2>5. m \in BOOLEAN
    OBVIOUS
  <2> HIDE DEF w, m
  <2>6. /\ capture' \in Flights /\ capture'.at = w /\ capture'.row = d /\ capture'.read
        /\ capture'.moving = m /\ capture'.shell = capture.shell
        /\ capture'.saw = capture.saw /\ capture'.stale = capture.stale
    BY <1>0, <2>2, <2>3, <2>4, <2>5 DEF Flights
  <2>7. StatusTypeOK'
    BY <1>0, <1>1, <1>3, <2>6, TypedWhole
  <2>8. SentFits'
    BY <1>1, <2>1, <2>2, <2>3, <2>6 DEF StatusInv, SentFits
  <2>9. GoneFits'
    BY <1>1, <2>2, <2>6 DEF StatusInv, GoneFits, Found
  <2>10. ~capture.stale => Fresh(capture.row)
    BY <1>1 DEF StatusInv, RestFits
  <2>11. Fresh(shown)' /\ shown.text <= pane.text /\ capture'.row.text <= pane.text
    BY <1>0, <1>1, <2>1, <2>2, <2>6, Ranges DEF StatusInv, RestFits, Fresh
  <2>12. ~capture.stale => Fresh(capture.row)'
    BY <1>1, <2>1, <2>2, <2>6, <2>10 DEF Fresh
  <2>13. ~capture.stale /\ m /\ ~capture.shell => d.status \notin {"done", "idle"}
    BY <2>1, <2>2, <2>10 DEF m
  <2>14. RestFits'
    BY <1>1, <2>1, <2>2, <2>3, <2>6, <2>11, <2>12, <2>13 DEF StatusInv, RestFits
  <2> QED BY <2>7, <2>8, <2>9, <2>14 DEF StatusInv
<1> QED BY <1>2, <1>3 DEF ReadsScreen, Captures

LEMMA TypesStep == ASSUME StatusInv, Types PROVE StatusInv'
<1>0. /\ StatusTypeOK /\ pane \in Panes /\ past \in Pasts /\ shown \in Rows
      /\ which \in {"worker", "main", "control"} /\ turns \in 0 .. MaxTurns
      /\ capture \in Flights /\ capture.row \in Rows /\ lapses \in 0 .. MaxLapses
      /\ Lapse => lapses' \in 0 .. MaxLapses
  BY Wholes, LapseFits
<1>1. /\ capture.at = "type" /\ which = "worker" /\ capture.row.sent = CooldownSecs
      /\ UNCHANGED <<which, pane, shown, turns>>
  BY DEF Types, Captures, StatusInv, SentFits
<1>2. CASE /\ capture' = [capture EXCEPT !.at = "result"] /\ UNCHANGED past
           /\ IF pane.alive THEN Lapse ELSE UNCHANGED lapses
  <2>1. /\ capture' \in Flights /\ capture'.at = "result" /\ capture'.row = capture.row
        /\ capture'.stale = capture.stale /\ capture'.read = capture.read
        /\ capture'.shell = capture.shell
        /\ capture'.moving = capture.moving /\ capture'.saw = capture.saw
    BY <1>0, <1>2 DEF Flights
  <2>2. lapses' \in 0 .. MaxLapses
    BY <1>0, <1>2
  <2> QED BY <1>1, <1>2, <2>1, <2>2, CaptureMoves
<1>3. CASE /\ capture' = [capture EXCEPT !.at = "result", !.row.sent = 0]
           /\ past' = [past EXCEPT !.typed = 0] /\ UNCHANGED lapses
  <2> DEFINE r == [capture.row EXCEPT !.sent = 0]
  <2>1. /\ r \in Rows /\ r.sent = 0 /\ r.status = capture.row.status
        /\ r.text = capture.row.text /\ r.changed = capture.row.changed
    BY <1>0, StatusAssumption DEF Rows
  <2>2. capture' = [capture EXCEPT !.at = "result", !.row = r]
    BY <1>0, <1>3 DEF Flights
  <2> HIDE DEF r
  <2>3. /\ capture' \in Flights /\ capture'.at = "result" /\ capture'.row = r
        /\ capture'.stale = capture.stale /\ capture'.read = capture.read
        /\ capture'.shell = capture.shell
        /\ capture'.moving = capture.moving /\ capture'.saw = capture.saw
    BY <1>0, <2>1, <2>2 DEF Flights
  <2>4. /\ past' \in Pasts /\ past'.typed = 0 /\ past'.age = past.age /\ past'.met = past.met
        /\ past'.gone = past.gone
    BY <1>0, <1>3, StatusAssumption DEF Pasts
  <2>5. StatusTypeOK'
    BY <1>0, <1>1, <1>3, <2>3, <2>4, TypedWhole
  <2>6. shown.sent \in Nat
    BY <1>0, Ranges
  <2>7. SentFits'
    BY <1>1, <2>1, <2>3, <2>4, <2>6 DEF StatusInv, SentFits
  <2>8. GoneFits'
    BY <1>1, <2>1, <2>3, <2>4 DEF StatusInv, GoneFits
  <2>9. Fresh(shown)'
    BY <1>1, <2>4 DEF StatusInv, RestFits, Fresh
  <2>10. ~capture.stale => (capture.saw = "gone" /\ r.text = Unseen) \/ Fresh(capture.row)'
    BY <1>1, <2>1, <2>3, <2>4 DEF StatusInv, RestFits, Fresh
  <2>11. RestFits'
    BY <1>1, <2>1, <2>3, <2>4, <2>9, <2>10 DEF StatusInv, RestFits
  <2> QED BY <2>5, <2>7, <2>8, <2>11 DEF StatusInv
<1> QED BY <1>2, <1>3 DEF Types, Captures

LEMMA IngestStep == ASSUME StatusInv, Ingest PROVE StatusInv'
<1>0. /\ StatusTypeOK /\ pane \in Panes /\ past \in Pasts /\ shown \in Rows
      /\ which \in {"worker", "main", "control"} /\ turns \in 0 .. MaxTurns
      /\ capture \in Flights /\ capture.row \in Rows /\ lapses \in 0 .. MaxLapses
  BY Wholes
<1>1. /\ capture.at = "result" /\ capture' = NoCapture
      /\ UNCHANGED <<which, pane, turns, lapses>>
  BY DEF Ingest
<1>2. CASE capture.stale
  <2>1. UNCHANGED <<shown, past>> /\ which = "control"
    BY <1>2 DEF Ingest, StatusInv, SentFits
  <2>2. StatusTypeOK'
    BY <1>0, <1>1, <2>1, NoCaptureFits, TypedWhole
  <2>3. past.typed = CooldownSecs /\ shown.sent <= past.typed
    BY <1>0, <2>1, Ranges DEF StatusInv, SentFits
  <2>4. Fresh(shown)'
    BY <1>1, <2>1 DEF StatusInv, RestFits, Fresh
  <2> QED BY <1>1, <2>1, <2>2, <2>3, <2>4, Quiet DEF StatusInv, GoneFits, RestFits
<1>3. CASE ~capture.stale
  <2>1. /\ shown' \in Rows /\ shown'.sent = capture.row.sent /\ shown'.text = capture.row.text
        /\ shown'.changed = capture.row.changed /\ shown'.status = capture.row.status
    BY <1>0, <1>3, CopiedFits DEF Ingest
  <2>2. /\ past' \in Pasts /\ past'.typed = past.typed
        /\ past'.met = (shown'.text # Unseen)
        /\ ~past'.met => past'.age = SettleSecs
        /\ past'.age = past.age \/ shown'.text = Unseen
    <3>1. CASE capture.saw = "gone" \/ capture.read
      BY <1>0, <1>3, <2>1, <3>1, KnowsFits DEF Ingest
    <3>2. CASE capture.saw # "gone" /\ ~capture.read
      <4>1. past' = past /\ capture.row.text = shown.text
        BY <1>1, <1>3, <3>2 DEF Ingest, StatusInv, RestFits
      <4> QED BY <1>0, <2>1, <4>1 DEF StatusInv, RestFits
    <3> QED BY <3>1, <3>2
  <2>3. StatusTypeOK'
    BY <1>0, <1>1, <2>1, <2>2, NoCaptureFits, TypedWhole
  <2>4. /\ which # "worker" => past'.typed = CooldownSecs
        /\ shown'.sent <= past'.typed
        /\ which = "control" => shown'.status \notin {"dead", "branch"}
        /\ shown'.text <= pane.text
    BY <1>1, <2>1, <2>2 DEF StatusInv, SentFits, GoneFits, RestFits
  <2>5. Fresh(shown)'
    <3>1. CASE shown'.text = Unseen
      <4>1. ~past'.met /\ past'.age = SettleSecs /\ SettleSecs \in Nat
        BY <2>2, <3>1, StatusAssumption
      <4> QED BY <4>1 DEF Fresh
    <3>2. CASE shown'.text # Unseen
      BY <1>1, <1>3, <2>1, <2>2, <3>2 DEF StatusInv, RestFits, Fresh
    <3> QED BY <3>1, <3>2
  <2> QED BY <1>1, <2>2, <2>3, <2>4, <2>5, Quiet
<1> QED BY <1>2, <1>3

LEMMA PanicsStep == ASSUME StatusInv, Panics PROVE StatusInv'
<1>0. /\ StatusTypeOK /\ pane \in Panes /\ past \in Pasts /\ shown \in Rows
      /\ which \in {"worker", "main", "control"} /\ turns \in 0 .. MaxTurns
      /\ Lapse => lapses' \in 0 .. MaxLapses
  BY Wholes, LapseFits
<1>1. /\ capture.at # "idle" /\ capture' = NoCapture /\ Lapse
      /\ UNCHANGED <<which, pane, shown, turns>>
  BY DEF Panics
<1> DEFINE t == IF capture.row.sent < shown.sent THEN CooldownSecs ELSE past.typed
<1>2. /\ past.typed \in 0 .. CooldownSecs /\ shown.sent \in 0 .. CooldownSecs
      /\ capture.row.sent \in 0 .. CooldownSecs /\ CooldownSecs \in Nat
  BY <1>0, Ranges
<1>3. /\ t \in 0 .. CooldownSecs /\ shown.sent <= t
      /\ past.typed = CooldownSecs => t = CooldownSecs
  BY <1>1, <1>2 DEF StatusInv, SentFits
<1>4. past' = [past EXCEPT !.typed = t]
  BY <1>0 DEF Panics, Pasts
<1> HIDE DEF t
<1>5. /\ past' \in Pasts /\ past'.typed = t /\ past'.age = past.age /\ past'.met = past.met
  BY <1>0, <1>3, <1>4 DEF Pasts
<1>6. StatusTypeOK'
  BY <1>0, <1>1, <1>5, NoCaptureFits, TypedWhole
<1>7. Fresh(shown)'
  BY <1>1, <1>5 DEF StatusInv, RestFits, Fresh
<1> QED BY <1>1, <1>3, <1>5, <1>6, <1>7, Quiet DEF StatusInv, SentFits, GoneFits, RestFits

LEMMA RefreshStep == ASSUME StatusInv, RefreshesNow PROVE StatusInv'
<1>0. /\ StatusTypeOK /\ pane \in Panes /\ past \in Pasts /\ shown \in Rows
      /\ which \in {"worker", "main", "control"} /\ turns \in 0 .. MaxTurns
      /\ capture \in Flights /\ capture.row \in Rows /\ lapses \in 0 .. MaxLapses
      /\ pane.text # Unseen
  BY Wholes
<1>1. which = "control" /\ UNCHANGED <<which, pane, turns, lapses>> /\ past' = Knows(shown')
  BY DEF RefreshesNow
<1>2. /\ shown' \in Rows /\ shown'.sent = shown.sent /\ shown'.status \notin {"dead", "branch"}
      /\ shown'.text <= pane.text
      /\ shown'.text # Unseen /\ past.age < SettleSecs
           => shown'.text # pane.text \/ shown'.changed <= past.age
  <2>1. ASSUME NEW frame \in Frames(pane.marks), shown' = Classified(shown, frame)
        PROVE  /\ shown' \in Rows /\ shown'.sent = shown.sent /\ shown'.text = pane.text
               /\ shown'.status \in Found
               /\ past.age < SettleSecs => shown'.changed <= past.age
    BY <1>0, <2>1, FramesFit, ClassifiedFits DEF StatusInv, RestFits
  <2>2. CASE \E frame \in Frames(pane.marks) : shown' = Classified(shown, frame)
    <3>1. PICK frame \in Frames(pane.marks) : shown' = Classified(shown, frame)
      BY <2>2
    <3>2. pane.text \in Nat
      BY <1>0, Ranges
    <3> QED BY <2>1, <3>1, <3>2 DEF Found
  <2>3. CASE shown' = Absent(shown, pane.left)
    <3>1. /\ shown' \in Rows /\ shown'.sent = shown.sent
          /\ shown'.status \notin {"dead", "branch"}
          /\ shown'.text # Unseen => shown'.text = shown.text /\ shown'.changed = shown.changed
          /\ shown'.text \in {Unseen, shown.text}
      BY <1>0, <1>1, <2>3, AbsentFits
    <3>2. shown'.text <= pane.text
      BY <1>0, <3>1, Ranges DEF StatusInv, RestFits, Unseen
    <3> QED BY <3>1, <3>2 DEF StatusInv, RestFits, Fresh
  <2> QED BY <2>2, <2>3 DEF RefreshesNow
<1>3. /\ past' \in Pasts /\ past'.typed = past.typed /\ past'.gone = past.gone
      /\ past'.met = (shown'.text # Unseen)
      /\ past'.age = IF shown'.text = Unseen THEN SettleSecs ELSE past.age
  BY <1>0, <1>1, <1>2, KnowsFits
<1>4. /\ capture' \in Flights /\ capture'.row = capture.row /\ capture'.at = capture.at
      /\ capture'.saw = capture.saw /\ capture'.read = capture.read
      /\ capture'.stale => capture.at # "idle"
      /\ capture.at # "idle" => capture'.stale
  <2> DEFINE w == capture.at # "idle"
  <2>1. w \in BOOLEAN /\ capture' = [capture EXCEPT !.stale = w]
    BY DEF RefreshesNow
  <2> HIDE DEF w
  <2>2. /\ capture' \in Flights /\ capture'.row = capture.row /\ capture'.at = capture.at
        /\ capture'.saw = capture.saw /\ capture'.read = capture.read /\ capture'.stale = w
    BY <1>0, <2>1 DEF Flights
  <2> QED BY <2>2 DEF w
<1>5. StatusTypeOK'
  BY <1>0, <1>1, <1>2, <1>3, <1>4, TypedWhole
<1>6. SentFits'
  BY <1>1, <1>2, <1>3, <1>4 DEF StatusInv, SentFits
<1>7. GoneFits'
  BY <1>1, <1>2, <1>3, <1>4 DEF StatusInv, GoneFits
<1>8. Fresh(shown)'
  BY <1>0, <1>1, <1>2, <1>3, Ranges DEF Fresh
<1>9. RestFits'
  BY <1>1, <1>2, <1>3, <1>4, <1>8 DEF StatusInv, RestFits
<1> QED BY <1>5, <1>6, <1>7, <1>9 DEF StatusInv

-----------------------------------------------------------------------------
LEMMA StatusStarts == StatusInit => StatusInv
<1> SUFFICES ASSUME StatusInit PROVE StatusInv
  OBVIOUS
<1>1. PICK alive \in BOOLEAN : pane = [alive |-> alive, shell |-> FALSE, marks |-> {}, text |-> 1,
                                       left |-> "worktree"]
  BY DEF StatusInit
<1>2. pane \in Panes /\ pane.text = 1
  BY <1>1, StatusAssumption DEF Panes
<1>3. /\ past \in Pasts /\ past.age = SettleSecs /\ past.typed = CooldownSecs /\ ~past.met
      /\ past.gone = FALSE
  BY StatusAssumption DEF StatusInit, Pasts
<1>4. StatusTypeOK
  BY <1>2, <1>3, NewRowFits, NoCaptureFits, StatusAssumption
     DEF StatusInit, StatusTypeOK, Panes, Pasts, Flights
<1>5. capture.at = "idle" /\ ~capture.stale /\ ~capture.read /\ capture.row = NewRow /\ shown = NewRow
  BY DEF StatusInit, NoCapture
<1>6. CooldownSecs \in Nat /\ SettleSecs \in Nat
  BY StatusAssumption
<1>7. SentFits
  BY <1>3, <1>5, <1>6, NewRowFits DEF SentFits
<1>8. GoneFits
  BY <1>5, NewRowFits DEF GoneFits
<1>9. RestFits
  <2>1. Fresh(shown)
    BY <1>3, <1>6 DEF Fresh
  <2>2. shown.text = 0 /\ capture.row.text = 0
    BY <1>5, NewRowFits DEF Unseen
  <2>3. past.met = FALSE
    BY <1>3 DEF Pasts
  <2>4. past.met = (shown.text # Unseen)
    BY <2>2, <2>3 DEF Unseen
  <2>5. shown.text <= pane.text /\ capture.row.text <= pane.text
    BY <1>2, <2>2
  <2> QED BY <1>3, <1>5, <2>1, <2>4, <2>5 DEF RestFits
<1> QED BY <1>4, <1>7, <1>8, <1>9 DEF StatusInv

LEMMA StatusKeeps == StatusInv /\ [StatusStep]_statusVars => StatusInv'
<1> SUFFICES ASSUME StatusInv, [StatusStep]_statusVars PROVE StatusInv'
  OBVIOUS
<1>1. CASE UNCHANGED statusVars
  <2> USE <1>1 DEF statusVars
  <2>1. StatusTypeOK'
    BY DEF StatusInv, StatusTypeOK
  <2>2. SentFits' /\ GoneFits'
    BY DEF StatusInv, SentFits, GoneFits
  <2>3. RestFits'
    BY DEF StatusInv, RestFits, Fresh
  <2> QED BY <2>1, <2>2, <2>3 DEF StatusInv
<1> QED BY <1>1, SessionSteps, SecondStep, ScheduleStep, ListsStep, FindsStep, ReadsStep, TypesStep,
           IngestStep, PanicsStep, RefreshStep DEF StatusStep, CaptureStep

(* Status.StatusSafe: see there.  status/*, ui/actions/background_*.rs.    *)
THEOREM StatusIsSafe == StatusSpec => StatusSafe
<1>1. StatusSpec => []StatusInv
  BY StatusStarts, StatusKeeps, PTL DEF StatusSpec
<1>2. ASSUME StatusInv PROVE capture.at = "type" => past.typed = CooldownSecs
  BY <1>2, Ranges DEF StatusInv, SentFits
<1>3. StatusInv => [capture.at = "type" /\ past'.typed = 0 => past.typed = CooldownSecs]_statusVars
  BY <1>2
<1>4. StatusInv /\ [StatusStep]_statusVars
        => [shown'.status \in {"dead", "branch"} /\ shown'.status # shown.status
              => past.gone]_statusVars
  <2> SUFFICES ASSUME StatusInv, [StatusStep]_statusVars,
                      shown'.status \in {"dead", "branch"}, shown'.status # shown.status
               PROVE  past.gone
    OBVIOUS
  <2>0. StatusTypeOK /\ shown \in Rows /\ capture.row \in Rows
    BY Wholes
  <2>1. CASE Ingest
    <3>1. shown' = shown \/ shown' = Copied(shown, capture.row)
      BY <2>1 DEF Ingest
    <3> QED BY <2>0, <2>1, <3>1, CopiedFits DEF Ingest, StatusInv, GoneFits
  <2>2. CASE RefreshesNow
    <3>1. StatusInv' /\ which' = "control"
      BY <2>2, RefreshStep DEF RefreshesNow
    <3> QED BY <3>1 DEF StatusInv, GoneFits
  <2>3. CASE Second
    BY <2>0, <2>3, AgedFits DEF Second
  <2>4. CASE shown' = shown
    BY <2>4
  <2> QED BY <2>1, <2>2, <2>3, <2>4
          DEF statusVars, StatusStep, CaptureStep, NewText, Redraws, SessionEnds, SessionBegins,
              ProgramEnds, WorktreeGoes, Turns, Schedule, ListsPanes, FindsGone, ReadsScreen, Types,
              Captures, Panics
<1>5. StatusInv /\ [StatusStep]_statusVars
        => [Ingested /\ capture.read /\ ~capture.shell /\ capture.moving
              => shown'.status \notin {"done", "idle"}]_statusVars
  <2> SUFFICES ASSUME StatusInv, [StatusStep]_statusVars, ~UNCHANGED statusVars,
                      Ingested, capture.read, ~capture.shell, capture.moving
               PROVE  shown'.status \notin {"done", "idle"}
    OBVIOUS
  <2>0. /\ StatusTypeOK /\ shown \in Rows /\ capture.row \in Rows /\ lapses \in Nat
        /\ capture.row.status \notin {"done", "idle"}
    BY Wholes, StatusAssumption DEF Ingested, StatusInv, RestFits
  <2>1. Ingest
    <3>1. capture.at = "result" /\ capture'.at = "idle" /\ lapses' = lapses
      BY DEF Ingested, NoCapture
    <3>2. ~Panics
      BY <2>0, <3>1 DEF Panics, Lapse
    <3>3. capture' # capture
      BY <3>1
    <3>4. ~Second /\ ~RefreshesNow
      BY <2>0, <3>1, TypedWhole DEF Second, RefreshesNow, Flights
    <3> QED BY <3>1, <3>2, <3>3, <3>4
            DEF StatusStep, CaptureStep, NewText, Redraws, SessionEnds, SessionBegins,
                ProgramEnds, WorktreeGoes, Turns, Schedule, ListsPanes, FindsGone, ReadsScreen, Types,
                Captures, statusVars
  <2> QED BY <2>0, <2>1, CopiedFits DEF Ingest, Ingested
<1> QED BY <1>1, <1>3, <1>4, <1>5, PTL
        DEF StatusSpec, StatusSafe, AnswersApart, DeadWhenGone, RestIsRest

=============================================================================
