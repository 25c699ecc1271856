------------------------------- MODULE Registry -------------------------------
(***************************************************************************)
(* The registry of repositories and agents: the state file every robco     *)
(* process reads, changes under a lock and writes back (registry.rs), and  *)
(* the terminal UI's own copy of it (ui/actions/background_refresh.rs,     *)
(* discovery_capture.rs, registry_sync.rs, ui/registry_write.rs).          *)
(*                                                                         *)
(* The UI reads the file once and works on a copy.  A background scan      *)
(* takes the rows of the file over, finds repositories and worktrees no    *)
(* row names, and hands a new copy back; the UI thread takes it unless its *)
(* own copy has changed since, and a third thread writes it to the file    *)
(* unless the file has.  Meanwhile other processes spawn agents, remove    *)
(* them, clone, pin and rename repositories, each with steps on the disk   *)
(* before the step on the file.                                            *)
(*                                                                         *)
(* One repository, "main", has all the worktrees; another may be cloned    *)
(* next to it.  An agent stands for its worktree: ids are not told apart.  *)
(* Not here: repositories of remote hosts, runtime fields, slots and child *)
(* worktrees, titles, the tree above the rows.                             *)
(***************************************************************************)
EXTENDS Integers, SequencesExt

CONSTANTS
    PathOrder,   \* directories under repos_root, in the order of discovery
    Agents,      \* agents, in a sequence: the order git lists worktrees in
    Residents,   \* agents with a row at the start, in its order
    MaxOps,      \* bound: launches, removals, renames, clones, pins, dialogs
    MaxSlips,   \* bound: failed reads, dying launches and restarts
    MaxSaves,    \* bound: copies waiting for the save thread
    SlowLaunches \* a launch may outlast ADOPTION_GRACE_PERIOD

Paths == Range(PathOrder)
Home == PathOrder[1]
Nothing == "none"

ASSUME RegistryAssumption ==
    /\ PathOrder \in Seq(Paths) \ {<<>>} /\ IsInjective(PathOrder)
    /\ Agents \in Seq(Range(Agents)) /\ IsInjective(Agents)
    /\ Residents \in Seq(Range(Agents)) /\ IsInjective(Residents)
    /\ Nothing \notin Paths \union Range(Agents)
    /\ {MaxOps, MaxSlips, MaxSaves} \subseteq Nat
    /\ SlowLaunches \in BOOLEAN

VARIABLES
    dirs,     \* [Paths -> {"main", "other", "none"}]: what the disk holds
    trees,    \* agents whose worktree exists
    young,    \* those of them within the grace period
    disk,     \* the state file: a sequence of nodes
    mem,      \* the UI's copy
    scan,     \* the discovery in flight
    saves,    \* copies handed to the save thread, with their base
    dialog,   \* the UI's open confirmation dialog, by position
    launch,   \* [agents -> launches: none yet, under way or over]
    rename,   \* a rename between moving the directory and the file
    clone,    \* a clone between creating the directory and the file
    tries, slips

disks == <<dirs, trees, young>>
uiState == <<mem, scan, saves, dialog>>
jobs == <<launch, rename, clone>>
counters == <<tries, slips>>
registryVars == <<disks, disk, uiState, jobs, counters>>

Node(path, pinned, rows) == [path |-> path, pinned |-> pinned, rows |-> rows]

NoScan == [at |-> Nothing, base |-> <<>>, result |-> <<>>, save |-> FALSE]
NoDialog == [agent |-> Nothing, node |-> 0, row |-> 0]
NoLaunch == [by |-> Nothing, path |-> Nothing]
Over == [by |-> "over", path |-> Nothing]
NoRename == [by |-> Nothing, from |-> Nothing, to |-> Nothing]
NoClone == [by |-> Nothing, path |-> Nothing]

RegistryInit ==
    /\ dirs = [p \in Paths |-> IF p = Home THEN "main" ELSE Nothing]
    /\ trees = Range(Residents)
    /\ young = {}
    /\ \E pinned \in BOOLEAN : disk = <<Node(Home, pinned, Residents)>>
    /\ mem = disk
    /\ scan = NoScan
    /\ saves = <<>>
    /\ dialog = NoDialog
    /\ launch = [a \in Range(Agents) |->
                    IF a \in Range(Residents) THEN Over ELSE NoLaunch]
    /\ rename = NoRename
    /\ clone = NoClone
    /\ tries = 0
    /\ slips = 0

-----------------------------------------------------------------------------
(* The file's content *)

\* retain and filter: what of a list is in a set, in the list's order.
Keeping(s, S) ==
    LET kept[n \in 0 .. Len(s)] ==
          IF n = 0 THEN <<>>
          ELSE IF s[n] \in S THEN Append(kept[n - 1], s[n]) ELSE kept[n - 1]
    IN kept[Len(s)]

Rows(registry) == UNION {Range(registry[i].rows) : i \in DOMAIN registry}

At(registry, path) == {i \in DOMAIN registry : registry[i].path = path}

\* Position of the first node of a path, 0 if none.
Find(registry, path) ==
    IF At(registry, path) = {} THEN 0
    ELSE CHOOSE i \in At(registry, path) : \A j \in At(registry, path) : i <= j

\* retain(agent.id != id), in every repository.
Without(registry, a) ==
    [i \in DOMAIN registry |-> [registry[i] EXCEPT
        !.rows = Keeping(@, Range(Agents) \ {a})]]

AddPinned(registry, path) ==
    LET i == Find(registry, path)
    IN IF i = 0 THEN Append(registry, Node(path, TRUE, <<>>))
       ELSE [registry EXCEPT ![i].pinned = TRUE]

\* The file already names the new row: the row is replaced.
PersistChild(registry, path, a) ==
    LET i == Find(registry, path)
    IN IF i = 0 \/ a \in Range(registry[i].rows) THEN registry
       ELSE [registry EXCEPT ![i].rows = Append(@, a)]

\* The UI's own launches push their row whatever is there.
PushRow(registry, path, a) ==
    LET i == Find(registry, path)
    IN IF i = 0 THEN registry ELSE [registry EXCEPT ![i].rows = Append(@, a)]

ApplyRename(registry, from, to) ==
    LET i == Find(registry, from)
    IN IF i = 0 THEN registry ELSE [registry EXCEPT ![i].path = to]

\* Known nodes by path, the last of a path winning; the discovered ones first,
\* then those with agents or a pin.
MergeDiscovered(registry, discovered) ==
    LET Known(p) == At(registry, p) # {}
        Newest(p) == registry[CHOOSE i \in At(registry, p) :
                              \A j \in At(registry, p) : j <= i]
        found == Keeping(PathOrder, discovered)
        kept == Keeping(PathOrder, {p \in Paths \ discovered :
                  Known(p) /\ (Newest(p).pinned \/ Newest(p).rows # <<>>)})
    IN [i \in DOMAIN found |-> IF Known(found[i]) THEN Newest(found[i])
                               ELSE Node(found[i], FALSE, <<>>)]
       \o [i \in DOMAIN kept |-> Newest(kept[i])]

-----------------------------------------------------------------------------
(* A discovery pass *)

\* Only nodes without rows take those of the file.
ShyAdoptStored(registry, stored) ==
    [n \in DOMAIN registry |->
        LET i == Find(stored, registry[n].path)
        IN IF i = 0 \/ registry[n].rows # <<>> THEN registry[n]
           ELSE [registry[n] EXCEPT !.rows = stored[i].rows]]

\* Rows are those of the first stored node of the path, if it is stored.
AdoptStored(registry, stored) ==
    [n \in DOMAIN registry |->
        LET i == Find(stored, registry[n].path)
        IN IF i = 0 THEN registry[n]
           ELSE [registry[n] EXCEPT !.rows = stored[i].rows]]

FoundDirs == {p \in Paths : dirs[p] # Nothing}

ReposChanged(registry) ==
    LET current == {registry[i].path : i \in DOMAIN registry}
        kept == {registry[i].path : i \in {j \in DOMAIN registry :
                    registry[j].pinned \/ registry[j].rows # <<>>}}
    IN FoundDirs \union kept # current

\* Worktrees whose launch is still under way are unknown ones.
YoungUnknown(node) ==
    IF dirs[node.path] # "main" THEN <<>>
    ELSE Keeping(Agents, trees \ Range(node.rows))

\* Worktrees of the repository that no row of the node names, old enough.
UnknownTrees(node) ==
    IF dirs[node.path] # "main" THEN <<>>
    ELSE Keeping(Agents, trees \ (young \union Range(node.rows)))

ReconcileRows(registry) ==
    [i \in DOMAIN registry |-> [registry[i] EXCEPT
        !.rows = @ \o UnknownTrees(registry[i])]]

\* schedule_discovery_refresh: one at a time, on a copy.
Schedule ==
    /\ scan = NoScan
    /\ scan' = [NoScan EXCEPT !.at = "load", !.base = mem, !.result = mem]
    /\ UNCHANGED <<disks, disk, mem, saves, dialog, jobs, counters>>

\* A failed read leaves the copy as it is.
LoadStored ==
    /\ scan.at = "load"
    /\ \/ /\ scan' = [scan EXCEPT !.at = "look",
                                  !.result = AdoptStored(scan.result, disk)]
          /\ UNCHANGED counters
       \/ /\ slips < MaxSlips
          /\ slips' = slips + 1
          /\ scan' = [scan EXCEPT !.at = "look"]
          /\ UNCHANGED tries
    /\ UNCHANGED <<disks, disk, mem, saves, dialog, jobs>>

Look ==
    /\ scan.at = "look"
    /\ LET changed == ReposChanged(scan.result)
           repos == IF changed THEN MergeDiscovered(scan.result, FoundDirs)
                               ELSE scan.result
           found == ReconcileRows(repos)
       IN scan' = [scan EXCEPT !.at = "done", !.result = found,
                               !.save = changed \/ found # repos]
    /\ UNCHANGED <<disks, disk, mem, saves, dialog, jobs, counters>>

UiFree == rename.by # "ui"

\* The agent a dialog's position denotes; Nothing if it denotes nothing.
Denoted(registry) ==
    IF dialog.node \in DOMAIN registry
    THEN LET rows == registry[dialog.node].rows
         IN IF dialog.row \in DOMAIN rows THEN rows[dialog.row] ELSE Nothing
    ELSE Nothing

\* restore_dialog_agent: the position of that agent in the new copy.
Restored(registry) ==
    LET a == Denoted(mem)
        i == IF a = Nothing THEN 0 ELSE Find(registry, mem[dialog.node].path)
    IN IF i = 0 \/ a \notin Range(registry[i].rows) THEN NoDialog
       ELSE [dialog EXCEPT !.node = i,
                           !.row = CHOOSE j \in DOMAIN registry[i].rows :
                              /\ registry[i].rows[j] = a
                              /\ \A k \in 1 .. j - 1 : registry[i].rows[k] # a]

\* apply_discovery: not when the UI's copy has changed since Schedule.
ApplyDiscovery ==
    /\ scan.at = "done" /\ UiFree
    /\ scan.save => Len(saves) < MaxSaves
    /\ IF mem # scan.base THEN UNCHANGED <<mem, dialog, saves>>
       ELSE /\ mem' = scan.result
            /\ dialog' = IF dialog = NoDialog THEN dialog
                         ELSE Restored(scan.result)
            /\ saves' = IF scan.save
                        THEN Append(saves, [registry |-> scan.result,
                                            base |-> scan.base])
                        ELSE saves
    /\ scan' = NoScan
    /\ UNCHANGED <<disks, disk, jobs, counters>>

\* The save thread writes what it was handed.
BlindSave ==
    /\ saves # <<>>
    /\ disk' = Head(saves).registry
    /\ saves' = Tail(saves)
    /\ UNCHANGED <<disks, mem, scan, dialog, jobs, counters>>

\* The save thread writes only over what the scan was based on.
SaveRows ==
    /\ saves # <<>>
    /\ disk' = IF disk = Head(saves).base THEN Head(saves).registry ELSE disk
    /\ saves' = Tail(saves)
    /\ UNCHANGED <<disks, mem, scan, dialog, jobs, counters>>

-----------------------------------------------------------------------------
(* Agents come and go *)

Operation == tries < MaxOps /\ tries' = tries + 1 /\ UNCHANGED slips

\* The registry is read, then the worktree and its session are made.
LaunchAgent(a, by, p) ==
    /\ launch[a] = NoLaunch
    /\ Find(IF by = "ui" THEN mem ELSE disk, p) # 0
    /\ dirs[p] = "main"
    /\ Operation
    /\ trees' = trees \union {a}
    /\ young' = young \union {a}
    /\ launch' = [launch EXCEPT ![a] = [by |-> by, path |-> p]]
    /\ UNCHANGED <<dirs, disk, uiState, rename, clone>>

\* spawn.rs persist_child.
Spawned(a) ==
    /\ launch[a].by = "spawn"
    /\ disk' = PersistChild(disk, launch[a].path, a)
    /\ launch' = [launch EXCEPT ![a] = Over]
    /\ UNCHANGED <<disks, uiState, rename, clone, counters>>

\* finish_task_launch: the UI's copy becomes the file as just written.
Launched(a) ==
    /\ launch[a].by = "ui" /\ UiFree
    /\ disk' = PushRow(disk, launch[a].path, a)
    /\ mem' = disk'
    /\ launch' = [launch EXCEPT ![a] = Over]
    /\ UNCHANGED <<disks, scan, saves, dialog, rename, clone, counters>>

\* The launch fails after git worktree add, or its process dies: the worktree
\* stays, no row is written.
LaunchDies(a) ==
    /\ launch[a].by \in {"spawn", "ui"}
    /\ slips < MaxSlips
    /\ slips' = slips + 1
    /\ launch' = [launch EXCEPT ![a] = Over]
    /\ UNCHANGED <<disks, disk, uiState, rename, clone, tries>>

GraceEnds(a) ==
    /\ a \in young
    /\ launch[a] = Over \/ SlowLaunches
    /\ young' = young \ {a}
    /\ UNCHANGED <<dirs, trees, disk, uiState, jobs, counters>>

\* The daemon's cleanup, or a merge or kill through MCP: worktree, then row.
Reaped(a) ==
    /\ a \in trees /\ a \in Rows(disk)
    /\ Operation
    /\ trees' = trees \ {a}
    /\ young' = young \ {a}
    /\ disk' = Without(disk, a)
    /\ UNCHANGED <<dirs, uiState, jobs>>

\* A dialog keeps its position when a row above it goes.
UnmovedRemapped(node, row) ==
    IF dialog.node = node /\ dialog.row = row THEN NoDialog ELSE dialog

\* remap_dialog_after_agent_removal.
Remapped(node, row) ==
    IF dialog.node # node \/ dialog.row < row THEN dialog
    ELSE IF dialog.row = row THEN NoDialog
    ELSE [dialog EXCEPT !.row = @ - 1]

\* finish_merge: the worker has cleaned up, the row leaves copy and file.
MergeFinished(a) ==
    /\ UiFree /\ a \in trees /\ a \in Rows(mem)
    /\ Operation
    /\ trees' = trees \ {a}
    /\ young' = young \ {a}
    /\ LET i == CHOOSE i \in DOMAIN mem : a \in Range(mem[i].rows)
           j == CHOOSE j \in DOMAIN mem[i].rows : mem[i].rows[j] = a
       IN /\ mem' = [mem EXCEPT ![i].rows = RemoveAt(@, j)]
          /\ dialog' = IF dialog = NoDialog THEN dialog ELSE Remapped(i, j)
    /\ disk' = Without(disk, a)
    /\ UNCHANGED <<dirs, scan, saves, jobs>>

-----------------------------------------------------------------------------
(* The UI's dialogs, on rows by position *)

Ask(i, j) ==
    /\ UiFree /\ dialog = NoDialog
    /\ Operation
    /\ dialog' = [agent |-> mem[i].rows[j], node |-> i, row |-> j]
    /\ UNCHANGED <<disks, disk, mem, scan, saves, jobs>>

\* A confirmed kill takes down whatever the position denotes by now.
Confirm ==
    /\ UiFree /\ dialog # NoDialog
    /\ LET a == Denoted(mem)
       IN IF a = Nothing THEN UNCHANGED <<trees, young, disk, mem>>
          ELSE /\ trees' = trees \ {a}
               /\ young' = young \ {a}
               /\ disk' = Without(disk, a)
               /\ mem' = disk'
    /\ dialog' = NoDialog
    /\ UNCHANGED <<dirs, scan, saves, jobs, counters>>

Cancel ==
    /\ UiFree /\ dialog # NoDialog
    /\ dialog' = NoDialog
    /\ UNCHANGED <<disks, disk, mem, scan, saves, jobs, counters>>

-----------------------------------------------------------------------------
(* Repositories come and go *)

\* rename_repo_dir, once whoever renames sees no agents.
RenameDir(by, p, q) ==
    LET seen == IF by = "ui" THEN mem ELSE disk
        i == Find(seen, p)
    IN /\ rename = NoRename
       /\ by = "ui" => dialog = NoDialog
       /\ i # 0 /\ seen[i].rows = <<>>
       /\ dirs[p] # Nothing /\ dirs[q] = Nothing
       /\ Operation
       /\ dirs' = [dirs EXCEPT ![q] = dirs[p], ![p] = Nothing]
       /\ rename' = [by |-> by, from |-> p, to |-> q]
       /\ UNCHANGED <<trees, young, disk, uiState, launch, clone>>

Renamed ==
    /\ rename # NoRename
    /\ disk' = ApplyRename(disk, rename.from, rename.to)
    /\ mem' = IF rename.by = "ui" THEN disk' ELSE mem
    /\ rename' = NoRename
    /\ UNCHANGED <<disks, scan, saves, dialog, launch, clone, counters>>

CloneDir(by, p) ==
    /\ clone = NoClone /\ dirs[p] = Nothing
    /\ Operation
    /\ dirs' = [dirs EXCEPT ![p] = "other"]
    /\ clone' = [by |-> by, path |-> p]
    /\ UNCHANGED <<trees, young, disk, uiState, launch, rename>>

\* The UI adds the repository to the file and to its copy, each on its own.
Cloned ==
    /\ clone # NoClone
    /\ clone.by = "ui" => UiFree
    /\ disk' = AddPinned(disk, clone.path)
    /\ mem' = IF clone.by = "ui" THEN AddPinned(mem, clone.path) ELSE mem
    /\ clone' = NoClone
    /\ UNCHANGED <<disks, scan, saves, dialog, launch, rename, counters>>

\* add_repo_path and remove_pinned_repo: prompts, so no dialog is open.
Pin(p) ==
    /\ UiFree /\ dialog = NoDialog /\ dirs[p] # Nothing
    /\ Operation
    /\ disk' = AddPinned(disk, p)
    /\ mem' = disk'
    /\ UNCHANGED <<disks, scan, saves, dialog, jobs>>

Unpin(p) ==
    LET i == Find(mem, p)
    IN /\ UiFree /\ dialog = NoDialog
       /\ i # 0 /\ mem[i].pinned /\ mem[i].rows = <<>>
       /\ Operation
       /\ disk' = Keeping(disk, {n \in Range(disk) :
                                   n.path # p \/ ~n.pinned \/ n.rows # <<>>})
       /\ mem' = disk'
       /\ UNCHANGED <<disks, scan, saves, dialog, jobs>>

\* The UI dies and starts again; what it had not saved is gone.
UiRestarts ==
    /\ mem # disk \/ saves # <<>> \/ dialog # NoDialog
    /\ slips < MaxSlips
    /\ slips' = slips + 1
    /\ disk' = MergeDiscovered(disk, FoundDirs)
    /\ mem' = disk'
    /\ scan' = NoScan
    /\ saves' = <<>>
    /\ dialog' = NoDialog
    /\ launch' = [a \in DOMAIN launch |->
                    IF launch[a].by = "ui" THEN Over ELSE launch[a]]
    /\ rename' = IF rename.by = "ui" THEN NoRename ELSE rename
    /\ clone' = IF clone.by = "ui" THEN NoClone ELSE clone
    /\ UNCHANGED <<disks, tries>>

-----------------------------------------------------------------------------
Refresh == Schedule \/ LoadStored \/ Look \/ ApplyDiscovery \/ SaveRows

Agent(a) ==
    \/ \E p \in Paths, by \in {"ui", "spawn"} : LaunchAgent(a, by, p)
    \/ Spawned(a) \/ Launched(a) \/ LaunchDies(a) \/ GraceEnds(a)
    \/ Reaped(a) \/ MergeFinished(a)

Repository(p) ==
    \/ \E q \in Paths, by \in {"ui", "tool"} : RenameDir(by, p, q)
    \/ \E by \in {"ui", "tool"} : CloneDir(by, p)
    \/ Pin(p) \/ Unpin(p)

RegistryStep ==
    \/ Refresh
    \/ \E a \in Range(Agents) : Agent(a)
    \/ \E p \in Paths : Repository(p)
    \/ Renamed \/ Cloned
    \/ \E i \in DOMAIN mem : \E j \in DOMAIN mem[i].rows : Ask(i, j)
    \/ Confirm \/ Cancel
    \/ UiRestarts

RegistrySpec == RegistryInit /\ [][RegistryStep]_registryVars

\* The UI's loop schedules and applies scans, its threads run, and a launch or
\* a rename ends.
RegistryFairness ==
    /\ WF_registryVars(Schedule) /\ WF_registryVars(LoadStored) /\ WF_registryVars(Look)
    /\ WF_registryVars(ApplyDiscovery) /\ WF_registryVars(SaveRows)
    /\ WF_registryVars(Renamed) /\ WF_registryVars(Cloned)
    /\ \A a \in Range(Agents) :
          WF_registryVars(GraceEnds(a)) /\ WF_registryVars(Spawned(a) \/ Launched(a))

FairRegistry == RegistrySpec /\ RegistryFairness

-----------------------------------------------------------------------------
(* Properties *)

NamedOnce(registry) ==
    \A i, j \in DOMAIN registry : registry[i].path = registry[j].path => i = j

\* A row leaves the file only once its worktree has gone: no process writes
\* back a copy that lacks a row another one wrote meanwhile, a worker just
\* spawned above all.  A rename onto a path that was pinned meanwhile leaves
\* two nodes of that path, of which the next discovery keeps the last one:
\* then rows may go.
RowsKept ==
    [][NamedOnce(disk)
        => Rows(disk) \ Rows(disk') \subseteq Range(Agents) \ trees']_registryVars

\* An agent has one row in a repository: launches, scans and saves that race
\* for the same worktree do not list it twice.
OneRowEach == \A i \in DOMAIN disk : IsInjective(disk[i].rows)

\* Dialogs address rows by position.  No refresh and no finished merge makes
\* an open one denote another agent than it was opened for.
DialogsHold ==
    [][(scan' # scan \/ \E a \in Range(Agents) : MergeFinished(a))
         /\ dialog # NoDialog /\ Denoted(mem) = dialog.agent
         => dialog' = NoDialog \/ Denoted(mem)' = dialog.agent]_registryVars

\* What the file says of agents reaches the screen: a row another process
\* wrote is shown and one it removed is not, again and again.
ScreenCatchesUp ==
    []<>(Rows(disk) \subseteq Rows(mem))

\* No save, scan, launch or finished merge lists an agent twice or takes an
\* open dialog from its agent.
RowsSafe == []OneRowEach /\ DialogsHold

===============================================================================
