--------------------------------- MODULE Screen --------------------------------
(***************************************************************************)
(* The project tree of the terminal UI (ui/list.rs, ui/list/repo_rows.rs): *)
(* rows worked out afresh from the registry the UI holds, the hosts it     *)
(* polls and the sessions it found; a cursor that is an index into them;   *)
(* collapse flags that go by the position of a repository in the registry. *)
(* Background refreshes replace what lies under both between two keys      *)
(* (ui/actions/background_refresh.rs, ui/actions/remote_hosts.rs).         *)
(*                                                                         *)
(* Of every kind of row there is one that comes and goes: an alert of the  *)
(* Overseer, a worker of a repository, a host, an orphaned session.  The   *)
(* OTHER LOCATIONS section, Discord channels and the worktrees below a     *)
(* worker are further rows of these kinds.                                 *)
(***************************************************************************)
EXTENDS Integers, SequencesExt

CONSTANTS
    Names,   \* local repositories, in alphabetical order
    Staffed, \* those of them that may have a worker
    Remote,  \* the repository of the one configured host
    MaxKeys  \* bound: rows folded, unfolded or moved

Nearby == Range(Names)

ASSUME ScreenAssumption ==
    /\ IsInjective(Names)
    /\ Staffed \subseteq Nearby
    /\ Remote \notin Nearby
    /\ MaxKeys \in Nat

VARIABLES
    repos,     \* App::registry, as the UI holds it, and App::expanded, the
               \* flags that go by position in it: local ones, then remote
    order,     \* UiState::project_order
    collapsed, \* UiState::collapsed_repos
    overseer,  \* which rows of the Overseer frame there are
    host,      \* HostSlot and HostView: connection, and what was published
    hostFolded,\* UiState::collapsed_hosts
    orphan,    \* whether there is an orphaned session
    cursor,    \* App::selected
    keys

screenVars == <<repos, order, collapsed, overseer, host, hostFolded,
                orphan, cursor, keys>>

RepoNodes == [repo : Nearby \cup {Remote}, agent : BOOLEAN, expanded : BOOLEAN]
Connections == {"connecting", "connected", "failed"}
Frames == [shown : BOOLEAN, alert : BOOLEAN]
Hosts == [connection : Connections, published : BOOLEAN]

-----------------------------------------------------------------------------
(* The rows                                                                *)

IndexIn(seq, e) == CHOOSE i \in DOMAIN seq : seq[i] = e

Listed(nodes) == {nodes[i].repo : i \in DOMAIN nodes}
At(nodes, r) == CHOOSE i \in DOMAIN nodes : nodes[i].repo = r

(* Mutant: as the registry has them.                                       *)
RegistryOrder ==
    LET local == SelectSeq(repos, LAMBDA n : n.repo \in Nearby)
    IN [i \in DOMAIN local |-> local[i].repo]

(* in_saved_order: those with a saved position, then the others by name.   *)
SavedOrder == order \o SelectSeq(Names, LAMBDA r : r \notin Range(order))

LocalRepos == SelectSeq(SavedOrder, LAMBDA r : r \in Listed(repos))

(* push_repo_rows: the repository, and its worker unless it is collapsed.  *)
Draws(row) ==
    \E i \in DOMAIN repos : /\ repos[i].repo = row[2]
                            /\ row[1] = "agent" => repos[i].agent /\ repos[i].expanded

RepoRows(some) ==
    SelectSeq(FlattenSeq([i \in DOMAIN some |-> <<<<"repo", some[i]>>, <<"agent", some[i]>>>>]),
              Draws)

(* push_remote_host_rows, or the row that explains a failure.              *)
HostRows ==
    IF hostFolded \/ host.connection = "connecting" THEN <<>>
    ELSE IF host.connection = "failed" THEN <<<<"host-error">>>>
    ELSE RepoRows(<<Remote>>) \o <<<<"remote-control">>>>

ScreenRows(frame) ==
    (IF frame.shown /\ frame.alert THEN <<<<"alert">>>> ELSE <<>>)
    \o (IF frame.shown THEN <<<<"control">>>> ELSE <<>>)
    \o RepoRows(SavedOrder) \o <<<<"host">>>> \o HostRows
    \o (IF orphan THEN <<<<"orphans">>, <<"orphan">>>> ELSE <<>>)

Visible == ScreenRows(overseer)
Selected == Visible[cursor]

ScreenTypeOK ==
    /\ repos \in Seq(RepoNodes) /\ Len(repos) <= Len(Names) + 1
    /\ order \in Seq(Nearby) /\ Len(order) <= Len(Names)
    /\ collapsed \subseteq Nearby \cup {Remote}
    /\ overseer \in Frames /\ host \in Hosts
    /\ {hostFolded, orphan} \subseteq BOOLEAN
    /\ cursor \in DOMAIN Visible
    /\ keys \in 0 .. MaxKeys

-----------------------------------------------------------------------------
(* The cursor                                                              *)

Clamp(at, rows) == IF at > Len(rows) THEN Len(rows) ELSE at

(* Mutant: the index is kept, whatever is there now.                       *)
ClampOnly(key, at, rows) == Clamp(at, rows)

(* Mutant: a recovered host has no heir for its error row.                 *)
NoHeir(key, at, rows) ==
    IF key \in Range(rows) THEN IndexIn(rows, key)
    ELSE IF key = <<"host-error">> THEN 1 ELSE Clamp(at, rows)

(* restore_selection: the row of that key; an error row becomes the host's *)
(* control row, or the cursor goes home; otherwise it stays at its index.  *)
Restore(key, at, rows) ==
    LET heir == IF key = <<"host-error">> THEN <<"remote-control">> ELSE key
    IN IF key \in Range(rows) THEN IndexIn(rows, key)
       ELSE IF heir \in Range(rows) THEN IndexIn(rows, heir)
       ELSE IF key = <<"host-error">> THEN 1 ELSE Clamp(at, rows)

(* (A set of one, so that the new rows are worked out once.)               *)
RestoresCursor ==
    \E was \in {Selected}, rows \in {Visible'} : cursor' = Restore(was, cursor, rows)
ClampsCursor == cursor' = Clamp(cursor, Visible')

-----------------------------------------------------------------------------
(* Collapse flags and the registry                                         *)

(* Mutant: by position, as they are stored.                                *)
FlagAt(nodes, i) == i \in DOMAIN repos => repos[i].expanded

(* The flag of a repository in a new registry: by path; one that was not   *)
(* there starts expanded.                                                  *)
Flag(nodes, i) == \A j \in DOMAIN repos : repos[j].repo = nodes[i].repo => repos[j].expanded

Replaces(nodes) ==
    repos' = [i \in DOMAIN nodes |-> [nodes[i] EXCEPT !.expanded = Flag(nodes, i)]]

LocalPart(nodes) == SelectSeq(nodes, LAMBDA n : n.repo \in Nearby)
RemotePart(nodes) == SelectSeq(nodes, LAMBDA n : n.repo = Remote)

(* What a registry file may hold, in an order of its own.                  *)
Arrangements == {s \in BoundedSeq(Nearby, Len(Names)) \ {<<>>} : IsInjective(s)}
Nodes(seq, busy) ==
    [i \in DOMAIN seq |->
        [repo |-> seq[i], agent |-> seq[i] \in busy, expanded |-> TRUE]]

(* A scan has its repositories in alphabetical order.                      *)
TreeScanned(found) == SelectSeq(Names, LAMBDA r : r \in found)

ScreenInit ==
    /\ repos = Nodes(Names, {})
    /\ order = <<>> /\ collapsed = {}
    /\ overseer \in Frames
    /\ host = [connection |-> "connecting", published |-> FALSE]
    /\ hostFolded = FALSE /\ orphan = FALSE
    /\ cursor = 1 /\ keys = 0

-----------------------------------------------------------------------------
(* Refreshes                                                               *)

(* apply_status: the visibility of the frame first, and then what is in it *)
(* unless a newer synchronous refresh has shown that already.              *)
AppliesStatus(shown, alert) ==
    LET between == [shown |-> shown, alert |-> overseer.alert]
        at == IF shown = overseer.shown THEN cursor
              ELSE Restore(Selected, cursor, ScreenRows(between))
    IN /\ overseer' = [shown |-> shown, alert |-> alert]
       /\ cursor' = Restore(ScreenRows(between)[at], at, ScreenRows(overseer'))
       /\ UNCHANGED <<repos, order, collapsed, host, hostFolded, orphan>>

(* apply_discovery: the scan's repositories, then the remote ones the UI   *)
(* has, each with the flag it had.                                         *)
AppliesDiscovery(found, busy, sessions) ==
    /\ Replaces(Nodes(TreeScanned(found), busy) \o RemotePart(repos))
    /\ orphan' = sessions
    /\ UNCHANGED <<order, collapsed, overseer, host, hostFolded>>
    /\ RestoresCursor

(* poll_host publishes a snapshot or an error, which keeps the last one's  *)
(* repositories; ingest_remote_hosts puts them in place of the host's.     *)
IngestsHost(connection, published, agent) ==
    /\ connection # "connecting"
    /\ connection = "failed" => published = host.published
    /\ host' = [connection |-> connection, published |-> published]
    /\ Replaces(LocalPart(repos)
                \o (IF published THEN Nodes(<<Remote>>, agent) ELSE <<>>))
    /\ UNCHANGED <<order, collapsed, overseer, hostFolded, orphan>>
    /\ RestoresCursor

(* locked_registry_update, for a worker killed, created or launched: the   *)
(* registry is what the file holds, which no remote repository is in.      *)
WritesRegistry(file, busy) ==
    /\ Replaces(Nodes(file, busy))
    /\ UNCHANGED <<order, collapsed, overseer, host, hostFolded, orphan>>
    /\ ClampsCursor

-----------------------------------------------------------------------------
(* Keys                                                                    *)

(* The arrows and the mouse.                                               *)
Selects(at) == cursor' = at /\ UNCHANGED <<repos, order, collapsed,
                                           overseer, host, hostFolded, orphan>>

(* set_repo_expanded, and persist_expanded_repos: of the repositories the  *)
(* UI lists at that moment, those whose rows are hidden.                   *)
FoldsRepo(r) ==
    /\ Selected = <<"repo", r>>
    /\ repos' = [repos EXCEPT ![At(repos, r)].expanded = ~@]
    /\ collapsed' = {n.repo : n \in {m \in Range(repos') : ~m.expanded}}
    /\ UNCHANGED <<order, overseer, host, hostFolded, orphan>>
    /\ ClampsCursor

(* set_host_collapsed                                                      *)
FoldsHost ==
    /\ Selected = <<"host">>
    /\ hostFolded' = ~hostFolded
    /\ UNCHANGED <<repos, order, collapsed, overseer, host, orphan>>
    /\ ClampsCursor

(* move_selected_repo: one place up or down among its own, never past      *)
(* their ends; the cursor goes with it.                                    *)
MovesRepo(r, delta) ==
    /\ Selected = <<"repo", r>> /\ r \in Nearby
    /\ LET at == IndexIn(LocalRepos, r)
       IN /\ at + delta \in DOMAIN LocalRepos
          /\ order' = [LocalRepos EXCEPT ![at] = LocalRepos[at + delta],
                                         ![at + delta] = r]
    /\ UNCHANGED <<repos, collapsed, overseer, host, hostFolded, orphan>>
    /\ RestoresCursor

(* UiState::repo_expanded: the flags the file holds, for the repositories  *)
(* the registry holds.  The hosts are polled from scratch.                 *)
ScreenReopens ==
    /\ repos' = LET file == LocalPart(repos)
                IN [i \in DOMAIN file |->
                       [file[i] EXCEPT !.expanded = file[i].repo \notin collapsed]]
    /\ host' = [connection |-> "connecting", published |-> FALSE]
    /\ orphan' = FALSE /\ cursor' = 1
    /\ UNCHANGED <<order, collapsed, overseer, hostFolded>>

ScreenRefreshes ==
    \/ \E shown, alert \in BOOLEAN : AppliesStatus(shown, alert)
    \/ \E found \in (SUBSET Nearby) \ {{}}, busy \in SUBSET Staffed, sessions \in BOOLEAN :
           AppliesDiscovery(found, busy, sessions)
    \/ \E connection \in Connections, published \in BOOLEAN, agent \in {{}, {Remote}} :
           IngestsHost(connection, published, agent)

ScreenWrites == \E file \in Arrangements, busy \in SUBSET Staffed : WritesRegistry(file, busy)

Edits ==
    /\ keys < MaxKeys /\ keys' = keys + 1
    /\ \/ \E r \in Nearby \cup {Remote} : FoldsRepo(r)
       \/ FoldsHost
       \/ \E r \in Nearby, delta \in {-1, 1} : MovesRepo(r, delta)

ScreenMoves == \E at \in DOMAIN Visible : Selects(at)

ScreenStep == Edits \/ ((ScreenRefreshes \/ ScreenWrites \/ ScreenMoves \/ ScreenReopens) /\ UNCHANGED keys)

-----------------------------------------------------------------------------
(* Properties                                                              *)

(* A refresh moves the cursor off no row that is still there, so that the  *)
(* next key goes to what the user last saw under it; an error row stays    *)
(* with its host, once that answers with its control row.  Only a write of *)
(* the registry may, and a restart.                                        *)
CursorHolds ==
    [][~ UNCHANGED <<repos, order, overseer, host, orphan>> =>
          \A was \in {Selected}, rows \in {Visible'} :
              LET heir == IF was = <<"host-error">> /\ was \notin Range(rows)
                          THEN <<"remote-control">> ELSE was
              IN rows[cursor'] = heir \/ heir \notin Range(rows)
                 \/ ScreenWrites \/ ScreenReopens]_screenVars

(* Nothing but the user folds, unfolds or rearranges: of the repositories  *)
(* listed before and after a refresh or a write of the registry, each is   *)
(* folded if it was, and they stand in the order in which they stood.      *)
Expanded(r) == repos[At(repos, r)].expanded
Standing(kept) == SelectSeq(LocalRepos, LAMBDA r : r \in kept)
LayoutKept ==
    [][\/ repos' = repos /\ order' = order
       \/ \A kept \in {Listed(repos) \cap Listed(repos')} :
             /\ \A r \in kept : Expanded(r)' = Expanded(r)
             /\ Standing(kept)' = Standing(kept)
       \/ Edits \/ ScreenReopens]_screenVars

(* What the user sees stays where and as they left it.                     *)
ScreenHolds == CursorHolds /\ LayoutKept

(* A repository saved as collapsed is listed collapsed, a host's as well   *)
(* as a local one.  (Refuted: the rows of a host are gone after a restart, *)
(* or any local write, and what is ingested again starts expanded.)        *)
HostFoldsRestored ==
    Remote \in Listed(repos) /\ Remote \in collapsed => ~Expanded(Remote)

=============================================================================
