--------------------------------- MODULE Watch ---------------------------------
(***************************************************************************)
(* The daemon's periodic looks at one watched repository: the health watch *)
(* that files a task on its dropr board for advisories and for stale       *)
(* Dependabot pull requests (overseer/daemon/repo_watch*.rs), and the list *)
(* of pull requests nobody here dispatched (overseer/daemon/               *)
(* external_prs.rs).  Each keeps one cache file; what has been filed is    *)
(* told from the board alone.                                              *)
(*                                                                         *)
(* A tool finds its one advisory, or gh its one stale pull request, while  *)
(* that stands.  The marker of a task is what was found, told apart from   *)
(* any other set by its sorted ids.                                        *)
(***************************************************************************)
EXTENDS Naturals, FiniteSetsExt

CONSTANTS
    Window,      \* TASK_FETCH_LIMIT, in open tasks
    MaxCrowd,    \* bound: open tasks that are none of the watch's
    MaxSame,     \* bound: open tasks of one marker that are counted
    Elsewhere,   \* branches whose pull requests others may open
    MaxLosses,   \* bound: crashes, lost files, calls that fail
    MaxShifts    \* bound: pull requests and repositories that come and go

ASSUME WatchAssumption ==
    /\ Window \in Nat \ {0}
    /\ {MaxCrowd, MaxSame, MaxLosses, MaxShifts} \subseteq Nat

VARIABLES
    standing,  \* what bun audit, govulncheck and gh would find now
    installed, \* whether govulncheck is on PATH
    open,      \* [Markers -> open tasks whose title has the marker]
    crowd,     \* open tasks besides
    crowded,   \* whether a filing ever came about behind more than a window
    look,      \* watch_pass: where it is, what it found, RepoWatchState
    watchFile, \* repo_watch.json: [checked, noticed]
    notices,   \* notices of the missing tool since one was last saved
    enrolled,  \* whether the registry lists the repository under this path
    pulls,     \* open pull requests on GitHub
    ours,      \* branches the ledger says Overseer dispatched
    others,    \* other_prs.json: [polled, prs]
    losses, shifts

healthVars == <<standing, installed, open, crowd, crowded, look, watchFile, notices>>
pullVars == <<pulls, ours, others>>
watchVars == <<healthVars, pullVars, enrolled, losses, shifts>>

Advisors == {"bun", "govulncheck"}
Finders == Advisors \cup {"gh"}
Markers == ((SUBSET Advisors) \cup {{"gh"}}) \ {{}}

Unwatched == [checked |-> FALSE, noticed |-> FALSE]
Unlooked == [at |-> "idle", found |-> {}, checked |-> FALSE, noticed |-> FALSE]
LookSteps == {"idle", "bun", "govulncheck", "advisory", "gh", "dependabot", "save"}
Unpolled == [polled |-> FALSE, prs |-> {}]

WatchTypeOK ==
    /\ standing \subseteq Finders /\ installed \in BOOLEAN
    /\ open \in [Markers -> 0 .. MaxSame] /\ crowd \in 0 .. MaxCrowd /\ crowded \in BOOLEAN
    /\ look \in [at : LookSteps, found : SUBSET Finders, checked : BOOLEAN,
                 noticed : BOOLEAN]
    /\ watchFile \in [checked : BOOLEAN, noticed : BOOLEAN]
    /\ notices \in Nat /\ enrolled \in BOOLEAN
    /\ pulls \subseteq Elsewhere /\ ours \subseteq Elsewhere
    /\ others \in [polled : BOOLEAN, prs : SUBSET Elsewhere]
    /\ losses \in 0 .. MaxLosses /\ shifts \in 0 .. MaxShifts

WatchInit ==
    /\ standing = {} /\ installed \in BOOLEAN
    /\ open = [m \in Markers |-> 0] /\ crowd = 0 /\ crowded = FALSE
    /\ look = Unlooked /\ watchFile = Unwatched /\ notices = 0
    /\ enrolled = TRUE
    /\ pulls = {} /\ ours = {} /\ others = Unpolled
    /\ losses = 0 /\ shifts = 0

Loses == losses < MaxLosses /\ losses' = losses + 1 /\ UNCHANGED shifts
Shifts == shifts < MaxShifts /\ shifts' = shifts + 1 /\ UNCHANGED losses
Counted == UNCHANGED <<losses, shifts>>

-----------------------------------------------------------------------------
(* The world                                                               *)

ConditionTurns ==
    /\ \E s \in Finders :
          standing' = IF s \in standing THEN standing \ {s} ELSE standing \cup {s}
    /\ UNCHANGED <<installed, open, crowd, crowded, look, watchFile, notices, enrolled,
                   pullVars>> /\ Counted

(* A worker or a person closes a task; another task is published.          *)
TaskCloses ==
    /\ \E m \in Markers : open[m] > 0 /\ open' = [open EXCEPT ![m] = @ - 1]
    /\ UNCHANGED <<standing, installed, crowd, crowded, look, watchFile, notices,
                   enrolled, pullVars>> /\ Counted

CrowdTurns ==
    /\ crowd' \in 0 .. MaxCrowd /\ crowd' # crowd /\ Shifts
    /\ UNCHANGED <<standing, installed, open, crowded, look, watchFile, notices,
                   enrolled, pullVars>>

PullTurns ==
    /\ Shifts
    /\ \E b \in Elsewhere :
          \/ pulls' = (IF b \in pulls THEN pulls \ {b} ELSE pulls \cup {b})
             /\ UNCHANGED ours
          \/ ours' = (IF b \in ours THEN ours \ {b} ELSE ours \cup {b})
             /\ UNCHANGED pulls
    /\ UNCHANGED <<healthVars, enrolled, others>>

(* Removed, or renamed, and back under its path.                           *)
EnrolmentTurns ==
    /\ Shifts
    /\ enrolled' = ~enrolled
    /\ UNCHANGED <<healthVars, pullVars>>

-----------------------------------------------------------------------------
(* The health watch                                                        *)

Looks(at) == look.at = at
LookGoes(at) == look' = [look EXCEPT !.at = at]
Aside == UNCHANGED <<standing, installed, crowd, enrolled, pullVars>>

(* RepoWatchState::load, and a repository that is due.  A corrupt file     *)
(* counts as none.                                                         *)
PassBegins ==
    /\ Looks("idle") /\ enrolled
    /\ \/ ~watchFile.checked /\ Counted
          /\ look' = [Unlooked EXCEPT !.at = "bun", !.noticed = watchFile.noticed]
       \/ Loses /\ look' = [Unlooked EXCEPT !.at = "bun"]
    /\ UNCHANGED <<open, crowded, watchFile, notices>> /\ Aside

(* repo_watch_interval_hours                                               *)
IntervalPasses ==
    /\ Looks("idle") /\ watchFile.checked
    /\ watchFile' = [watchFile EXCEPT !.checked = FALSE]
    /\ UNCHANGED <<open, crowded, look, notices>> /\ Aside /\ Counted

(* probe_bun_audit: an answer, or a failure that finds nothing.            *)
ProbesBun ==
    /\ Looks("bun")
    /\ \/ look' = [look EXCEPT !.at = "govulncheck", !.found = standing \cap {"bun"}]
          /\ Counted
       \/ LookGoes("govulncheck") /\ Loses
    /\ UNCHANGED <<open, crowded, watchFile, notices>> /\ Aside

(* probe_govulncheck, and note_missing_tool: told once, which the state    *)
(* remembers even if its line could not be written, in which case nothing  *)
(* that was found is filed either.                                         *)
ProbesGo ==
    /\ Looks("govulncheck")
    /\ \/ installed /\ Counted /\ UNCHANGED notices
          /\ look' = [look EXCEPT !.at = "advisory",
                                  !.found = @ \cup (standing \cap {"govulncheck"})]
       \/ installed /\ Loses /\ UNCHANGED notices /\ LookGoes("advisory")
       \/ /\ ~installed /\ Counted
          /\ notices' = IF look.noticed THEN notices ELSE notices + 1
          /\ look' = [look EXCEPT !.at = "advisory", !.noticed = TRUE]
       \/ ~installed /\ ~look.noticed /\ Loses /\ UNCHANGED notices
          /\ look' = [look EXCEPT !.at = "gh", !.noticed = TRUE, !.found = {}]
    /\ UNCHANGED <<open, crowded, watchFile>> /\ Aside

(* Mutant: one task for the repository, whatever it was filed for.         *)
AnyMarker(found) == {m \in Markers : (m = {"gh"}) = (found = {"gh"})}

(* The tasks a title with the marker of what was found would repeat.       *)
Matching(found) == {found}

OpenTasks == crowd + MapThenSumSet(LAMBDA m : open[m], Markers)

(* Mutant: a board that did not answer has no such task.                   *)
AnswersOrNot(found) == {FALSE} \cup {\E m \in Matching(found) : open[m] > 0}

(* already_open: what a board that answers may say.  It lists no more open *)
(* tasks than a window.                                                    *)
BoardAnswers(found) ==
    LET there == \E m \in Matching(found) : open[m] > 0
    IN {there} \cup (IF OpenTasks > Window THEN {FALSE} ELSE {})

(* file_if_found and repo_watch_dependabot::run.  A task_create that fails *)
(* may have made the task; whether its line reaches the decision log makes *)
(* no difference to the watch.                                             *)
FilesTask(found, next) ==
    /\ look' = [look EXCEPT !.at = next, !.found = {}]
    /\ \/ found = {} /\ Counted /\ UNCHANGED <<open, crowded>>
       \/ found # {} /\ TRUE \in BoardAnswers(found) /\ Counted
          /\ UNCHANGED <<open, crowded>>
       \/ found # {} /\ FALSE \in BoardAnswers(found) /\ Counted
          /\ open' = [open EXCEPT ![found] = IF @ < MaxSame THEN @ + 1 ELSE @]
          /\ crowded' = (crowded \/ OpenTasks > Window)
       \/ Loses /\ UNCHANGED <<open, crowded>>

FilesAdvisory ==
    /\ Looks("advisory") /\ FilesTask(look.found, "gh")
    /\ UNCHANGED <<watchFile, notices>> /\ Aside

FilesDependabot ==
    /\ Looks("gh") /\ FilesTask(standing \cap {"gh"}, "save")
    /\ UNCHANGED <<watchFile, notices>> /\ Aside

(* Mutant: what was noticed is not kept.                                   *)
SavedWithoutNotice == [checked |-> TRUE, noticed |-> FALSE]

Saved == [checked |-> TRUE, noticed |-> look.noticed]

SavesLook ==
    /\ Looks("save")
    /\ \/ watchFile' = Saved /\ Counted
       \/ UNCHANGED watchFile /\ Loses
    /\ look' = Unlooked
    /\ UNCHANGED <<open, crowded, notices>> /\ Aside

(* prune_unregistered, in a pass that has nothing to watch.                *)
ForgetsLook ==
    /\ Looks("idle") /\ ~enrolled /\ watchFile.checked
    /\ watchFile' = [watchFile EXCEPT !.checked = FALSE]
    /\ UNCHANGED <<open, crowded, look, notices>> /\ Aside /\ Counted

(* The daemon dies in a pass; its caches are as they were.                 *)
WatchDies ==
    /\ ~Looks("idle") /\ Loses
    /\ look' = Unlooked
    /\ UNCHANGED <<open, crowded, watchFile, notices>> /\ Aside

Watches ==
    \/ PassBegins \/ ProbesBun \/ ProbesGo \/ FilesAdvisory \/ FilesDependabot
    \/ SavesLook \/ ForgetsLook

-----------------------------------------------------------------------------
(* The pull requests of others                                             *)

(* Mutant: whatever was polled is dropped, as a renamed repository's is.   *)
KeptNever(cache) == Unpolled

(* prune_unregistered                                                      *)
Kept(cache) == IF enrolled THEN cache ELSE Unpolled

(* refresh_pass: a list that cannot be read leaves the last one, and its   *)
(* age; one that was read leaves out what the ledger dispatched.           *)
ListsPulls ==
    /\ \/ enrolled /\ ~others.polled /\ Counted
          /\ others' = Kept([polled |-> TRUE, prs |-> pulls \ ours])
       \/ enrolled /\ ~others.polled /\ Loses /\ others' = Kept(others)
       \/ ~enrolled /\ others # Unpolled /\ Counted /\ others' = Kept(others)
    /\ UNCHANGED <<healthVars, enrolled, pulls, ours>>

(* REFRESH_INTERVAL                                                        *)
ListAges ==
    /\ others.polled
    /\ others' = [others EXCEPT !.polled = FALSE]
    /\ UNCHANGED <<healthVars, enrolled, pulls, ours>> /\ Counted

-----------------------------------------------------------------------------

(* The two passes have nothing in common but the registry.                 *)
HealthStep ==
    \/ ConditionTurns \/ TaskCloses \/ CrowdTurns \/ EnrolmentTurns
    \/ Watches \/ IntervalPasses \/ WatchDies

PullStep == PullTurns \/ EnrolmentTurns \/ ListsPulls \/ ListAges

(* Both run at every tick of the daemon, and time goes on.                 *)
HealthFairness == WF_watchVars(Watches) /\ WF_watchVars(IntervalPasses)
PullFairness == WF_watchVars(ListsPulls) /\ WF_watchVars(ListAges)

WatchSpec ==
    /\ WatchInit /\ [][HealthStep \/ PullStep]_watchVars
    /\ HealthFairness /\ PullFairness

-----------------------------------------------------------------------------
(* Properties                                                              *)

(* repo_watch_task.rs:20-23: "a restart or a lost state file can never     *)
(* cause a duplicate": no condition has two open tasks, over crashes, lost *)
(* caches and calls that fail, as long as every filing saw the whole       *)
(* board; and the missing tool is told once, or once more for every time   *)
(* the notice was lost.                                                    *)
FiledOnce ==
    /\ crowded \/ \A m \in Markers : open[m] <= 1
    /\ notices <= 1 + losses

(* What stands comes to be the subject of an open task, or ends; whatever  *)
(* else is open on the board by then.                                      *)
Reachable(s) == s \in standing /\ (s # "govulncheck" \/ installed) /\ enrolled
ConditionsFiled ==
    \A s \in Finders :
        Reachable(s) ~> (~Reachable(s) \/ \E m \in Markers : s \in m /\ open[m] > 0)

(* The list of what others have open, and Overseer did not dispatch, is    *)
(* again and again the present one, after failures and renames.            *)
OthersCurrent == []<>(enrolled => others.prs = pulls \ ours)

(* The watch and the list of other pull requests keep up with the world.   *)
WatchKeepsUp == ConditionsFiled /\ OthersCurrent

=============================================================================
