--------------------------------- MODULE Launch ---------------------------------
(***************************************************************************)
(* How a worker is started (agent/creation.rs, tmux/launch.rs): worktree,  *)
(* hooks, a tmux session that is probed until it has proved to run where   *)
(* it should, and a row in the registry; and how a row's session is        *)
(* started again without any of that (agent/session.rs).                   *)
(*                                                                         *)
(* A session is addressed by a name made of the repository and the title,  *)
(* sanitised and capped, so that two agents may come to share one, in one  *)
(* repository or in two.  This is the life of one name; every agent here   *)
(* has it.  A tmux command line is one step: the server runs it between    *)
(* two events.  The file the output is tapped to is left out.              *)
(***************************************************************************)
EXTENDS Naturals

CONSTANTS
    Namesakes,   \* agents whose session has the name
    Attempts,    \* LAUNCH_CHECK_ATTEMPTS
    MaxRelaunches,  \* bound: rows restarted or attached, sessions ended by name
    MaxTroubles,    \* bound: commands that fail, panes put elsewhere
    NoNamesake

ASSUME LaunchAssumption ==
    /\ NoNamesake \notin Namesakes
    /\ Attempts \in Nat \ {0}
    /\ {MaxRelaunches, MaxTroubles} \subseteq Nat

VARIABLES
    oneRepo,   \* the namesakes are of one repository, and so of one branch
    stage,     \* [Namesakes -> where a launch, or a row, is]
    checks,    \* [Namesakes -> probes left]
    outcome,   \* [Namesakes -> what verify_launch found]
    trees,     \* whose worktree and branch exist
    tmuxSession,   \* the tmux session of the name
    touched,   \* whose session another ended or changed while it was verified
    relaunches, troubles

launchVars == <<oneRepo, stage, checks, outcome, trees, tmuxSession, touched, relaunches, troubles>>

Verifying == {"dead", "path", "kill", "untap", "unset"}
Stages == {"new", "hooks", "start", "persist", "row", "relaunch", "failed", "unlisted"} \cup Verifying

-----------------------------------------------------------------------------
(* The environment of a session: names of each kind, and where the value   *)
(* a program finds comes from.                                             *)

VarNames == {"id", "parent", "identity", "blocked", "bot", "color"}
Values == {"unset", "empty", "own", "ambient", "terminal", "file", "config"}

AgentEnv(parented) ==
    [n \in {"id"} \cup (IF parented THEN {"parent"} ELSE {}) |-> "own"]

(* SessionEnv::resolve_at: the config over the file, the bot's token never. *)
ChannelWhole(file, config) ==
    [n \in file \cup config |-> IF n \in config THEN "config" ELSE "file"]
Channel(file, config) ==
    [n \in (file \cup config) \ {"bot"} |-> IF n \in config THEN "config" ELSE "file"]

(* autonomous_env: blocked names that robco or the tmux server carry.      *)
BlockedEnv(own, server) == [n \in (own \cup server) \cap {"blocked", "bot"} |-> "empty"]

(* Of two values given for a name the later one stands.                    *)
Prefer(f, g) == [n \in DOMAIN f \cup DOMAIN g |-> IF n \in DOMAIN f THEN f[n] ELSE g[n]]

WorkerEnv(blocked, channel) == Prefer(channel, blocked)

(* new_session_command: identities the server was started with are blanked, *)
(* colours are those of robco's terminal, and what is given comes last.    *)
SessionEnv(given, own, server) ==
    [n \in VarNames |->
       IF n \in DOMAIN given THEN given[n]
       ELSE IF n \in {"id", "parent", "identity"} THEN "empty"
       ELSE IF n = "color" THEN (IF n \in own THEN "terminal" ELSE "unset")
       ELSE IF n \in server THEN "ambient" ELSE "unset"]

(* Every worker has a parent, the Overseer at least.                       *)
ChildEnv == AgentEnv(TRUE)

(* What an autonomous launch may be given.                                 *)
LaunchEnvs ==
    {SessionEnv(Prefer(WorkerEnv(BlockedEnv(own, server), Channel(file, config)), ChildEnv),
                own, server) :
        own \in SUBSET {"blocked", "color"}, server \in SUBSET {"blocked", "bot", "identity"},
        file \in SUBSET {"blocked", "bot"}, config \in SUBSET {"blocked"}}

RelaunchEnvs ==
    {SessionEnv(AgentEnv(parented), own, server) :
        parented \in BOOLEAN, own \in SUBSET {"color"}, server \in SUBSET {"identity", "parent"}}

-----------------------------------------------------------------------------
NoSession == [owner |-> NoNamesake, cwd |-> NoNamesake, runs |-> FALSE, remains |-> FALSE,
              env |-> [n \in VarNames |-> "unset"]]

Named == tmuxSession.owner # NoNamesake

LaunchTypeOK ==
    /\ oneRepo \in BOOLEAN
    /\ stage \in [Namesakes -> Stages]
    /\ checks \in [Namesakes -> 0 .. Attempts]
    /\ outcome \in [Namesakes -> {"none", "ok", "crashed", "wrong cwd"}]
    /\ trees \subseteq Namesakes /\ touched \subseteq Namesakes
    /\ tmuxSession \in [owner : Namesakes \cup {NoNamesake}, cwd : Namesakes \cup {NoNamesake},
                    runs : BOOLEAN, remains : BOOLEAN, env : [VarNames -> Values]]
    /\ relaunches \in 0 .. MaxRelaunches /\ troubles \in 0 .. MaxTroubles

(* A row of the name, if any, whose worktree may have gone since.          *)
LaunchInit ==
    /\ oneRepo \in BOOLEAN
    /\ \E rows \in SUBSET Namesakes :
          /\ \A a, b \in rows : a = b
          /\ stage = [a \in Namesakes |-> IF a \in rows THEN "row" ELSE "new"]
          /\ trees \in SUBSET rows
    /\ checks = [a \in Namesakes |-> Attempts]
    /\ outcome = [a \in Namesakes |-> "none"]
    /\ tmuxSession = NoSession
    /\ touched = {}
    /\ relaunches = 0 /\ troubles = 0

Trouble == troubles < MaxTroubles /\ troubles' = troubles + 1
NoTrouble == UNCHANGED troubles

Enters(a, s) == stage' = [stage EXCEPT ![a] = s]
Finds(a, what) == outcome' = [outcome EXCEPT ![a] = what]

(* tmux kill-session, by name: whoever has it loses it.                    *)
Ends(by) ==
    /\ tmuxSession' = NoSession
    /\ touched' = IF Named /\ tmuxSession.owner # by THEN touched \cup {tmuxSession.owner} ELSE touched

Begins(a, cwd, remains, envs) ==
    \E env \in envs :
       tmuxSession' = [owner |-> a, cwd |-> cwd, runs |-> TRUE, remains |-> remains, env |-> env]

-----------------------------------------------------------------------------
(* create_agent_with_launch.  git refuses a branch that is there already.  *)
AddsWorktree(a) ==
    /\ stage[a] = "new"
    /\ \/ /\ ~(oneRepo /\ trees # {})
          /\ trees' = trees \cup {a} /\ Enters(a, "hooks") /\ NoTrouble
       \/ oneRepo /\ trees # {} /\ Enters(a, "failed") /\ UNCHANGED trees /\ NoTrouble
       \/ Enters(a, "failed") /\ UNCHANGED trees /\ Trouble
    /\ UNCHANGED <<oneRepo, checks, outcome, tmuxSession, touched, relaunches>>

(* A launch that fails from here on leaves the worktree behind.            *)
WritesHooks(a) ==
    /\ stage[a] = "hooks"
    /\ \/ Enters(a, "start") /\ NoTrouble
       \/ Enters(a, "failed") /\ Trouble
    /\ UNCHANGED <<oneRepo, checks, outcome, trees, tmuxSession, touched, relaunches>>

(* The pane stays when its program ends.                                   *)
RemainsUnset == FALSE
Remains == TRUE

(* new_worker_session.  A server whose own directory is gone puts the pane *)
(* anywhere.                                                               *)
StartsSession(a) ==
    /\ stage[a] = "start"
    /\ \/ /\ ~Named
          /\ \/ Begins(a, a, Remains, LaunchEnvs) /\ NoTrouble
             \/ Begins(a, NoNamesake, Remains, LaunchEnvs) /\ Trouble
          /\ Enters(a, "dead")
       \/ Named /\ Enters(a, "failed") /\ UNCHANGED tmuxSession /\ NoTrouble
       \/ Enters(a, "failed") /\ UNCHANGED tmuxSession /\ Trouble
    /\ UNCHANGED <<oneRepo, checks, outcome, trees, touched, relaunches>>

(* A dead pane stays until it is killed.                                   *)
DeathLeaves == "untap"
DeathNext == "kill"

(* probe_pane, first query: nothing answers, the pane is dead, or it lives. *)
AsksDead(a) ==
    /\ stage[a] = "dead"
    /\ \/ ~Named /\ Enters(a, "untap") /\ Finds(a, "crashed") /\ NoTrouble
       \/ Enters(a, "untap") /\ Finds(a, "crashed") /\ Trouble
       \/ Named /\ ~tmuxSession.runs /\ Enters(a, DeathNext) /\ Finds(a, "crashed") /\ NoTrouble
       \/ Named /\ tmuxSession.runs /\ Enters(a, "path") /\ UNCHANGED <<outcome, troubles>>
    /\ UNCHANGED <<oneRepo, checks, trees, tmuxSession, touched, relaunches>>

NeverMisplaced(a) == FALSE
Misplaced(a) == tmuxSession.cwd # a

(* Second query: what does not answer by now, or not with a path, is dead. *)
AsksPath(a) ==
    /\ stage[a] = "path"
    /\ \/ /\ ~tmuxSession.runs /\ Enters(a, "kill") /\ Finds(a, "crashed")
          /\ UNCHANGED <<checks, troubles>>
       \/ Enters(a, "kill") /\ Finds(a, "crashed") /\ UNCHANGED checks /\ Trouble
       \/ /\ Named /\ Misplaced(a)
          /\ Enters(a, "kill") /\ Finds(a, "wrong cwd")
          /\ UNCHANGED <<checks, troubles>>
       \/ /\ Named /\ ~Misplaced(a)
          /\ checks' = [checks EXCEPT ![a] = @ - 1]
          /\ IF checks[a] > 1 THEN Enters(a, "dead") /\ UNCHANGED outcome
             ELSE Enters(a, "untap") /\ Finds(a, "ok")
          /\ NoTrouble
    /\ UNCHANGED <<oneRepo, trees, tmuxSession, touched, relaunches>>

KillsBroken(a) ==
    /\ stage[a] = "kill"
    /\ Enters(a, "untap")
    /\ \/ Ends(a) /\ NoTrouble
       \/ UNCHANGED <<tmuxSession, touched>> /\ Trouble
    /\ UNCHANGED <<oneRepo, checks, outcome, trees, relaunches>>

StopsTap(a) ==
    /\ stage[a] = "untap"
    /\ Enters(a, IF outcome[a] = "ok" THEN "unset" ELSE "failed")
    /\ UNCHANGED <<oneRepo, checks, outcome, trees, tmuxSession, touched, relaunches, troubles>>

(* remain-on-exit off, for the session of the name; a pane that is dead by *)
(* now stays.                                                              *)
UnsetsRemain(a) ==
    /\ stage[a] = "unset"
    /\ Enters(a, "persist")
    /\ \/ /\ tmuxSession' = [tmuxSession EXCEPT !.remains = FALSE]
          /\ touched' = IF Named /\ tmuxSession.owner # a THEN touched \cup {tmuxSession.owner} ELSE touched
          /\ NoTrouble
       \/ UNCHANGED <<tmuxSession, touched>> /\ Trouble
    /\ UNCHANGED <<oneRepo, checks, outcome, trees, relaunches>>

(* persist_child fails when the repository was removed in between.         *)
PersistsRow(a) ==
    /\ stage[a] = "persist"
    /\ \/ Enters(a, "row") /\ NoTrouble
       \/ Enters(a, "unlisted") /\ Trouble
    /\ UNCHANGED <<oneRepo, checks, outcome, trees, tmuxSession, touched, relaunches>>

-----------------------------------------------------------------------------
(* The session meanwhile                                                   *)

ProgramExits ==
    /\ Named /\ tmuxSession.runs
    /\ tmuxSession' = IF tmuxSession.remains THEN [tmuxSession EXCEPT !.runs = FALSE] ELSE NoSession
    /\ UNCHANGED <<oneRepo, stage, checks, outcome, trees, touched, relaunches, troubles>>

Again == relaunches < MaxRelaunches /\ relaunches' = relaunches + 1

(* A row is killed, or somebody types kill-session.                        *)
EndedByName ==
    /\ Named /\ Again
    /\ Ends(NoNamesake)
    /\ UNCHANGED <<oneRepo, stage, checks, outcome, trees, troubles>>

(* restart_agent.                                                          *)
Restarts(a) ==
    /\ stage[a] = "row" /\ Again
    /\ Enters(a, "relaunch")
    /\ Ends(a)
    /\ UNCHANGED <<oneRepo, checks, outcome, trees, troubles>>

(* ensure_agent_session: a session that is there is the row's.             *)
Ensures(a) ==
    /\ stage[a] = "row" /\ ~Named /\ Again
    /\ Enters(a, "relaunch")
    /\ UNCHANGED <<oneRepo, checks, outcome, trees, tmuxSession, touched, troubles>>

(* new_session, which is not verified; a name that was taken since is an   *)
(* error.                                                                  *)
Relaunches(a) ==
    /\ stage[a] = "relaunch"
    /\ Enters(a, "row")
    /\ IF Named THEN UNCHANGED tmuxSession
       ELSE Begins(a, IF a \in trees THEN a ELSE NoNamesake, FALSE, RelaunchEnvs)
    /\ UNCHANGED <<oneRepo, checks, outcome, trees, touched, relaunches, troubles>>

-----------------------------------------------------------------------------
Launches(a) ==
    \/ AddsWorktree(a) \/ WritesHooks(a) \/ StartsSession(a) \/ AsksDead(a) \/ AsksPath(a)
    \/ KillsBroken(a) \/ StopsTap(a) \/ UnsetsRemain(a) \/ PersistsRow(a)

LaunchStep ==
    \/ \E a \in Namesakes : Launches(a) \/ Restarts(a) \/ Ensures(a) \/ Relaunches(a)
    \/ ProgramExits \/ EndedByName

LaunchSpec == LaunchInit /\ [][LaunchStep]_launchVars

-----------------------------------------------------------------------------
(* Properties *)

(* The name is a launch's own from the moment its session is created until *)
(* it is judged, whatever its program does, unless another ended it: a     *)
(* launch that is found good is good, not mistaken for a namesake's.       *)
GoodIsOwn ==
    \A a \in Namesakes :
       /\ stage[a] \in {"untap", "unset"} /\ outcome[a] = "ok"
       /\ a \notin touched
       => tmuxSession.owner = a /\ tmuxSession.cwd = a

(* A launch that fails takes no session with it but its own, unless its    *)
(* own was taken from it while it looked.                                  *)
SparesOthers ==
    [][\A a \in Namesakes :
          stage[a] = "kill" /\ stage'[a] # "kill" /\ tmuxSession' # tmuxSession
            => tmuxSession.owner = a \/ a \in touched]_launchVars

(* A launch that reported a failure left no session behind, unless a tmux  *)
(* command failed.                                                         *)
NoStray ==
    \A a \in Namesakes :
       stage[a] = "failed" /\ troubles = 0 => tmuxSession.owner # a

(* However it was started, a session has its own identity and none that    *)
(* the tmux server was started with; a launched one has no ambient value   *)
(* of a name the operator blocked, and never the bot's from the channel.   *)
EnvRight ==
    Named => /\ tmuxSession.env["id"] = "own" /\ tmuxSession.env["identity"] = "empty"
             /\ tmuxSession.env["parent"] \in {"own", "empty"}
             /\ tmuxSession.env["color"] # "ambient"
             /\ tmuxSession.env["bot"] \notin {"file", "config"}
             /\ stage[tmuxSession.owner] \in Verifying => tmuxSession.env["blocked"] # "ambient"

LaunchSafe == SparesOthers /\ [][GoodIsOwn' /\ NoStray' /\ EnvRight']_launchVars

=================================================================================
