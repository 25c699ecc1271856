-------------------------------- MODULE Service --------------------------------
(***************************************************************************)
(* The daemon as a process: the guard on its pid file (overseer/exec/      *)
(* pid.rs), its passes and the signals it waits on between them            *)
(* (daemon.rs, wake.rs), the bell a request rings, launchd, which keeps a  *)
(* loaded job alive, and the commands that stop, start, restart and        *)
(* install it from the command line, the UI or the wizard                  *)
(* (overseer/command*, setup/wizard/steps_service).                        *)
(*                                                                         *)
(* A wait of so many polls either sees what it waits for or gives up, at   *)
(* any time.  launchd is outside: `bootout` is accepted, the job told, and *)
(* its label leaves some time later, before or after the process does.     *)
(***************************************************************************)
EXTENDS Naturals

CONSTANTS
    Pids,         \* process ids; one is used again once nothing names it
    Callers,      \* who runs commands: the UI, a shell
    SlowProbes,   \* kill -0 may time out on a live process
    MaxCommands,  \* bound: commands, daemons started by hand, requests
    MaxMishaps,   \* bound: daemons killed; probes, passes and commands that fail
    NoPid

ASSUME ServiceAssumption ==
    /\ NoPid \notin Pids
    /\ SlowProbes \in BOOLEAN
    /\ {MaxCommands, MaxMishaps} \subseteq Nat

VARIABLES
    at,       \* [Pids -> where a process is]
    terms,    \* daemons whose SIGTERM waits to be read
    bells,    \* daemons whose SIGURG does
    byHand,   \* daemons that launchd did not start
    pidfile,  \* the pid it names, if any
    guardLock,  \* who has overseer.pid.lock
    launchd,  \* the plist, the label and the process of its job
    callers,  \* [Callers -> the command each runs]
    request,  \* requests not drained, one on its way to ring, who heard it
    downed,   \* a stop of the service succeeded and no command began since
    commands, mishaps

processes == <<at, terms, bells, byHand, pidfile, guardLock>>
counts == <<commands, mishaps>>
serviceVars == <<processes, launchd, callers, request, downed, counts>>

Unarmed == {"start", "checked", "removed", "setup"}   \* no handlers yet
Armed == {"top", "pass", "wait", "hold"}
Acting == {"setup", "closing"} \cup Armed
Places == {"dead", "exiting"} \cup Unarmed \cup Acting

(* Whoever is past PidGuard::acquire and has not dropped its guard.        *)
Owners == {p \in Pids : at[p] \in Acting}

Alive(p) == p \in Pids /\ at[p] # "dead"

Ended(word) == [cmd |-> "none", at |-> "idle", first |-> NoPid, seen |-> NoPid,
               gone |-> FALSE, alone |-> FALSE, said |-> word]

Orderable == {"stop", "start", "restart", "install"}
CommandSteps == {"idle", "probe", "first", "seen", "teardown", "settle", "await",
                 "write", "rewrite", "load", "confirm", "verify", "manual", "signal", "watch"}
Words == {"", "error", "stopped", "not running", "still shutting down", "started",
          "already running", "restarted", "not installed", "loaded", "written",
          "left as is"}

ServiceTypeOK ==
    /\ at \in [Pids -> Places]
    /\ terms \subseteq Pids /\ bells \subseteq Pids /\ byHand \subseteq Pids
    /\ pidfile \in Pids \cup {NoPid} /\ guardLock \in Pids \cup {NoPid}
    /\ launchd \in [plist : BOOLEAN, label : {"absent", "loaded", "leaving"},
                    job : Pids \cup {NoPid}]
    /\ callers \in [Callers -> [cmd : {"none"} \cup Orderable, at : CommandSteps,
                                first : Pids \cup {NoPid}, seen : Pids \cup {NoPid},
                                gone : BOOLEAN, alone : BOOLEAN, said : Words]]
    /\ request \in [queued : BOOLEAN, ringing : BOOLEAN, heard : Pids \cup {NoPid}]
    /\ downed \in BOOLEAN
    /\ commands \in 0 .. MaxCommands /\ mishaps \in 0 .. MaxMishaps

ServiceInit ==
    /\ at = [p \in Pids |-> "dead"]
    /\ terms = {} /\ bells = {} /\ byHand = {}
    /\ pidfile = NoPid /\ guardLock = NoPid
    /\ launchd \in [plist : BOOLEAN, label : {"absent", "loaded"}, job : {NoPid}]
    /\ launchd.label = "loaded" => launchd.plist
    /\ callers = [c \in Callers |-> Ended("")]
    /\ request = [queued |-> FALSE, ringing |-> FALSE, heard |-> NoPid]
    /\ downed = FALSE
    /\ commands = 0 /\ mishaps = 0

Costs == commands < MaxCommands /\ commands' = commands + 1 /\ UNCHANGED mishaps
Mishap == mishaps < MaxMishaps /\ mishaps' = mishaps + 1 /\ UNCHANGED commands

-----------------------------------------------------------------------------
(* The daemon *)

Goes(p, place) == at' = [at EXCEPT ![p] = place]

(* Only pids that nothing names come back, whichever of them.              *)
Nameless ==
    {p \in Pids : /\ at[p] = "dead" /\ p \notin {pidfile, launchd.job}
                  /\ \A c \in Callers : p \notin {callers[c].first, callers[c].seen}}

Free(p) == p \in Nameless /\ p = CHOOSE q \in Nameless : TRUE

(* KeepAlive: launchd starts the job of a loaded label whenever it is not  *)
(* running.                                                                *)
Respawn(p) ==
    /\ launchd.label = "loaded" /\ ~Alive(launchd.job)
    /\ Free(p)
    /\ Goes(p, "start")
    /\ byHand' = byHand \ {p}
    /\ launchd' = [launchd EXCEPT !.job = p]
    /\ UNCHANGED <<terms, bells, pidfile, guardLock, callers, request, downed, counts>>

(* robco daemon, in the foreground.                                        *)
RunByHand(p) ==
    /\ Free(p)
    /\ Costs
    /\ Goes(p, "start")
    /\ byHand' = byHand \cup {p}
    /\ UNCHANGED <<terms, bells, pidfile, guardLock, launchd, callers, request, downed>>

(* PidGuard::acquire, under the lock: whom the file names, and whether     *)
(* that process lives.                                                     *)
NamesAnybody == pidfile # NoPid
NamesJob == Alive(pidfile) /\ pidfile = launchd.job
NamesLiving == Alive(pidfile)

Acquire(p) ==
    /\ at[p] = "start" /\ guardLock = NoPid
    /\ \/ NamesLiving /\ Goes(p, "dead") /\ UNCHANGED guardLock
       \/ /\ ~NamesLiving \/ SlowProbes
          /\ Goes(p, "checked") /\ guardLock' = p
    /\ UNCHANGED <<terms, bells, byHand, pidfile, launchd, callers, request, downed, counts>>

(* The old file goes, then its own is written, and the lock is let go.     *)
Removes(p) ==
    /\ at[p] = "checked"
    /\ pidfile' = NoPid
    /\ Goes(p, "removed")
    /\ UNCHANGED <<terms, bells, byHand, guardLock, launchd, callers, request, downed, counts>>

Writes(p) ==
    /\ at[p] = "removed"
    /\ pidfile' = p
    /\ guardLock' = NoPid
    /\ Goes(p, "setup")
    /\ UNCHANGED <<terms, bells, byHand, launchd, callers, request, downed, counts>>

(* Whatever run_daemon loads before its loop may fail; Signals::install is *)
(* the last of it.                                                         *)
SetsUp(p) ==
    /\ at[p] = "setup"
    /\ \/ Goes(p, "top") /\ UNCHANGED counts
       \/ Goes(p, "closing") /\ Mishap
    /\ UNCHANGED <<terms, bells, byHand, pidfile, guardLock, launchd, callers, request, downed>>

(* The top of a pass drains the requests; a drain that fails leaves them.  *)
Drains(p) ==
    /\ at[p] = "top"
    /\ Goes(p, "pass")
    /\ \/ request' = [request EXCEPT !.queued = FALSE, !.heard = NoPid] /\ UNCHANGED counts
       \/ request' = [request EXCEPT !.heard = NoPid] /\ Mishap
    /\ UNCHANGED <<terms, bells, byHand, pidfile, guardLock, launchd, callers, downed>>

(* Signals registered for each wait.                                       *)
EndsPassDeaf(p) ==
    /\ at[p] = "pass"
    /\ Goes(p, "wait")
    /\ bells' = bells \ {p}
    /\ UNCHANGED <<terms, byHand, pidfile, guardLock, launchd, callers, request, downed, counts>>

(* A pass that fails ends the daemon.                                      *)
EndsPass(p) ==
    /\ at[p] = "pass"
    /\ \/ Goes(p, "wait") /\ UNCHANGED counts
       \/ Goes(p, "closing") /\ Mishap
    /\ UNCHANGED <<terms, bells, byHand, pidfile, guardLock, launchd, callers, request, downed>>

(* wait_for_next_pass takes whichever is ready: the interval, a bell (held *)
(* until passes are MIN_PASS_INTERVAL apart), or the end.                  *)
Waits(p) ==
    /\ at[p] = "wait"
    /\ \/ Goes(p, "top") /\ UNCHANGED bells
       \/ p \in bells /\ bells' = bells \ {p} /\ (Goes(p, "top") \/ Goes(p, "hold"))
    /\ UNCHANGED <<terms, byHand, pidfile, guardLock, launchd, callers, request, downed, counts>>

(* settle: deaf to bells, which stay.                                      *)
HoldsOff(p) ==
    /\ at[p] = "hold"
    /\ Goes(p, "top")
    /\ UNCHANGED <<terms, bells, byHand, pidfile, guardLock, launchd, callers, request, downed, counts>>

Shutdown(p) ==
    /\ at[p] \in {"wait", "hold"} /\ p \in terms
    /\ Goes(p, "closing")
    /\ UNCHANGED <<terms, bells, byHand, pidfile, guardLock, launchd, callers, request, downed, counts>>

(* The guard is dropped: whatever file is there goes.                      *)
DropGuard(p) ==
    /\ at[p] = "closing"
    /\ pidfile' = NoPid
    /\ Goes(p, "exiting")
    /\ UNCHANGED <<terms, bells, byHand, guardLock, launchd, callers, request, downed, counts>>

Dies(p) ==
    /\ Goes(p, "dead")
    /\ terms' = terms \ {p} /\ bells' = bells \ {p} /\ byHand' = byHand \ {p}
    /\ guardLock' = IF guardLock = p THEN NoPid ELSE guardLock
    /\ request' = [request EXCEPT !.heard = IF @ = p THEN NoPid ELSE @]
    /\ UNCHANGED <<pidfile, launchd, callers, downed>>

Exits(p) == at[p] = "exiting" /\ Dies(p) /\ UNCHANGED counts

(* A daemon that is killed leaves its file.                                *)
Killed(p) == Alive(p) /\ Dies(p) /\ Mishap

(* SIGTERM ends a process without handlers at once; another reads it when  *)
(* it waits.                                                               *)
SendTerm(some) ==
    /\ at' = [p \in Pids |-> IF p \in some /\ at[p] \in Unarmed THEN "dead" ELSE at[p]]
    /\ terms' = terms \cup {p \in some : p \in Pids /\ at[p] \in Armed}
    /\ guardLock' = IF guardLock \in some THEN NoPid ELSE guardLock
    /\ UNCHANGED <<bells, byHand, pidfile>>

-----------------------------------------------------------------------------
(* Requests and their bell *)

Enqueue ==
    /\ ~request.ringing
    /\ Costs
    /\ request' = [request EXCEPT !.queued = TRUE, !.ringing = TRUE]
    /\ UNCHANGED <<processes, launchd, callers, downed>>

(* notify_daemon: SIGURG to the pid in the file, which ignores it unless   *)
(* it has handlers.                                                        *)
Ring ==
    /\ request.ringing
    /\ LET heard == Alive(pidfile) /\ at[pidfile] \in Armed
       IN /\ bells' = IF heard THEN bells \cup {pidfile} ELSE bells
          /\ request' = [request EXCEPT !.ringing = FALSE,
                            !.heard = IF heard /\ request.queued THEN pidfile ELSE @]
    /\ UNCHANGED <<at, terms, byHand, pidfile, guardLock, launchd, callers, downed, counts>>

-----------------------------------------------------------------------------
(* Commands *)

Orders(c, cmd) ==
    /\ callers[c].at = "idle"
    /\ Costs
    /\ callers' = [d \in Callers |->
          IF d = c THEN [Ended("") EXCEPT !.cmd = cmd, !.at = "probe",
                            !.alone = \A e \in Callers \ {c} : callers[e].at = "idle"]
                   ELSE [callers[d] EXCEPT !.alone = FALSE]]
    /\ downed' = FALSE
    /\ UNCHANGED <<processes, launchd, request>>

Doing(c, place) == callers[c].at = place
Turn(c, place) == callers' = [callers EXCEPT ![c].at = place]
Says(c, word) == callers' = [callers EXCEPT ![c] = Ended(word)]

(* probe::run: a probe that fails reads "unloaded".                        *)
State ==
    IF ~launchd.plist THEN "not installed"
    ELSE IF launchd.label = "absent" THEN "unloaded" ELSE "loaded"

(* stop: through launchd while it has the label, by the pid file otherwise. *)
StopsBy(state) == IF state = "loaded" THEN "seen" ELSE "manual"

(* The wizard and `service install`: the operator declines, or the plist    *)
(* is written, for a reload if the service is loaded.                      *)
Installs(c, state) ==
    \/ Says(c, "left as is")
    \/ Turn(c, IF state = "loaded" THEN "rewrite" ELSE "write")

Chooses(c, state) ==
    LET cmd == callers[c].cmd IN
    \/ cmd = "stop" /\ Turn(c, StopsBy(state))
    \/ /\ cmd \in {"start", "restart"} /\ state = "not installed"
       /\ Says(c, "not installed")
    \/ /\ cmd \in {"start", "restart"} /\ state = "unloaded"
       /\ callers' = [callers EXCEPT ![c].cmd = "start", ![c].at = "load"]
    \/ cmd = "start" /\ state = "loaded" /\ Says(c, "already running")
    \/ cmd = "restart" /\ state = "loaded" /\ Turn(c, "first")
    \/ cmd = "install" /\ Installs(c, state)

Probe(c) ==
    /\ Doing(c, "probe")
    /\ \/ Chooses(c, State) /\ UNCHANGED counts
       \/ Chooses(c, "unloaded") /\ Mishap
    /\ UNCHANGED <<processes, launchd, request, downed>>

(* control::restart reads the pid file, and then bootout does.             *)
ReadsFirst(c) ==
    /\ Doing(c, "first")
    /\ callers' = [callers EXCEPT ![c].at = "seen", ![c].first = pidfile]
    /\ UNCHANGED <<processes, launchd, request, downed, counts>>

ReadsSeen(c) ==
    /\ Doing(c, "seen")
    /\ callers' = [callers EXCEPT ![c].at = "teardown", ![c].seen = pidfile]
    /\ UNCHANGED <<processes, launchd, request, downed, counts>>

(* launchctl bootout; a label that is not there is none to take out.       *)
Teardown(c) ==
    /\ Doing(c, "teardown")
    /\ IF launchd.label = "loaded"
       THEN SendTerm({launchd.job}) /\ launchd' = [launchd EXCEPT !.label = "leaving"]
       ELSE UNCHANGED <<processes, launchd>>
    /\ Turn(c, "settle")
    /\ UNCHANGED <<request, downed, counts>>

(* launchd's own time.                                                     *)
Leaves ==
    /\ launchd.label = "leaving"
    /\ launchd' = [launchd EXCEPT !.label = "absent", !.job = NoPid]
    /\ UNCHANGED <<processes, callers, request, downed, counts>>

(* wait_for_bootout.  A reload of the installer waits for no process.      *)
Settle(c) ==
    /\ Doing(c, "settle")
    /\ \/ /\ launchd.label = "absent"
          /\ IF callers[c].cmd = "install" THEN Turn(c, "load")
             ELSE callers' = [callers EXCEPT ![c].at = "await", ![c].gone = TRUE]
       \/ IF callers[c].cmd = "install" THEN Says(c, "error") ELSE Turn(c, "await")
    /\ UNCHANGED <<processes, launchd, request, downed, counts>>

(* wait_for_pid_exit, and what bootout makes of both waits.                *)
LabelGone(c) == callers[c].gone
PidGone(c) == ~Alive(callers[c].seen)
Stopped(c) == callers[c].gone /\ (~Alive(callers[c].seen) \/ SlowProbes)

Await(c) ==
    /\ Doing(c, "await")
    /\ \/ /\ Stopped(c)
          /\ IF callers[c].cmd = "stop"
             THEN Says(c, "stopped") /\ downed' = callers[c].alone
             ELSE Turn(c, "load") /\ UNCHANGED downed
       \/ /\ Says(c, IF callers[c].cmd = "stop" THEN "still shutting down" ELSE "error")
          /\ UNCHANGED downed
    /\ UNCHANGED <<processes, launchd, request, counts>>

(* A plan that is not executed, for the operator's choice or a token to    *)
(* set first, only prints the commands.                                    *)
Executes(c) ==
    \/ Says(c, "written")
    \/ Turn(c, IF Doing(c, "write") THEN "load" ELSE "teardown")

(* write_service_plist, by what the probe said.                            *)
WritesPlist(c) ==
    /\ Doing(c, "write") \/ Doing(c, "rewrite")
    /\ launchd' = [launchd EXCEPT !.plist = TRUE]
    /\ Executes(c)
    /\ UNCHANGED <<processes, request, downed, counts>>

(* launchctl bootstrap: busy while the label is listed, until it is given  *)
(* up.                                                                     *)
Bootstraps(c) ==
    /\ Doing(c, "load")
    /\ \/ /\ launchd.plist /\ launchd.label = "absent"
          /\ launchd' = [launchd EXCEPT !.label = "loaded"]
          /\ Turn(c, "confirm")
       \/ /\ ~(launchd.plist /\ launchd.label = "absent")
          /\ Says(c, "error") /\ UNCHANGED launchd
    /\ UNCHANGED <<processes, request, downed, counts>>

Confirms(c) ==
    /\ Doing(c, "confirm")
    /\ \/ /\ State = "loaded"
          /\ CASE callers[c].cmd = "restart" -> Turn(c, "verify")
               [] callers[c].cmd = "start"   -> Says(c, "started")
               [] OTHER                      -> Says(c, "loaded")
          /\ UNCHANGED counts
       \/ State # "loaded" /\ Says(c, "error") /\ UNCHANGED counts
       \/ Says(c, "error") /\ Mishap
    /\ UNCHANGED <<processes, launchd, request, downed>>

(* verify_new_process: a pid file that names another living process.       *)
Renewed(c) == pidfile # callers[c].first /\ Alive(pidfile)

Verify(c) ==
    /\ Doing(c, "verify")
    /\ \/ Renewed(c) /\ Says(c, "restarted")
       \/ Says(c, "error")
    /\ UNCHANGED <<processes, launchd, request, downed, counts>>

(* stop_manual, with no service loaded.                                    *)
ReadsManual(c) ==
    /\ Doing(c, "manual")
    /\ IF pidfile = NoPid THEN Says(c, "not running")
       ELSE callers' = [callers EXCEPT ![c].at = "signal", ![c].seen = pidfile]
    /\ UNCHANGED <<processes, launchd, request, downed, counts>>

Signal(c) ==
    /\ Doing(c, "signal")
    /\ IF Alive(callers[c].seen)
       THEN SendTerm({callers[c].seen}) /\ Turn(c, "watch")
       ELSE Says(c, "error") /\ UNCHANGED processes
    /\ UNCHANGED <<launchd, request, downed, counts>>

WatchesPid(c) ==
    /\ Doing(c, "watch")
    /\ \/ (~Alive(callers[c].seen) \/ SlowProbes) /\ Says(c, "stopped")
       \/ Says(c, "still shutting down")
    /\ UNCHANGED <<processes, launchd, request, downed, counts>>

(* A command that cannot be run, or fails of itself, ends the caller's.    *)
FailsToRun(c) ==
    /\ callers[c].at \in {"teardown", "write", "rewrite", "load", "signal"}
    /\ Says(c, "error") /\ Mishap
    /\ UNCHANGED <<processes, launchd, request, downed>>

-----------------------------------------------------------------------------
Runs(p) ==
    \/ Acquire(p) \/ Removes(p) \/ Writes(p) \/ SetsUp(p) \/ Drains(p) \/ EndsPass(p)
    \/ Waits(p) \/ HoldsOff(p) \/ DropGuard(p) \/ Exits(p)

Advances(c) ==
    \/ Probe(c) \/ ReadsFirst(c) \/ ReadsSeen(c) \/ Teardown(c) \/ Settle(c) \/ Await(c)
    \/ WritesPlist(c) \/ Bootstraps(c) \/ Confirms(c) \/ Verify(c)
    \/ ReadsManual(c) \/ Signal(c) \/ WatchesPid(c) \/ FailsToRun(c)

ServiceStep ==
    \/ \E p \in Pids : Respawn(p) \/ RunByHand(p) \/ Runs(p) \/ Shutdown(p) \/ Killed(p)
    \/ Enqueue \/ Ring
    \/ Leaves
    \/ \E c \in Callers : Advances(c) \/ \E cmd \in Orderable : Orders(c, cmd)

ServiceSpec == ServiceInit /\ [][ServiceStep]_serviceVars

-----------------------------------------------------------------------------
(* Properties *)

(* Two daemons never pass at once, whoever starts them and however the     *)
(* last one ended: the file names the one that has the guard.              *)
OneDaemon == \A p, q \in Owners : p = q

(* A request that rang a daemon's bell does not sleep out the interval,    *)
(* whatever the daemon was doing when it rang.                             *)
BellsAnswered ==
    \A p \in Pids : request.heard = p /\ at[p] = "wait" => p \in bells

(* A service stopped for good is not started by launchd again; what may    *)
(* still pass has been told to end.                                        *)
StaysDown ==
    downed => /\ launchd.label = "absent"
              /\ \A p \in Owners : p \in terms \cup byHand \/ at[p] = "closing"

(* `restart` does not report success while the daemon it found runs on,    *)
(* nor `stop` with the one it read.                                        *)
ReportsTrue ==
    [][\A c \in Callers :
          callers'[c].said \in {"stopped", "restarted"} /\ callers[c].at # "idle"
            => {callers[c].first, callers[c].seen} \cap Owners' = {}]_serviceVars

ServiceSafe == []OneDaemon /\ []BellsAnswered /\ []StaysDown /\ ReportsTrue

(* A loaded service has a daemon again and again, whatever file a dead one *)
(* left.                                                                   *)
ComesBack == []<>(launchd.label = "loaded" => Owners # {})

(* A daemon that reads its SIGTERM only between passes reads it all the    *)
(* same: no SIGTERM stays unread.                                          *)
EndsWhenTold == []<>(terms = {})

ServiceLives == ComesBack /\ EndsWhenTold

(* A daemon has its turn against those that do not pass, and they against  *)
(* it; what it is told it reads in the end, as it waits again and again.   *)
OwnerRuns == \E p \in Owners : Runs(p)
OthersRun == \E p \in Pids \ Owners : Runs(p)
LaunchdActs == Leaves \/ \E p \in Pids : Respawn(p)
ShutsDown == \E p \in Pids : Shutdown(p)

ServiceFairness ==
    /\ WF_serviceVars(OwnerRuns) /\ WF_serviceVars(OthersRun)
    /\ WF_serviceVars(LaunchdActs) /\ SF_serviceVars(ShutsDown)
    /\ \A c \in Callers : WF_serviceVars(Advances(c))

FairService == ServiceSpec /\ ServiceFairness

===============================================================================
