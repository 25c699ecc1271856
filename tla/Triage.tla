--------------------------------- MODULE Triage ---------------------------------
(***************************************************************************)
(* Reconcile and exception triage over the daemon's passes and crashes:    *)
(* src/overseer/triage/queue.rs, completion.rs and triage.rs, session.rs,  *)
(* in the order run_daemon (daemon.rs) calls and saves them.               *)
(*                                                                         *)
(* A worker that failed or escalated becomes a case of a persisted queue.  *)
(* The case at its head gets a session, a process of its own that may      *)
(* outlive the daemon.  Its verdict is written to a marker before the      *)
(* action it asks for is run, then applied to the ledger in memory; the    *)
(* case leaves the queue once the ledger is saved.                         *)
(*                                                                         *)
(* A pass changes nothing but the daemon's memory until it saves, so it is *)
(* cut into steps wherever it writes or may die between two writes.        *)
(***************************************************************************)
EXTENDS Monitor, Integers, Sequences, FiniteSets

CONSTANTS
    N,            \* number of entries, in ledger order 1..N
    MaxEvents     \* bound: workers' reports, operator requests and crashes

ASSUME TriageAssumption ==
    /\ N \in Nat \ {0}
    /\ MaxEvents \in Nat

Tasks == 1..N

VARIABLES
    ledger,     \* the ledger in the daemon's memory
    saved,      \* the ledger file
    inbox,      \* [Tasks -> Seq(Reports)]: reports not committed
    pending,    \* ExceptionQueue::pending
    queue,      \* queue.json
    seen,       \* ExceptionQueue::seen
    session,    \* what the active session's thread has come to
    running,    \* session processes alive, each by the daemon it is of
    pidfile,    \* the process session.pid names, or NoProcess
    marker,     \* outcome.json of the case at the head, or NoVerdict
    ready,      \* completion_ready
    pc,         \* where the pass is, or "down"
    events,     \* reports, requests and crashes so far
    daemon,     \* crashes so far: which daemon this is
    hist        \* history the properties refer to, never read by an action

ledgerVars == <<ledger, saved>>
queueVars == <<pending, queue, seen>>
sessionVars == <<session, running, pidfile>>
verdictVars == <<marker, ready>>
boundVars == <<events, daemon>>
vars == <<ledgerVars, inbox, queueVars, sessionVars, verdictVars,
          pc, boundVars, hist>>

NoProcess == -1

(* The entries, and of history: the tasks whose escalation is triage's.    *)
LedgerType == [entry: [Tasks -> Entry], parked: SUBSET Tasks]

(* A case, by its key.  Its directory has a name of its own, so that what  *)
(* is in it (marker, session.pid) is of this case and no earlier one.      *)
Cases == [task: Tasks, kind: CaseKinds]

(* Resolved and skip leave the entry alone.                                *)
Verdicts == {"leave", "escalate"}
NoVerdict == "none"

(* The process of this daemon's session: it has one at a time.             *)
Process == daemon

Elements(s) == {s[i] : i \in DOMAIN s}

SessionStates == {"none", "starting", "polling", "ended", "failed"}

PassSteps == {"idle", "tick", "act", "rewrite", "apply", "merge", "ack",
              "commit"}

Init ==
    /\ ledger = [entry |-> [t \in Tasks |-> NewEntry], parked |-> {}]
    /\ saved = ledger
    /\ inbox = [t \in Tasks |-> <<>>]
    /\ pending = <<>>
    /\ queue = <<>>
    /\ seen = {}
    /\ session = "none"
    /\ running = {}
    /\ pidfile = NoProcess
    /\ marker = NoVerdict
    /\ ready = FALSE
    /\ pc = "idle"
    /\ events = 0
    /\ daemon = 0
    /\ hist = [queued |-> {}, acted |-> FALSE, told |-> FALSE,
               unnamed |-> FALSE]

-----------------------------------------------------------------------------
(* Workers and operators                                                   *)

Happens ==
    /\ events < MaxEvents
    /\ events' = events + 1

WorkerReports(t) ==
    /\ pc = "idle"
    /\ Happens
    /\ \E report \in Reports : inbox' = [inbox EXCEPT ![t] = Append(@, report)]
    /\ UNCHANGED <<ledgerVars, queueVars, sessionVars, verdictVars,
                   pc, daemon, hist>>

(* Triage's escalations that an entry still stands in.                     *)
StillParked(entry) ==
    {t \in ledger.parked : entry[t].phase = "escalated"}

Becomes(t, e) ==
    LET entry == [ledger.entry EXCEPT ![t] = e]
    IN [ledger EXCEPT !.entry = entry, !.parked = StillParked(entry)]

(* runtime_request::drain_in: applied, and the ledger checkpointed.        *)
Requested(t, outcomes) ==
    /\ pc = "idle"
    /\ Happens
    /\ ledger.entry[t].phase # "absent"
    /\ \E e \in outcomes : ledger' = Becomes(t, e)
    /\ saved' = ledger'
    /\ UNCHANGED <<inbox, queueVars, sessionVars, verdictVars, pc,
                   daemon, hist>>

OperatorApproves(t) == Requested(t, {Approved(ledger.entry[t])})
OperatorUpdatesBranch(t) == Requested(t, {BranchReset(ledger.entry[t])})
OperatorPanics(t) == Requested(t, {Panicked(ledger.entry[t])})

-----------------------------------------------------------------------------
(* Reconcile, and the cases it raises                                      *)

Case(t, kind) == [task |-> t, kind |-> kind]

(* apply_inbox: the reports in the order they were made.                   *)
Heard(t) ==
    LET e == ledger.entry[t]
        after[n \in 0..Len(inbox[t])] ==
            IF n = 0 THEN [entry |-> e, raised |-> {}]
            ELSE LET before == after[n - 1]
                     report == inbox[t][n]
                 IN [entry |-> Reported(before.entry, report),
                     raised |-> IF Blocks(before.entry, report)
                                THEN {"escalated"} ELSE before.raised]
    IN IF e.phase \in {"merged", "absent"} THEN after[0]
       ELSE after[Len(inbox[t])]

(* What a pass finds of an entry (reconcile_entry), and raises.  A worker  *)
(* that became another's subagent is forgotten (drop_detached).            *)
Found(heard, observed) ==
    IF observed.session = "detached" THEN [entry |-> Absent, raised |-> {}]
    ELSE [entry |-> Observed(heard.entry, observed),
          raised |-> heard.raised \cup Raised(heard.entry, observed)]

Findings(t) ==
    LET heard == Heard(t)
    IN {Found(heard, observed) : observed \in Telling(heard.entry)}

(* The order of a pass's actions: by entry; the session that fails a       *)
(* worker is looked at after all that escalates it.  The k-th of some      *)
(* cases has k - 1 of them before it.                                      *)
Place(case) == 2 * case.task - (IF case.kind = "escalated" THEN 1 ELSE 0)

InPassOrder(cases) ==
    [k \in 1..Cardinality(cases) |->
        CHOOSE case \in cases :
            Cardinality({c \in cases : Place(c) < Place(case)}) = k - 1]

(* ExceptionQueue::enqueue: one case per task and kind in a daemon's life. *)
Enqueued(found) ==
    pending \o InPassOrder({case \in Cases \ seen : case.kind \in found[case.task].raised})

QueueNeverSaved == UNCHANGED <<queue, hist>>  \* a mutant of SaveQueue

SaveQueue ==
    /\ queue' = pending'
    /\ hist' = [hist EXCEPT !.queued = @ \cup Elements(queue')]

(* Reconcile, in memory, then the queue saved, which the ledger is only at *)
(* the end of the pass.                                                    *)
Reconcile ==
    /\ pc = "idle"
    /\ pc' = "tick"
    /\ \E found \in [Tasks -> UNION {Findings(t) : t \in Tasks}] :
         /\ \A t \in Tasks : found[t] \in Findings(t)
         /\ ledger' = [entry |-> [t \in Tasks |-> found[t].entry],
                        parked |-> {t \in ledger.parked :
                            found[t].entry.phase \notin {"merged", "absent"}}]
         /\ pending' = Enqueued(found)
    /\ seen' = seen \cup Elements(pending')
    /\ SaveQueue
    /\ UNCHANGED <<saved, inbox, sessionVars, verdictVars, boundVars>>

-----------------------------------------------------------------------------
(* ExceptionQueue::tick                                                    *)

Ticking ==
    /\ pc = "tick"
    /\ UNCHANGED <<ledgerVars, inbox, queueVars, running, pidfile, ready,
                   boundVars, hist>>

Answered == session = "ended"  \* a mutant of Sent

(* The session's thread sent its result, or is gone without one.           *)
Sent == session \in {"ended", "failed"}

(* Nothing to do: an empty queue, or a session still thinking.             *)
TickIdle ==
    /\ Ticking
    /\ IF session = "none" THEN pending = <<>> ELSE ~Sent
    /\ pc' = "merge"
    /\ UNCHANGED <<session, marker>>

TickSpawn ==
    /\ Ticking
    /\ session = "none"
    /\ pending # <<>>
    /\ marker = NoVerdict
    /\ session' = "starting"
    /\ pc' = "merge"
    /\ UNCHANGED marker

ActsAgain == "act"  \* a mutant of AfterReplay

(* apply_completion skips the action of a replay.                          *)
AfterReplay == "apply"

(* A marker from before a crash: its verdict is applied.                   *)
TickReplay ==
    /\ Ticking
    /\ session = "none"
    /\ pending # <<>>
    /\ marker # NoVerdict
    /\ pc' = AfterReplay
    /\ UNCHANGED <<session, marker>>

(* The marker is written before the action is run.  The verdict is the     *)
(* session's own, or one that an earlier daemon's process wrote in the     *)
(* same place, with an action result::parse let through or none; without   *)
(* an answer it is to escalate.                                            *)
TickComplete ==
    /\ Ticking
    /\ Sent
    /\ session' = "none"
    /\ \/ /\ session = "ended"
          /\ marker' \in Verdicts
          /\ pc' \in {"act", "apply"}
       \/ marker' = "escalate" /\ pc' = "apply"

(* execute_action; one that fails may have had some of its effect.         *)
Act ==
    /\ pc = "act"
    /\ pc' \in {"apply", "rewrite"}
    /\ hist' = [hist EXCEPT !.acted = TRUE]
    /\ UNCHANGED <<ledgerVars, inbox, queueVars, sessionVars,
                   verdictVars, boundVars>>

(* A failed action turns the verdict into an escalation.                   *)
RewriteMarker ==
    /\ pc = "rewrite"
    /\ pc' = "apply"
    /\ marker' = "escalate"
    /\ UNCHANGED <<ledgerVars, inbox, queueVars, sessionVars, ready,
                   boundVars, hist>>

(* A mutant: as a worker's own.                                            *)
TriageReported(e) ==
    IF e.phase = "absent" THEN e
    ELSE Settled([e EXCEPT !.phase = "escalated", !.worker = TRUE])

(* The escalate arm of apply_completion, whatever the entry's phase.       *)
TriageEscalated(e) ==
    IF e.phase = "absent" THEN e
    ELSE Settled([e EXCEPT !.phase = "escalated", !.worker = FALSE])

Apply ==
    /\ pc = "apply"
    /\ pc' = "merge"
    /\ ready' = TRUE
    /\ LET t == Head(pending).task
           e == TriageEscalated(ledger.entry[t])
       IN ledger' =
            IF marker = "leave" \/ e.phase = "absent" THEN ledger
            ELSE [ledger EXCEPT !.entry[t] = e, !.parked = @ \cup {t}]
    /\ UNCHANGED <<saved, inbox, queueVars, sessionVars, marker,
                   boundVars, hist>>

-----------------------------------------------------------------------------
(* The session's thread and its process                                    *)

Thread(now, next) ==
    /\ session = now
    /\ session' = next
    /\ UNCHANGED <<ledgerVars, inbox, queueVars, verdictVars, pc,
                   boundVars>>

NoneKilled == running  \* a mutant of Survivors

(* terminate_stale_session: what session.pid names is killed.              *)
Survivors == running \ {pidfile}

(* run_session and run_controlled                                          *)
Launch ==
    /\ Thread("starting", "polling")
    /\ running' = Survivors \cup {Process}
    /\ pidfile' = Process
    /\ UNCHANGED hist

LaunchFails ==
    /\ Thread("starting", "failed")
    /\ running' = Survivors
    /\ pidfile' = NoProcess
    /\ UNCHANGED hist

(* The case's directory cannot be written: no pid was looked for.          *)
CaseUnwritable ==
    /\ Thread("starting", "failed")
    /\ hist' = [hist EXCEPT !.unnamed = @ \/ running # {}]
    /\ UNCHANGED <<running, pidfile>>

(* It answers, exits or is killed at its deadline.                         *)
SessionEnds ==
    /\ Thread("polling", "ended")
    /\ running' = running \ {Process}
    /\ pidfile' = NoProcess
    /\ UNCHANGED hist

-----------------------------------------------------------------------------
(* The rest of the pass                                                    *)

LedgerNeverSaved == UNCHANGED <<saved, hist>>  \* a mutant of SaveLedger

SaveLedger ==
    /\ saved' = ledger'
    /\ hist' = [hist EXCEPT !.told = @ \/ ready]

(* The merge pass, as far as phases go, and the ledger saved after it.     *)
MergeAndSave ==
    /\ pc = "merge"
    /\ pc' = "ack"
    /\ \E entry \in [Tasks -> UNION {GateOutcomes(ledger.entry[t]) :
                                         t \in Tasks}] :
         /\ \A t \in Tasks : entry[t] \in GateOutcomes(ledger.entry[t])
         /\ ledger' = [ledger EXCEPT !.entry = entry,
                                     !.parked = StillParked(entry)]
    /\ SaveLedger
    /\ UNCHANGED <<inbox, queueVars, sessionVars, verdictVars,
                   boundVars>>

(* The head's case, and its directory with it, is done with.               *)
PopCase ==
    /\ pending' = Tail(pending)
    /\ queue' = pending'
    /\ marker' = NoVerdict
    /\ pidfile' = NoProcess
    /\ hist' = [hist EXCEPT !.acted = FALSE, !.told = FALSE]

(* ExceptionQueue::acknowledge_completion                                  *)
Acknowledge ==
    /\ pc = "ack"
    /\ pc' = "commit"
    /\ IF ready THEN PopCase
       ELSE UNCHANGED <<pending, queue, pidfile, marker, hist>>
    /\ ready' = FALSE
    /\ UNCHANGED <<ledgerVars, inbox, seen, session, running, boundVars>>

(* InboxReader::commit                                                     *)
CommitInbox ==
    /\ pc = "commit"
    /\ pc' = "idle"
    /\ inbox' = [t \in Tasks |-> <<>>]
    /\ UNCHANGED <<ledgerVars, queueVars, sessionVars, verdictVars,
                   boundVars, hist>>

-----------------------------------------------------------------------------
(* The daemon's process                                                    *)

(* Whatever was only in memory is gone.                                    *)
Dies ==
    /\ pc # "down"
    /\ Happens
    /\ daemon' = daemon + 1
    /\ pc' = "down"
    /\ ledger' = saved
    /\ pending' = <<>>
    /\ seen' = {}
    /\ session' = "none"
    /\ ready' = FALSE
    /\ UNCHANGED <<saved, inbox, queue, marker>>

(* Killed: the session's process lives on.                                 *)
Crash ==
    /\ Dies
    /\ UNCHANGED <<running, pidfile, hist>>

(* Killed between starting a process and writing its pid.                  *)
CrashLaunching ==
    /\ Dies
    /\ session = "starting"
    /\ running' = Survivors \cup {Process}
    /\ pidfile' = NoProcess
    /\ hist' = [hist EXCEPT !.unnamed = TRUE]

(* A signal, or an error of the pass: the session's handle is dropped,     *)
(* which kills the process and waits for the thread.                       *)
Stop ==
    /\ Dies
    /\ IF session \in {"starting", "polling"}
       THEN /\ running' = (IF session = "starting" THEN Survivors
                           ELSE running \ {Process})
            /\ pidfile' = NoProcess
       ELSE UNCHANGED <<running, pidfile>>
    /\ UNCHANGED hist

(* ExceptionQueue::load_from                                               *)
Restart ==
    /\ pc = "down"
    /\ pc' = "idle"
    /\ pending' = queue
    /\ seen' = Elements(queue)
    /\ UNCHANGED <<ledgerVars, inbox, queue, sessionVars, verdictVars,
                   boundVars, hist>>

Pass ==
    \/ Reconcile
    \/ TickIdle \/ TickSpawn \/ TickReplay \/ TickComplete
    \/ Act \/ RewriteMarker \/ Apply
    \/ MergeAndSave \/ Acknowledge \/ CommitInbox
    \/ Restart

Session == Launch \/ LaunchFails \/ CaseUnwritable \/ SessionEnds

Next ==
    \/ \E t \in Tasks :
         \/ WorkerReports(t) \/ OperatorApproves(t)
         \/ OperatorUpdatesBranch(t) \/ OperatorPanics(t)
    \/ Pass \/ Session \/ Crash \/ CrashLaunching \/ Stop

Spec == Init /\ [][Next]_vars

(* A step of Pass, one of which is always enabled, and of Session.         *)
PassOrRestart == pc' \in PassSteps
SessionStep ==
    session \in {"starting", "polling"} /\ session' \in SessionStates \ {"none"}

(* The daemon keeps passing, launchd starts it again when it dies, and a   *)
(* session ends by its deadline at the latest.                             *)
FairSpec == Spec /\ WF_pc(PassOrRestart) /\ WF_session(SessionStep)

-----------------------------------------------------------------------------
(* Properties                                                              *)

(* A worker's failure or escalation is in the saved ledger only once a     *)
(* case for it has been in the saved queue, wherever the daemon dies: a    *)
(* settled entry raises no second one (run_daemon: enqueue, then save).    *)
FailuresQueued ==
    \A t \in Tasks :
        LET e == saved.entry[t]
        IN /\ e.phase = "failed" => Case(t, "failed") \in hist.queued
           /\ e.phase = "escalated" /\ e.worker
                => Case(t, "escalated") \in hist.queued

(* A case leaves the saved queue only when its verdict is in the saved     *)
(* ledger (run_daemon: save, then acknowledge_completion).                 *)
CasesKept ==
    [][\A case \in Elements(queue) \ Elements(queue') :
           case = Head(queue) /\ hist.told]_vars

(* The action a verdict asks for is run at most once, whatever is crashed  *)
(* and replayed (completion.rs: the marker before the action).             *)
ActsOnce ==
    [][pc = "act" /\ pc' \in {"apply", "rewrite"} => ~hist.acted]_vars

(* What triage escalated stays escalated until an operator or the merge    *)
(* pass takes it up or its pull request is merged: no worker's report and  *)
(* no activity lifts it (LedgerEntry::worker_escalated).                   *)
TriageParks ==
    \A t \in ledger.parked : ledger.entry[t].phase \in {"escalated", "absent"}

(* One session at a time, over crashes and restarts (terminate_stale_      *)
(* session), unless the daemon died before it wrote a new one's pid.       *)
OneSession == hist.unnamed \/ Cardinality(running) <= 1

(* Every case leaves the queue: no crash, failed launch, silent session or *)
(* failed action keeps the cases behind it waiting forever.                *)
EveryCaseSettled ==
    \A case \in Cases :
        case \in Elements(queue) ~> case \notin Elements(queue)

(* What holds of the triage's files, ledger and sessions wherever the      *)
(* daemon dies.                                                            *)
TriageSafe == FailuresQueued /\ TriageParks /\ OneSession

(* What no step of a pass, replayed or not, may do to a case.              *)
TriageConcludes == CasesKept /\ ActsOnce

===============================================================================
