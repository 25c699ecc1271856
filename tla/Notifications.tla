---------------------------- MODULE Notifications ----------------------------
(***************************************************************************)
(* How a decision reaches Discord: the daemon's pass appends what its      *)
(* reconcile and its merge gate decided to the decision log                *)
(* (src/overseer/daemon/discord_events.rs, logging.rs), and the bot's      *)
(* delivery loop reads it from a cursor, coalesces, translates, sends and  *)
(* retries (discord/cursor.rs, notify_plan.rs, rollup.rs, notify.rs,       *)
(* localize.rs).                                                           *)
(*                                                                         *)
(* Both run in the daemon's process, on two threads; other processes       *)
(* append to the log too.  A line is written in one call, and a reader     *)
(* leaves the first half of one alone until the rest is there; a crash can *)
(* leave it at that.                                                       *)
(*                                                                         *)
(* Lines are numbered, not measured in bytes.  The decision lines that no  *)
(* notification comes from, the daemon's included, are Chatter's.          *)
(***************************************************************************)
EXTENDS Integers, FiniteSets, SequencesExt

CONSTANTS
    Tasks,        \* ledger entries, one per task
    Opened,       \* those whose pull request is open to begin with
    BatchLimit,   \* notify::deliver's bounded_batch limit (20)
    ReadLimit,    \* its next_batch limit (500)
    Backlog,      \* cursor::STARTUP_BACKLOG (20)
    DigestMin,    \* notify_plan::DIGEST_MIN_DISTINCT (3)
    Level,        \* DiscordConfig::notify_level
    MaxLog,       \* bound: lines of the decision log
    MaxFaults     \* bound: gateway restarts, daemon crashes and messages
                  \*   posted whose answer is lost, together

ASSUME NotificationsAssumption ==
    /\ Opened \subseteq Tasks
    /\ BatchLimit \in Nat \ {0}
    /\ ReadLimit \in Nat \ {0}
    /\ BatchLimit <= ReadLimit
    /\ Backlog \in Nat \ {0}
    /\ DigestMin \in Nat \ {0}
    /\ Level \in {"all", "summary", "errors"}
    /\ {MaxLog, MaxFaults} \subseteq Nat

VARIABLES
    phase,     \* [Tasks -> Phases]: the ledger as last saved
    next,      \* the pass's copy of it
    dpc,       \* where the daemon's pass is
    due,       \* decisions the pass has still to append, in order
    log,       \* the decision log: its whole lines
    torn,      \* whether the log ends in half a line nobody finishes
    aged,      \* lines 1..aged are older than the rollup's window
    offset,    \* DecisionCursor::offset: lines done with
    file,      \* the cursor file, or NoFile
    bpc,       \* where the bot's tick is
    batch,     \* the lines this tick read and has still to plan
    flight,    \* notify::InFlight
    backoff,   \* whether retry_at is ahead
    posts,     \* history: the lines each message in the channel stands for
    skipped,   \* history: lines a start without a cursor file left behind
    restarts, unheard

daemonVars == <<phase, next, dpc, due>>
logVars == <<log, torn, aged>>
botVars == <<offset, file, bpc, batch, flight, backoff>>
ghostVars == <<posts, skipped, restarts, unheard>>
vars == <<daemonVars, logVars, botVars, ghostVars>>

Phases == {"working", "pr_opened", "escalated", "merged"}

(* A line: "merged" and "opened" are daemon events; an "alert" is an       *)
(* escalation, a "quiet" one carries escalation_notify = false; "silent"   *)
(* gives no notification and "lost" does not parse.                        *)
Line(kind, t, why) == [kind |-> kind, task |-> t, why |-> why]
NoTask == "none"
Whys == {"", "task_escalated", "worker_blocked", "gate"}
Lines == [kind : {"merged", "opened", "alert", "quiet", "silent", "lost"},
          task : Tasks \cup {NoTask}, why : Whys]
Silent == Line("silent", NoTask, "")

NoFile == -1
NoBatch == [first |-> 1, last |-> 0, aged |-> 0]
NoFlight == [queue |-> <<>>, rendered |-> {}, translating |-> FALSE,
             end |-> 0, fresh |-> FALSE]

Init ==
    /\ phase = [t \in Tasks |-> IF t \in Opened THEN "pr_opened" ELSE "working"]
    /\ next = phase
    /\ dpc = "idle"
    /\ due = <<>>
    /\ log = <<>> /\ torn = FALSE /\ aged = 0
    /\ offset = 0 /\ file = NoFile
    /\ bpc = "idle" /\ batch = NoBatch /\ flight = NoFlight
    /\ backoff = FALSE
    /\ posts = <<>> /\ skipped = {} /\ restarts = 0 /\ unheard = 0

-----------------------------------------------------------------------------
(* The decision log                                                        *)

(* Room for n more lines: the bound on the log.                            *)
Room(n) == Len(log) + Len(due) + n <= MaxLog

(* append_to behind half a line ends in one line that does not parse.      *)
Appended(l) == Append(log, IF torn THEN [l EXCEPT !.kind = "lost"] ELSE l)

AppendDue ==
    /\ due # <<>>
    /\ log' = Appended(Head(due))
    /\ due' = Tail(due)
    /\ torn' = FALSE
    /\ UNCHANGED <<phase, next, dpc, aged, botVars, ghostVars>>

(* Any other decision: holds, audits, other processes' lines.              *)
Chatter ==
    /\ Room(1)
    /\ log' = Appended(Silent)
    /\ torn' = FALSE
    /\ UNCHANGED <<daemonVars, aged, botVars, ghostVars>>

(* The window passes, which only merges wait for.                          *)
Age ==
    /\ \E i \in (aged + 1)..Len(log) : log[i].kind = "merged"
    /\ aged' = Len(log)
    /\ UNCHANGED <<daemonVars, log, torn, botVars, ghostVars>>

-----------------------------------------------------------------------------
(* The daemon's pass                                                       *)

(* The event discord_events::transitions finds for an entry: none when a   *)
(* merge that ends an escalation is old news, none when the phase event of *)
(* an escalation is left to the merge gate's own decision.                 *)
PhaseEvent(t, before, after, late) ==
    IF before = after THEN <<>>
    ELSE CASE after = "pr_opened" -> <<Line("opened", t, "")>>
           [] after = "merged" /\ ~(before = "escalated" /\ late) ->
                 <<Line("merged", t, "")>>
           [] after = "escalated" /\ before # "pr_opened" ->
                 <<Line("alert", t, "task_escalated")>>
           [] OTHER -> <<>>

(* What a pass may observe of an entry, and what reconcile makes of it.    *)
Reconciled(p, seen) ==
    CASE seen = "merged" -> "merged"
      [] seen = "open" /\ p = "working" -> "pr_opened"
      [] seen = "blocked" /\ p \in {"working", "pr_opened"} -> "escalated"
      [] OTHER -> p

(* A blocked report is an event of its own (discord_events::transitions),  *)
(* and every escalation of reconcile is logged again when the actions run  *)
(* (exec::execute_actions).                                                *)
ReconcileLines(t, seen, late) ==
    PhaseEvent(t, next[t], Reconciled(next[t], seen), late)
    \o (IF seen = "blocked"
        THEN <<Line("alert", t, "worker_blocked")>> ELSE <<>>)

BeginPass ==
    /\ dpc = "idle"
    /\ \E t \in Tasks, seen \in {"open", "merged", "blocked"}, late \in BOOLEAN :
         /\ Reconciled(next[t], seen) # next[t]
         /\ late => next[t] = "escalated" /\ seen = "merged"
         /\ Room(Len(ReconcileLines(t, seen, late)))
         /\ due' = ReconcileLines(t, seen, late)
         /\ next' = [next EXCEPT ![t] = Reconciled(@, seen)]
    /\ dpc' = "record"
    /\ UNCHANGED <<phase, logVars, botVars, ghostVars>>

Recorded == due = <<>>

MergePassDone(t, after, line) ==
    /\ Room(1)
    /\ next' = [next EXCEPT ![t] = after]
    /\ due' = <<line>>

(* The merge gate, in a pass that observed something or nothing new: it    *)
(* merges, or escalates and says so itself, as an alert or, while the      *)
(* recheck may still lift it, quietly.  A merge's own line is no event.    *)
MergePass ==
    /\ dpc \in {"idle", "record"}
    /\ Recorded
    /\ \E t \in Tasks :
         /\ next[t] = "pr_opened"
         /\ \/ MergePassDone(t, "merged", Silent)
            \/ \E kind \in {"alert", "quiet"} :
                 MergePassDone(t, "escalated", Line(kind, t, "gate"))
    /\ dpc' = "log"
    /\ UNCHANGED <<phase, logVars, botVars, ghostVars>>

Save ==
    /\ dpc \in {"record", "log"}
    /\ Recorded
    /\ phase' = next
    /\ dpc' = "idle"
    /\ UNCHANGED <<next, due, logVars, botVars, ghostVars>>

-----------------------------------------------------------------------------
(* Planning: notify_plan and rollup                                        *)

(* notifications::from_decision: whether the level admits the line.        *)
Admitted(l) ==
    \/ l.kind = "alert"
    \/ l.kind = "merged" /\ Level \in {"all", "summary"}
    \/ l.kind = "opened" /\ Level = "all"

IsDigest(l) == l.kind \in {"alert", "quiet"}

(* bounded_batch: the limit is moved past the run of alerts it would cut.  *)
BoundedEnd(first, last) ==
    LET limit == Min({last, first + BatchLimit - 1})
    IN Max({e \in limit..last :
              \A i \in limit..(e - 1) : IsDigest(log[i]) /\ IsDigest(log[i + 1])})

(* next_batch: whole lines only.                                           *)
ReadEnd == Min({Len(log), offset + ReadLimit})

RunEnd(first, last) ==
    Max({e \in first..last : \A i \in first..e : IsDigest(log[i])})

(* dedup_alerts: the alerts of a run by task and reason.                   *)
Alerts(first, last) ==
    {{i \in first..last : log[i] = log[j]} :
        j \in {i \in first..last : log[i].kind = "alert"}}

(* The groups by their oldest line: the k-th has k - 1 before it.          *)
InTurn(groups) ==
    [k \in 1..Cardinality(groups) |->
        CHOOSE g \in groups :
            Cardinality({h \in groups : Min(h) < Min(g)}) = k - 1]

(* Merges up to the next notifying line are rolled up into one message,    *)
(* lines that notify nothing included.                                     *)
RollEnd(first, last) ==
    Max({e \in first..last :
           \A i \in first..e : log[i].kind = "merged" \/ ~Admitted(log[i])})

Rolls(first) == log[first].kind = "merged" /\ Admitted(log[first])

(* Mutant: a merge is held until the next one, however old.                *)
AgelessHolds(b) ==
    /\ Rolls(b.first)
    /\ RollEnd(b.first, b.last) = b.last

Holds(b) ==
    /\ Rolls(b.first)
    /\ RollEnd(b.first, b.last) = b.last
    /\ b.first > b.aged

(* next_notification: [end, queue] of what one cursor advance stands for.  *)
Planned(b) ==
    IF IsDigest(log[b.first])
    THEN LET e == RunEnd(b.first, b.last)
             groups == Alerts(b.first, e)
         IN [end |-> e,
             queue |-> IF Cardinality(groups) >= DigestMin
                       THEN <<UNION groups>> ELSE InTurn(groups)]
    ELSE IF Rolls(b.first)
    THEN LET e == RollEnd(b.first, b.last)
         IN [end |-> e,
             queue |-> <<{i \in b.first..e : log[i].kind = "merged"}>>]
    ELSE [end |-> b.first,
          queue |-> IF Admitted(log[b.first]) THEN <<{b.first}>> ELSE <<>>]

-----------------------------------------------------------------------------
(* Delivery: notify::deliver and drive, one tick of gateway::run           *)

Read ==
    /\ bpc = "idle" /\ ~backoff
    /\ flight = NoFlight
    /\ offset < Len(log)
    /\ batch' = [first |-> offset + 1,
                 last |-> BoundedEnd(offset + 1, ReadEnd), aged |-> aged]
    /\ bpc' = "plan"
    /\ UNCHANGED <<daemonVars, logVars, offset, file, flight, backoff,
                   ghostVars>>

(* The batch is done, or held back by a merge that may have company.       *)
Rest ==
    /\ bpc = "plan"
    /\ batch.first <= batch.last => Holds(batch)
    /\ bpc' = "idle"
    /\ batch' = NoBatch
    /\ UNCHANGED <<daemonVars, logVars, offset, file, flight, backoff,
                   ghostVars>>

Plan ==
    /\ bpc = "plan"
    /\ batch.first <= batch.last /\ ~Holds(batch)
    /\ LET planned == Planned(batch)
       IN /\ flight' = [NoFlight EXCEPT !.queue = planned.queue,
                                        !.end = planned.end, !.fresh = TRUE]
          /\ batch' = [batch EXCEPT !.first = planned.end + 1]
    /\ bpc' = "drive"
    /\ UNCHANGED <<daemonVars, logVars, offset, file, backoff, ghostVars>>

(* A later tick takes the parked flight up, once its translation is there. *)
Resume ==
    /\ bpc = "idle" /\ ~backoff
    /\ flight # NoFlight
    /\ flight' =
         IF flight.translating
         THEN [flight EXCEPT !.rendered = Head(flight.queue),
                             !.queue = Tail(@),
                             !.translating = FALSE, !.fresh = FALSE]
         ELSE [flight EXCEPT !.fresh = FALSE]
    /\ bpc' = "drive"
    /\ UNCHANGED <<daemonVars, logVars, offset, file, batch, backoff,
                   ghostVars>>

(* The front of the queue is rendered at once (no language, a cached       *)
(* title, no session to be had), or a session starts and it stays there.   *)
Render ==
    /\ bpc = "drive"
    /\ flight.rendered = {} /\ flight.queue # <<>>
    /\ \/ /\ flight' = [flight EXCEPT !.rendered = Head(flight.queue),
                                       !.queue = Tail(@)]
          /\ UNCHANGED <<bpc, batch>>
       \/ /\ flight' = [flight EXCEPT !.translating = TRUE]
          /\ bpc' = "idle"
          /\ batch' = NoBatch
    /\ UNCHANGED <<daemonVars, logVars, offset, file, backoff, ghostVars>>

Rendered == bpc = "drive" /\ flight.rendered # {}

(* Mutant: a message stays in flight once it is sent.                      *)
SendAgain ==
    /\ Rendered
    /\ posts' = Append(posts, flight.rendered)
    /\ UNCHANGED <<daemonVars, logVars, botVars, skipped, restarts, unheard>>

SendOk ==
    /\ Rendered
    /\ posts' = Append(posts, flight.rendered)
    /\ flight' = [flight EXCEPT !.rendered = {}]
    /\ UNCHANGED <<daemonVars, logVars, offset, file, bpc, batch, backoff,
                   skipped, restarts, unheard>>

(* The send fails, before Discord has the message or after.                *)
SendFails ==
    /\ Rendered
    /\ \/ UNCHANGED <<posts, unheard>>
       \/ /\ restarts + unheard < MaxFaults
          /\ posts' = Append(posts, flight.rendered)
          /\ unheard' = unheard + 1
    /\ bpc' = "idle"
    /\ batch' = NoBatch
    /\ backoff' = TRUE
    /\ UNCHANGED <<daemonVars, logVars, offset, file, flight, skipped, restarts>>

RetryAt ==
    /\ backoff
    /\ backoff' = FALSE
    /\ UNCHANGED <<daemonVars, logVars, offset, file, bpc, batch, flight,
                   ghostVars>>

(* DecisionCursor::complete, with every message of the advance sent.       *)
Complete ==
    /\ bpc = "drive"
    /\ flight.rendered = {} /\ flight.queue = <<>>
    /\ offset' = flight.end
    /\ file' = flight.end
    /\ flight' = NoFlight
    /\ bpc' = IF flight.fresh THEN "plan" ELSE "idle"
    /\ UNCHANGED <<daemonVars, logVars, batch, backoff, ghostVars>>

-----------------------------------------------------------------------------
(* Restarts                                                                *)

(* backlog_start: the last Backlog lines that parse.                       *)
BacklogStart ==
    LET parsed == {i \in DOMAIN log : log[i].kind # "lost"}
        kept == {i \in parsed :
                   Cardinality({j \in parsed : j >= i}) <= Backlog}
    IN IF kept = {} THEN Len(log) ELSE Min(kept) - 1

(* Mutant: a start reads on from what is there by then.                    *)
StartAtEnd == Len(log)

StartOffset == IF file = NoFile THEN BacklogStart ELSE file

Reload ==
    /\ restarts + unheard < MaxFaults
    /\ restarts' = restarts + 1
    /\ offset' = StartOffset
    /\ skipped' = IF file = NoFile THEN skipped \cup (1..offset') ELSE skipped
    /\ bpc' = "idle" /\ batch' = NoBatch /\ flight' = NoFlight
    /\ backoff' = FALSE
    /\ UNCHANGED <<file, posts, unheard>>

(* The gateway's stream ends, one of its calls fails, or the bot is turned *)
(* off and on: what it had in flight is gone.                              *)
Reconnect ==
    /\ Reload
    /\ UNCHANGED <<daemonVars, logVars>>

(* The daemon dies, perhaps half through a line: the pass is lost with it. *)
Crash ==
    /\ Reload
    /\ next' = phase
    /\ dpc' = "idle"
    /\ due' = <<>>
    /\ torn' \in {torn, torn \/ due # <<>>}
    /\ UNCHANGED <<phase, log, aged>>

-----------------------------------------------------------------------------
DaemonStep == BeginPass \/ MergePass \/ Save

BotStep == Read \/ Rest \/ Plan \/ Resume \/ Render \/ Complete \/ RetryAt

Next ==
    \/ AppendDue \/ Chatter \/ Age
    \/ DaemonStep
    \/ BotStep \/ SendOk \/ SendFails
    \/ Reconnect \/ Crash

Spec == Init /\ [][Next]_vars

(* The bot ticks, localization sessions time out, time passes; Discord     *)
(* takes a message now and then.                                           *)
FairSpec ==
    /\ Spec
    /\ WF_vars(BotStep)
    /\ WF_vars(Age)
    /\ SF_vars(SendOk)

-----------------------------------------------------------------------------
(* Properties                                                              *)

Posted(i) == \E k \in DOMAIN posts : i \in posts[k]

(* Left behind by a start without a cursor file, which takes up the last   *)
(* Backlog lines.                                                          *)
LeftBehind(i) ==
    /\ i \in skipped
    /\ Cardinality({j \in (i + 1)..Len(log) : log[j].kind # "lost"}) >= Backlog

Told(i) == Posted(i) \/ LeftBehind(i)

(* Nothing is missed: a line the cursor is past was in a message, if the   *)
(* level admits it, whatever failed or restarted (cursor.rs, notify.rs).   *)
NothingMissed ==
    \A i \in 1..offset : Admitted(log[i]) => Told(i)

(* The channel tells the log in its order, roll-ups and digests included   *)
(* (rollup.rs: "so delivery order is preserved").                          *)
InOrder ==
    \A k \in DOMAIN posts : \A i \in 1..(Min(posts[k]) - 1) :
        Admitted(log[i]) =>
            i \in skipped \/ \E j \in 1..(k - 1) : i \in posts[j]

(* A line is told again only for a restart or an answer that was lost.     *)
RepeatsBounded ==
    \A i \in DOMAIN log :
        Cardinality({k \in DOMAIN posts : i \in posts[k]})
            <= 1 + restarts + unheard

(* The channel catches up with the log again and again: no failed send, no *)
(* held merge and no restart keeps a line from it for ever.                *)
EverythingTold ==
    []<>(\A i \in DOMAIN log : Admitted(log[i]) => Told(i))

(* The channel says what the log says: all of it, in order, hardly twice.  *)
ToldRight == NothingMissed /\ InOrder /\ RepeatsBounded

-----------------------------------------------------------------------------
(* What the code's own documents say and the code does not do              *)

(* daemon/discord_events.rs, PHASE_EVENTS: "Every phase transition that    *)
(* produces a Discord event", merged among them.                           *)
MergesAnnounced ==
    [][\A t \in Tasks :
         (phase[t] = "pr_opened" /\ phase'[t] = "merged") =>
            \E l \in ToSet(log) : l.task = t /\ l.kind \in {"merged", "lost"}]_vars

===============================================================================
