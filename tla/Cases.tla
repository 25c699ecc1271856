-------------------------------- MODULE Cases --------------------------------
(***************************************************************************)
(* The Discord bot's conversations: a thread per escalated triage case,    *)
(* commands with their confirmation and hourly limit, and chat sessions    *)
(* (src/overseer/discord/ops_*.rs, handler.rs, command_gate.rs,            *)
(* actions.rs, gateway.rs; discord_channels.rs).                           *)
(*                                                                         *)
(* The gateway is one thread: it handles a message, or a tick's effects,   *)
(* to the end before the next.  Within them it waits for Discord, and then *)
(* everybody else moves, and the daemon may die.  A call of Discord works, *)
(* fails, or works with its answer lost.                                   *)
(*                                                                         *)
(* A code stands for its place in asked.  The parent channel and the       *)
(* threads are the channels; one of a chat category is like the parent.    *)
(* Commands that change nothing, replies, reactions and typing are left    *)
(* out.                                                                    *)
(***************************************************************************)
EXTENDS Integers, FiniteSets, Sequences

CONSTANTS
    CaseIds,      \* triage cases
    Users,        \* people who may ever be on the allow list
    Parent,       \* DiscordConfig::channel_id
    Cap,          \* chat_concurrency_cap
    TTL,          \* confirmation_ttl_secs
    Hour,         \* the hour of the action limit
    ActionLimit,  \* action_limit_per_hour
    MaxAttempts,  \* ops_state::MAX_DELIVERY_ATTEMPTS (5)
    MaxTime,      \* bound: the clock
    MaxMessages,  \* bound: messages handled
    MaxFaults     \* bound: failed saves, lost answers, restarts, crashes

ASSUME CasesAssumption ==
    /\ Parent \notin CaseIds
    /\ {Cap, MaxAttempts} \subseteq Nat \ {0}
    /\ {TTL, Hour, ActionLimit, MaxTime, MaxMessages, MaxFaults} \subseteq Nat

VARIABLES
    escalated,  \* cases triage has escalated: their outcome.json
    ops,        \* OpsState::cases
    file,       \* threads.json
    threads,    \* [CaseIds -> Seq(ThreadStates)]: what Discord has, by name
    todo,       \* effects of the message or tick being processed
    doing,      \* the effect that waits for Discord, or NoEffect
    allowed,    \* allowed_user_ids
    asked,      \* every command that was queued for a confirmation
    pending,    \* Handler::pending, the codes still open
    actions,    \* Handler::actions, each with its place in what ran
    sessions,   \* SessionSlots: [Channels -> sessions]; channels.json says
                \* running of the channels that have one
    tmux,       \* channels whose tmux session is alive
    now,
    messages, faults, life,
    hist        \* history: what ran, and what the threads were told

caseVars == <<escalated, ops, file, threads>>
gateVars == <<allowed, asked, pending, actions>>
chatVars == <<sessions, tmux>>
boundVars == <<now, messages, faults, life>>
vars == <<caseVars, todo, doing, gateVars, chatVars, boundVars, hist>>

Channels == CaseIds \cup {Parent}

(* A case's thread is the channel of its name.                             *)
NoCase == [known |-> FALSE, thread |-> FALSE, opened |-> FALSE,
           resolution |-> "open", posted |-> FALSE, archived |-> FALSE,
           attempts |-> 0]
CaseType == [known : BOOLEAN, thread : BOOLEAN, opened : BOOLEAN,
             resolution : {"open", "pending", "resolved"},
             posted : BOOLEAN, archived : BOOLEAN, attempts : Nat]

(* Impactful commands wait for a confirmation: "answer" stands for them,   *)
(* "report" for those that change something at once.                       *)
Answer(c) == [kind |-> "answer", to |-> c]
Report == [kind |-> "report", to |-> Parent]
Commands == {Answer(c) : c \in CaseIds} \cup {Report}
Impactful(cmd) == cmd.kind # "report"

NoEffect == [kind |-> "none"]
OpenThread(c) == [kind |-> "open", case |-> c]
Opening(c) == [kind |-> "opening", case |-> c]
Deliver(c, post, archive) ==
    [kind |-> "deliver", case |-> c, post |-> post, archive |-> archive]
Submit(ch, u, cmd) ==
    [kind |-> "submit", channel |-> ch, user |-> u, cmd |-> cmd]
Resolve(c) == [kind |-> "resolve", case |-> c]

(* A chat session: whose it is, and the command it came to, if any.        *)
NoSession == [state |-> "none"]
Session(u) == [state |-> "starting", user |-> u, act |-> {}]

Init ==
    /\ escalated = {}
    /\ ops = [c \in CaseIds |-> NoCase] /\ file = ops
    /\ threads = [c \in CaseIds |-> <<>>]
    /\ todo = {} /\ doing = NoEffect
    /\ allowed = Users
    /\ asked = <<>> /\ pending = {} /\ actions = {}
    /\ sessions = [ch \in Channels |-> NoSession]
    /\ tmux = {}
    /\ now = 0 /\ messages = 0 /\ faults = 0 /\ life = 0
    /\ hist = [ran |-> <<>>, answered |-> {}, audited |-> {},
               openings |-> [c \in CaseIds |-> 0],
               notes |-> [c \in CaseIds |-> 0]]

-----------------------------------------------------------------------------
(* Saving and restarting                                                   *)

Fault == faults < MaxFaults /\ faults' = faults + 1

(* OpsState::save: memory has the change whether or not the file gets it.  *)
SaveOk(after) == ops' = after /\ file' = after /\ UNCHANGED faults
SaveFails(after) == ops' = after /\ UNCHANGED file /\ Fault
Save(after) == SaveOk(after) \/ SaveFails(after)

(* OpsAgent::load: the cases of the file, and no turn is running.          *)
Load ==
    /\ ops' = file
    /\ sessions' = [ch \in Channels |-> NoSession]
    /\ todo' = {}
    /\ doing' = NoEffect

(* gateway::run returns and the supervisor calls it again: the agent is    *)
(* dropped, its sessions with it; the handler stays.                       *)
RunAgain ==
    /\ Load
    /\ tmux' = tmux \ {ch \in Channels : sessions[ch].state = "chatting"}
    /\ UNCHANGED <<escalated, file, threads, gateVars, now, messages, life, hist>>

Reconnect == Fault /\ RunAgain

(* The daemon dies: its tmux sessions outlive it, the handler does not.    *)
(* Stopped, or told to do without Discord, it ends its sessions first.     *)
Crash ==
    /\ Fault
    /\ Load
    /\ pending' = {}
    /\ actions' = {}
    /\ life' = life + 1
    /\ tmux' \in {tmux, tmux \ {ch \in Channels : sessions[ch].state = "chatting"}}
    /\ UNCHANGED <<escalated, file, threads, allowed, asked, now, messages, hist>>

-----------------------------------------------------------------------------
(* Everybody else                                                          *)

Escalates ==
    /\ \E c \in CaseIds \ escalated : escalated' = escalated \cup {c}
    /\ UNCHANGED <<ops, file, threads, todo, doing, gateVars, chatVars,
                   boundVars, hist>>

(* Discord archives a thread nobody writes in; once it is mapped nothing   *)
(* looks whether it is.                                                    *)
GoesQuiet ==
    /\ \E c \in CaseIds : \E k \in DOMAIN threads[c] :
         /\ ~ops[c].thread /\ threads[c][k] = "active"
         /\ threads' = [threads EXCEPT ![c][k] = "archived"]
    /\ UNCHANGED <<escalated, ops, file, todo, doing, gateVars, chatVars,
                   boundVars, hist>>

(* The allow list is edited.                                               *)
Configures ==
    /\ \E u \in allowed : allowed' = allowed \ {u}
    /\ UNCHANGED <<caseVars, todo, doing, asked, pending, actions, chatVars,
                   boundVars, hist>>

(* Time passes; before the first command nothing tells one time from       *)
(* another.                                                                *)
Clock ==
    /\ now < MaxTime /\ (asked # <<>> \/ actions # {})
    /\ now' = now + 1
    /\ UNCHANGED <<caseVars, todo, doing, gateVars, chatVars, messages,
                   faults, life, hist>>

(* run_in_tmux: the name is the channel's, so a session left behind by a   *)
(* dead daemon is in the way.                                              *)
Launch ==
    /\ \E ch \in Channels :
         /\ sessions[ch].state = "starting"
         /\ IF ch \in tmux
            THEN /\ sessions' = [sessions EXCEPT ![ch].state = "done"]
                 /\ UNCHANGED tmux
            ELSE /\ tmux' = tmux \cup {ch}
                 /\ sessions' = [sessions EXCEPT ![ch].state = "chatting"]
    /\ UNCHANGED <<caseVars, todo, doing, gateVars, boundVars, hist>>

(* What a session's result may ask for: a command, or none that is known.  *)
Results == {{}} \cup {{cmd} : cmd \in Commands}

(* poll_tmux: a complete result, no result, or the deadline; the tmux      *)
(* session is killed in any case.                                          *)
Concludes ==
    /\ \E ch \in Channels, act \in Results :
         /\ sessions[ch].state = "chatting"
         /\ tmux' = tmux \ {ch}
         /\ sessions' = [sessions EXCEPT ![ch].state = "done", ![ch].act = act]
    /\ UNCHANGED <<caseVars, todo, doing, gateVars, boundVars, hist>>

(* A tmux session nobody watches ends with its process.                    *)
OrphanEnds ==
    /\ \E ch \in tmux :
         /\ sessions[ch].state # "chatting"
         /\ tmux' = tmux \ {ch}
    /\ UNCHANGED <<caseVars, todo, doing, gateVars, sessions,
                   boundVars, hist>>

-----------------------------------------------------------------------------
(* Commands: Handler                                                       *)

Allowed(k) == asked[k].user \in allowed

Expires(k) == asked[k].at + TTL

(* update_config and handle_allowed drop what may no longer be confirmed.  *)
Open == {k \in pending : Allowed(k) /\ Expires(k) >= now}

(* queue_confirmation                                                      *)
Queue(ch, u, cmd) ==
    /\ asked' = Append(asked, [channel |-> ch, user |-> u, cmd |-> cmd, at |-> now])
    /\ pending' = Open \cup {Len(asked) + 1}
    /\ UNCHANGED <<actions, hist>>

(* Mutant: an action is forgotten before its hour is over.                 *)
HastyRecent == {a \in actions : a.at + Hour > now + 1}

(* The actions of the last hour.                                           *)
Recent == {a \in actions : a.at + Hour > now}

Limited == Cardinality(Recent) >= ActionLimit

(* execute: refused past the limit, and charged before it is tried.        *)
Refuse(k) ==
    /\ Limited
    /\ actions' = Recent
    /\ UNCHANGED <<asked, hist>>

(* What was typed into the worker's session stays typed when the second    *)
(* send-keys or the audit fails.                                           *)
Run(k, u, cmd, reached) ==
    /\ ~Limited
    /\ actions' = Recent \cup {[at |-> now, nth |-> Len(hist.ran) + 1]}
    /\ hist' = [hist EXCEPT
         !.ran = Append(@, [code |-> k, user |-> u, cmd |-> cmd, at |-> now,
                            life |-> life]),
         !.answered = IF reached /\ cmd.kind = "answer"
                      THEN @ \cup {cmd.to} ELSE @]
    /\ UNCHANGED asked

Idle == todo = {} /\ doing = NoEffect

Receive(u) == Idle /\ messages < MaxMessages /\ u \in allowed

IsThread(ch) == ch \in CaseIds /\ ops[ch].thread

Heard(ch) == ch = Parent \/ IsThread(ch)

(* A "!" command that waits for its confirmation, or runs at once.         *)
Commanded ==
    /\ \E u \in Users, ch \in Channels, cmd \in Commands :
         /\ Receive(u) /\ Heard(ch)
         /\ \/ Impactful(cmd) /\ Queue(ch, u, cmd)
            \/ /\ ~Impactful(cmd)
               /\ Refuse(0) \/ Run(0, u, cmd, TRUE)
               /\ pending' = Open
    /\ messages' = messages + 1
    /\ UNCHANGED <<caseVars, todo, doing, allowed, chatVars, now, faults, life>>

(* Mutant: a code is gone only when it is confirmed.                       *)
KeptOpen(k) == Open

Spent(k) == Open \ {k}

(* Mutant: any answer settles its case.                                    *)
SettlesAnyway(ch, cmd, succeeded) == cmd = Answer(ch)

Settles(ch, cmd, succeeded) == succeeded /\ cmd = Answer(ch)

(* A code is gone whoever sends it from wherever; one that is not open     *)
(* changes nothing.                                                        *)
Confirms(k, u, ch) == asked[k].user = u /\ asked[k].channel = ch

Confirmed ==
    /\ \E u \in Users, ch \in Channels : \E k \in Open :
         /\ Receive(u) /\ Heard(ch)
         /\ pending' = Spent(k)
         /\ \/ /\ ~Confirms(k, u, ch)
               /\ UNCHANGED <<asked, actions, doing, hist>>
            \/ /\ Confirms(k, u, ch)
               /\ \/ Refuse(k) /\ UNCHANGED doing
                  \/ \E succeeded, reached \in BOOLEAN :
                       /\ succeeded => reached
                       /\ Run(k, u, asked[k].cmd, reached)
                       /\ doing' = IF Settles(ch, asked[k].cmd, succeeded)
                                   THEN Resolve(ch) ELSE NoEffect
    /\ messages' = messages + 1
    /\ UNCHANGED <<caseVars, todo, allowed, chatVars, now, faults, life>>

(* Anything else is for the ops agent: OpsAgent::route.                    *)
Chatted ==
    /\ \E u \in Users, ch \in Channels :
         /\ Receive(u) /\ Heard(ch)
         /\ sessions[ch] = NoSession
         /\ Cardinality({c \in Channels : sessions[c] # NoSession}) < Cap
         /\ sessions' = [sessions EXCEPT ![ch] = Session(u)]
    /\ pending' = Open
    /\ messages' = messages + 1
    /\ UNCHANGED <<caseVars, todo, doing, allowed, asked, actions, tmux, now,
                   faults, life, hist>>

-----------------------------------------------------------------------------
(* A tick: OpsAgent::discover and poll                                     *)

Discovered == {c \in escalated : ~ops[c].known}

WithDiscovered ==
    [c \in CaseIds |->
       IF c \in Discovered THEN [NoCase EXCEPT !.known = TRUE] ELSE ops[c]]

Delivery(c) == Deliver(c, ~ops'[c].posted, ~ops'[c].archived)

(* Mutant: only a new thread gets its opening.                             *)
EffectsOnce(c) ==
    IF ~ops'[c].known THEN {}
    ELSE IF ~ops'[c].thread THEN {OpenThread(c)}
    ELSE IF ops'[c].resolution = "pending" THEN {Delivery(c)} ELSE {}

EffectsOf(c) ==
    IF ~ops'[c].known THEN {}
    ELSE IF ~ops'[c].thread THEN {OpenThread(c)}
    ELSE (IF ops'[c].opened THEN {} ELSE {Opening(c)})
         \cup (IF ops'[c].resolution = "pending"
               THEN {Delivery(c)} ELSE {})

Finished == {ch \in Channels : sessions[ch].state = "done"}

Submitted ==
    UNION {{Submit(ch, sessions[ch].user, cmd) : cmd \in sessions[ch].act} :
              ch \in Finished}

Tick ==
    /\ Idle
    /\ pending' = {k \in pending : Allowed(k)}
    /\ \/ Discovered = {} /\ UNCHANGED <<ops, file, faults>>
       \/ Discovered # {} /\ SaveOk(WithDiscovered)
    /\ todo' = (UNION {EffectsOf(c) : c \in CaseIds}) \cup Submitted
    /\ sessions' = [ch \in Channels |->
                      IF ch \in Finished THEN NoSession ELSE sessions[ch]]
    /\ UNCHANGED <<escalated, threads, doing, allowed, asked, actions, tmux,
                   now, messages, life, hist>>

(* The cases found cannot be saved: gateway::run returns.                  *)
TickFails ==
    /\ Idle /\ Discovered # {}
    /\ Reconnect

-----------------------------------------------------------------------------
(* Effects: ops_gateway::process_effects                                   *)

Take(e) ==
    /\ doing = NoEffect
    /\ e \in todo

Drop(e) == todo' = todo \ {e} /\ UNCHANGED doing

(* Mutant: archived threads are not looked through.                        *)
ActiveOnly(c) == \E k \in DOMAIN threads[c] : threads[c][k] = "active"

Findable(c) == threads[c] # <<>>

(* reconcile_thread finds the thread by its name, or has to make one, or   *)
(* one of its calls fails.                                                 *)
LookForThread ==
    /\ \E c \in CaseIds :
         /\ Take(OpenThread(c))
         /\ \/ Drop(OpenThread(c))
            \/ /\ todo' = todo \ {OpenThread(c)}
               /\ doing' = IF Findable(c) THEN [kind |-> "found", case |-> c]
                           ELSE OpenThread(c)
    /\ UNCHANGED <<caseVars, gateVars, chatVars, boundVars, hist>>

CreateThread ==
    /\ doing.kind = "open"
    /\ \/ /\ threads' = [threads EXCEPT ![doing.case] = Append(@, "active")]
          /\ doing' = [kind |-> "found", case |-> doing.case]
          /\ UNCHANGED faults
       \/ doing' = NoEffect /\ UNCHANGED <<threads, faults>>
       \/ /\ threads' = [threads EXCEPT ![doing.case] = Append(@, "active")]
          /\ doing' = NoEffect
          /\ Fault
    /\ UNCHANGED <<escalated, ops, file, todo, gateVars, chatVars, now,
                   messages, life, hist>>

(* thread_opened: the opening follows when the mapping is saved.           *)
MapThread ==
    /\ doing.kind = "found"
    /\ LET c == doing.case
           after == [ops EXCEPT ![c].thread = TRUE]
       IN \/ SaveOk(after) /\ todo' = todo \cup {Opening(c)}
          \/ SaveFails(after) /\ UNCHANGED todo
    /\ doing' = NoEffect
    /\ UNCHANGED <<escalated, threads, gateVars, chatVars, now, messages,
                   life, hist>>

SendOpening ==
    /\ \E c \in CaseIds :
         /\ Take(Opening(c))
         /\ Drop(Opening(c))
         /\ \/ UNCHANGED <<ops, file, faults, hist>>
            \/ /\ hist' = [hist EXCEPT !.openings[c] = @ + 1]
               /\ \/ Save([ops EXCEPT ![c].opened = TRUE])
                  \/ UNCHANGED <<ops, file>> /\ Fault
    /\ UNCHANGED <<escalated, threads, gateVars, chatVars, now, messages, life>>

(* handler.submit_generated, with the limit and the confirmation of a      *)
(* typed command.                                                          *)
SubmitAction ==
    /\ \E ch \in Channels, u \in Users, cmd \in Commands :
         /\ Take(Submit(ch, u, cmd))
         /\ Drop(Submit(ch, u, cmd))
         /\ \/ /\ Impactful(cmd)
               /\ asked' = Append(asked, [channel |-> ch, user |-> u,
                                          cmd |-> cmd, at |-> now])
               /\ pending' = pending \cup {Len(asked) + 1}
               /\ UNCHANGED <<actions, hist>>
            \/ /\ ~Impactful(cmd)
               /\ Refuse(0) \/ Run(0, u, cmd, TRUE)
               /\ UNCHANGED pending
    /\ UNCHANGED <<caseVars, allowed, chatVars, boundVars>>

(* resolve_answer, after the answer's reply: a failed save ends the run.   *)
BeginResolution ==
    /\ doing.kind = "resolve"
    /\ LET c == doing.case
       IN \/ /\ ops[c].resolution = "open"
             /\ SaveOk([ops EXCEPT ![c].resolution = "pending"])
             /\ todo' = {Deliver(c, TRUE, TRUE)}
          \/ /\ ops[c].resolution # "open"
             /\ UNCHANGED <<ops, file, faults, todo>>
    /\ doing' = NoEffect
    /\ UNCHANGED <<escalated, threads, gateVars, chatVars, now, messages,
                   life, hist>>

ResolutionUnsaved ==
    /\ doing.kind = "resolve"
    /\ ops[doing.case].resolution = "open"
    /\ Reconnect

(* DeliverResolution, its message first.                                   *)
SendResolution ==
    /\ \E c \in CaseIds, post, archive \in BOOLEAN :
         /\ Take(Deliver(c, post, archive))
         /\ todo' = todo \ {Deliver(c, post, archive)}
         /\ \/ /\ doing' = [kind |-> "archive", case |-> c, posted |-> ~post,
                             archive |-> archive]
               /\ UNCHANGED <<hist, faults>>
            \/ /\ post
               /\ hist' = [hist EXCEPT !.notes[c] = @ + 1]
               /\ \E heard \in BOOLEAN :
                    /\ doing' = [kind |-> "archive", case |-> c,
                                 posted |-> heard, archive |-> archive]
                    /\ IF heard THEN UNCHANGED faults ELSE Fault
    /\ UNCHANGED <<caseVars, gateVars, chatVars, now, messages, life>>

(* record_delivery: what worked is kept, and every attempt counts.         *)
Recorded(c, posted, archived) ==
    LET kept == [ops[c] EXCEPT !.posted = @ \/ posted,
                               !.archived = @ \/ archived,
                               !.attempts = IF @ < MaxAttempts THEN @ + 1 ELSE @]
    IN [kept EXCEPT !.resolution =
          IF kept.posted /\ kept.archived THEN "resolved" ELSE @]

Exhausted(case) ==
    case.resolution = "pending" /\ case.attempts >= MaxAttempts

ThreadsAfter(c, archived) ==
    IF archived THEN [threads EXCEPT ![c] = [k \in DOMAIN @ |-> "archived"]]
    ELSE threads

(* ... its archiving next, then the record, and the audit and the end when *)
(* that was the last attempt.                                              *)
Archive ==
    /\ doing.kind = "archive"
    /\ LET c == doing.case
       IN \E done \in BOOLEAN :
            /\ done => doing.archive /\ doing.posted
            /\ threads' = ThreadsAfter(c, done)
            /\ LET after == [ops EXCEPT ![c] =
                               IF ops[c].resolution = "pending"
                               THEN Recorded(c, doing.posted, ~doing.archive \/ done)
                               ELSE @]
               IN /\ Save(after)
                  /\ doing' = IF Exhausted(after[c]) /\ file' = after
                              THEN [kind |-> "exhausted", case |-> c] ELSE NoEffect
    /\ UNCHANGED <<escalated, todo, gateVars, chatVars, now, messages, life, hist>>

Exhaust ==
    /\ doing.kind = "exhausted"
    /\ hist' = [hist EXCEPT !.audited = @ \cup {doing.case}]
    /\ Save([ops EXCEPT ![doing.case].resolution = "resolved"])
    /\ doing' = NoEffect
    /\ UNCHANGED <<escalated, threads, todo, gateVars, chatVars, now,
                   messages, life>>

(* The log cannot be written: the case stays pending.                      *)
ExhaustUnaudited ==
    /\ doing.kind = "exhausted"
    /\ Fault
    /\ doing' = NoEffect
    /\ UNCHANGED <<caseVars, todo, gateVars, chatVars, now, messages, life, hist>>

-----------------------------------------------------------------------------
Effect ==
    \/ LookForThread \/ CreateThread \/ MapThread \/ SendOpening
    \/ SubmitAction
    \/ BeginResolution \/ SendResolution \/ Archive \/ Exhaust

Message == Commanded \/ Confirmed \/ Chatted

Next ==
    \/ Escalates \/ GoesQuiet \/ Configures \/ Clock
    \/ Launch \/ Concludes \/ OrphanEnds
    \/ Tick \/ Effect \/ Message
    \/ TickFails \/ ResolutionUnsaved \/ ExhaustUnaudited
    \/ Reconnect \/ Crash

Spec == Init /\ [][Next]_vars

(* The gateway goes on, Discord does what it is asked now and then, and a  *)
(* session has a deadline.                                                 *)
FairSpec ==
    /\ Spec
    /\ WF_vars(Tick \/ Effect)
    /\ WF_vars(Launch \/ Concludes)
    /\ SF_vars(LookForThread /\ doing' # NoEffect)
    /\ SF_vars(CreateThread /\ doing' # NoEffect)
    /\ SF_vars(SendOpening /\ ops' # ops)

-----------------------------------------------------------------------------
(* Properties                                                              *)

(* What kills, answers, merges or starts was confirmed, once, by the user  *)
(* who asked for it and before the code expired, whatever was queued,      *)
(* restarted or generated by a session in between (Handler::confirm).      *)
ConfirmedOnce ==
    \A i \in DOMAIN hist.ran :
        LET run == hist.ran[i]
        IN Impactful(run.cmd) =>
             /\ run.code \in DOMAIN asked
             /\ asked[run.code].user = run.user
             /\ asked[run.code].cmd = run.cmd
             /\ run.at <= asked[run.code].at + TTL
             /\ \A j \in DOMAIN hist.ran : hist.ran[j].code = run.code => i = j

(* In no hour more actions run than the limit, typed, confirmed and        *)
(* generated ones together, unless the daemon restarts and forgets them    *)
(* (Handler::execute).                                                     *)
HourlyLimit ==
    \A t \in 0..now, l \in 0..life :
        Cardinality({i \in DOMAIN hist.ran :
            /\ hist.ran[i].life = l
            /\ hist.ran[i].at <= t /\ hist.ran[i].at + Hour > t}) <= ActionLimit

(* A case has one thread, whichever answer of Discord or save was lost, and *)
(* it is told the case, or the end, again only for a fault                 *)
(* (ops_gateway::reconcile_thread, ThreadCase::resolution_posted).         *)
OneThread ==
    \A c \in CaseIds :
        /\ Len(threads[c]) <= 1
        /\ hist.openings[c] <= 1 + faults /\ hist.notes[c] <= 1 + faults

(* A case is called resolved, in its thread or in the file, only when the  *)
(* worker had an answer, and leaves with that told and its thread archived *)
(* or with a line in the decision log that they could not be               *)
(* (OpsAgent::resolve_answer, finalize_exhausted).                         *)
ResolvedByAnswer ==
    \A c \in CaseIds :
        /\ file[c].resolution # "open" \/ hist.notes[c] > 0 => c \in hist.answered
        /\ file[c].resolution = "resolved" =>
              (file[c].posted /\ file[c].archived) \/ c \in hist.audited

(* However often Discord fails for a while, every escalated case gets its  *)
(* thread and opening, and every resolution begun ends.                    *)
CasesHandled ==
    []<>(\A c \in CaseIds :
            /\ c \in escalated => hist.openings[c] > 0
            /\ ops[c].resolution # "pending")

(* What a channel may have done: confirmed things, within the limit.       *)
CommandsSafe == ConfirmedOnce /\ HourlyLimit

(* What becomes of a case: one thread, and an end that is true.            *)
ThreadsSafe == OneThread /\ ResolvedByAnswer

=============================================================================
