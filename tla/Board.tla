--------------------------------- MODULE Board ---------------------------------
(***************************************************************************)
(* The Overseer inbox: rows worked out afresh from the decision log, the   *)
(* ledger and the list of dismissals (ui/inbox_aggregate.rs), by the UI's  *)
(* background capture and its synchronous refresh                          *)
(* (ui/actions/overseer_refresh.rs), and by the CLI and the MCP tools,     *)
(* each of which may dismiss what it lists (overseer/dismissals.rs).       *)
(*                                                                         *)
(* A moment is a place in the decision log: what is compared is only which *)
(* of two lines is newer, and whether a line is still in the tail.  Of the *)
(* escalations of one target only the newest can be a row, so the log is   *)
(* its length and, of every target, the place of the newest.               *)
(***************************************************************************)
EXTENDS Naturals

CONSTANTS
    BoardTasks,      \* tasks the ledger may hold
    Overseer,   \* the target of an escalation that names no task
    SnapshotLimit,       \* DECISION_SNAPSHOT_LIMIT, in lines
    MaxLines,   \* bound: lines in the log
    MaxBoardEvents   \* bound: failed captures, and listings by anybody else

ASSUME BoardAssumption ==
    /\ Overseer \notin BoardTasks
    /\ SnapshotLimit \in Nat \ {0}
    /\ {MaxLines, MaxBoardEvents} \subseteq Nat

VARIABLES
    lines,     \* decisions.jsonl: how many lines
    spoke,     \* [Targets -> place of the newest Escalate line, or 0]
    work,      \* ledger.json: [BoardTasks -> entry or NoWork]
    dismissed, \* inbox_dismissals.json: [Targets -> dismissed_through, or 0]
    board,     \* what the UI lists: overseer_inbox, overseer_inbox_targets
    capture,   \* BackgroundRefresh: the status capture in flight
    superseded,\* whether the UI refreshed by itself since it started
    other,     \* a `robco overseer` or MCP call that lists, and dismisses
    listed,    \* [Targets -> the newest row any of them has listed]
    cleared,   \* [Targets -> the newest row the UI dismissed, until pruned]
    boardEvents

sourceVars == <<lines, spoke, work>>
boardVars == <<sourceVars, dismissed, board, capture, superseded, other, listed,
               cleared, boardEvents>>

Targets == BoardTasks \cup {Overseer}
Places == 0 .. MaxLines
BoardRows == [Targets -> Places]
NoRows == [t \in Targets |-> 0]

NoWork == [phase |-> "none", at |-> 0]
WorkPhases == {"none", "working", "escalated", "merged"}

Ledgers == [BoardTasks -> [phase : WorkPhases, at : Places]]
NoLedger == [t \in BoardTasks |-> NoWork]
NoBoard == [rows |-> NoRows, targets |-> {}]

(* A listing under way: it reads the ledger, the tail of the log, and the  *)
(* dismissals, one after another.                                          *)
Idle == [step |-> "idle", work |-> NoLedger, board |-> NoBoard]
Steps == {"idle", "ledger", "tail", "dismissals", "done"}
Boards == [rows : BoardRows, targets : SUBSET Targets]
Listings == [step : Steps, work : Ledgers, board : Boards]

BoardTypeOK ==
    /\ lines \in Places /\ spoke \in BoardRows
    /\ work \in Ledgers
    /\ {dismissed, listed, cleared} \subseteq BoardRows
    /\ board \in Boards
    /\ {capture, other} \subseteq Listings
    /\ superseded \in BOOLEAN
    /\ boardEvents \in 0 .. MaxBoardEvents

BoardInit ==
    /\ lines = 0 /\ spoke = NoRows
    /\ work = NoLedger
    /\ dismissed = NoRows
    /\ board = NoBoard
    /\ capture = Idle /\ other = Idle /\ superseded = FALSE
    /\ listed = NoRows /\ cleared = NoRows
    /\ boardEvents = 0

-----------------------------------------------------------------------------
(* The rows                                                                *)

InTail(place) == place > 0 /\ place + SnapshotLimit > lines

Later(p, q) == IF p > q THEN p ELSE q

(* aggregate, before the dismissals: of every target the newest of its     *)
(* escalation in the tail, unless its work has merged, and of its entry    *)
(* parked at phase escalated, which is as old as its dispatch.             *)
Aggregate(ledger) ==
    [t \in Targets |->
        LET entry == IF t \in BoardTasks THEN ledger[t] ELSE NoWork
            said == IF InTail(spoke[t]) /\ entry.phase # "merged" THEN spoke[t] ELSE 0
            parked == IF entry.phase = "escalated" THEN entry.at ELSE 0
        IN Later(said, parked)]

TargetsOf(rows) == {t \in Targets : rows[t] > 0}

(* Dismissals::suppresses *)
Suppressed(through, rows, t) == rows[t] <= through[t]

(* Mutant: a dismissal hides its target for good.                          *)
SuppressedForGood(through, rows, t) == rows[t] = 0 \/ through[t] > 0

Undismissed(through, rows) ==
    [t \in Targets |-> IF Suppressed(through, rows, t) THEN 0 ELSE rows[t]]

Seen(rows) == listed' = [t \in Targets |-> Later(listed[t], rows[t])]

-----------------------------------------------------------------------------
(* dismissals.rs                                                           *)

(* Mutant: dismissed through the present moment instead of the row's own.  *)
DismissThroughNow(rows, live) ==
    [t \in Targets |-> IF rows[t] > 0 THEN lines
                       ELSE IF t \in live THEN dismissed[t] ELSE 0]

(* dismiss_at, under the lock of the file: entries of targets that are not *)
(* live to the caller are pruned, then the rows are recorded.              *)
DismissAt(rows, live) ==
    [t \in Targets |-> Later(rows[t], IF t \in live THEN dismissed[t] ELSE 0)]

(* What the UI has dismissed stays so for as long as nobody prunes it.     *)
Dismisses(rows, live, mine) ==
    /\ dismissed' = DismissAt(rows, live)
    /\ cleared' = [t \in Targets |->
                     Later(IF mine THEN rows[t] ELSE 0,
                           IF t \in live \/ rows[t] > 0 THEN cleared[t] ELSE 0)]

Only(t, rows) == [u \in Targets |-> IF u = t THEN rows[t] ELSE 0]

-----------------------------------------------------------------------------
(* The daemon writes                                                       *)

Logs == lines < MaxLines /\ lines' = lines + 1

BoardQuiet == UNCHANGED <<dismissed, board, capture, superseded, other, listed,
                          cleared, boardEvents>>

(* A line that escalates nothing: a hold, a dispatch of something else.    *)
LogsLine == Logs /\ UNCHANGED <<spoke, work>> /\ BoardQuiet

Dispatches(t) ==
    /\ work[t].phase = "none"
    /\ Logs
    /\ work' = [work EXCEPT ![t] = [phase |-> "working", at |-> lines + 1]]
    /\ UNCHANGED spoke /\ BoardQuiet

(* An escalation of a task's work parks its entry.                         *)
Escalates(t) ==
    /\ work[t].phase \in {"working", "escalated"}
    /\ Logs
    /\ spoke' = [spoke EXCEPT ![t] = lines + 1]
    /\ work' = [work EXCEPT ![t].phase = "escalated"]
    /\ BoardQuiet

(* An escalation with no entry behind it: a board finding.                 *)
EscalatesItself ==
    /\ Logs
    /\ spoke' = [spoke EXCEPT ![Overseer] = lines + 1]
    /\ UNCHANGED work /\ BoardQuiet

Settles(t) ==
    /\ \/ work[t].phase = "escalated"
          /\ work' = [work EXCEPT ![t].phase = "working"]
       \/ work[t].phase \in {"working", "escalated"}
          /\ work' = [work EXCEPT ![t].phase = "merged"]
       \/ work[t].phase = "merged"                      \* retention
          /\ work' = [work EXCEPT ![t] = NoWork]
    /\ UNCHANGED <<lines, spoke>> /\ BoardQuiet

-----------------------------------------------------------------------------
(* The UI                                                                  *)

(* What a listing is after its next read.                                  *)
AfterRead(r) ==
    CASE r.step = "ledger" ->
            [r EXCEPT !.step = "tail", !.work = work]
      [] r.step = "tail" ->
            LET rows == Aggregate(r.work)
            IN [Idle EXCEPT !.step = "dismissals",
                            !.board = [rows |-> rows, targets |-> TargetsOf(rows)]]
      [] r.step = "dismissals" ->
            [r EXCEPT !.step = "done", !.board.rows = Undismissed(dismissed, @)]

Reading(r) == r.step \in {"ledger", "tail", "dismissals"}

(* schedule_status_refresh: one capture at a time.                         *)
Schedules ==
    /\ capture.step = "idle"
    /\ capture' = [Idle EXCEPT !.step = "ledger"]
    /\ superseded' = FALSE
    /\ UNCHANGED <<sourceVars, dismissed, board, other, listed, cleared, boardEvents>>

Captures ==
    /\ Reading(capture)
    /\ capture' = AfterRead(capture)
    /\ UNCHANGED <<sourceVars, dismissed, board, superseded, other, listed, cleared,
                   boardEvents>>

(* A ledger that cannot be read counts as an empty one; a capture that     *)
(* panics leaves no result, and the next one is started as if it had.      *)
CaptureFails ==
    /\ boardEvents < MaxBoardEvents /\ boardEvents' = boardEvents + 1
    /\ \/ capture.step = "ledger" /\ capture' = [capture EXCEPT !.step = "tail"]
       \/ Reading(capture) /\ capture' = Idle
    /\ UNCHANGED <<sourceVars, dismissed, board, superseded, other, listed, cleared>>

(* Mutant: whatever arrives last is shown.                                 *)
NeverStale == FALSE

(* apply_status: a capture the UI has overtaken says nothing of the inbox. *)
Stale == superseded

(* Mutant: a result that is not applied leaves its capture in flight.      *)
IngestsFresh ==
    /\ capture.step = "done" /\ ~superseded
    /\ capture' = Idle
    /\ board' = capture.board /\ Seen(board'.rows)
    /\ UNCHANGED <<sourceVars, dismissed, superseded, other, cleared, boardEvents>>

BoardIngests ==
    /\ capture.step = "done"
    /\ capture' = Idle
    /\ IF Stale THEN UNCHANGED <<board, listed>>
       ELSE board' = capture.board /\ Seen(board'.rows)
    /\ UNCHANGED <<sourceVars, dismissed, superseded, other, cleared, boardEvents>>

(* apply_dismissals, with the refresh that follows it: the row the cursor  *)
(* is on, or the newest of the selected worker; an approval is typed into  *)
(* the worker's session first, and dismisses the same row.                 *)
Acknowledges(t) ==
    /\ board.rows[t] > 0
    /\ Dismisses(Only(t, board.rows), board.targets, TRUE)
    /\ board' = [rows |-> Undismissed(dismissed', Aggregate(work)),
                 targets |-> TargetsOf(Aggregate(work))]
    /\ Seen(board'.rows)
    /\ superseded' = TRUE
    /\ UNCHANGED <<sourceVars, capture, other, boardEvents>>

(* The UI is left and opened again: initial_tick captures for itself.      *)
BoardReopens ==
    /\ board' = [rows |-> Undismissed(dismissed, Aggregate(work)),
                 targets |-> TargetsOf(Aggregate(work))]
    /\ Seen(board'.rows)
    /\ capture' = Idle /\ superseded' = FALSE
    /\ UNCHANGED <<sourceVars, dismissed, other, cleared, boardEvents>>

-----------------------------------------------------------------------------
(* Anybody else: inbox::current, then a dismissal of one row or of all     *)

Calls ==
    /\ other.step = "idle" /\ boardEvents < MaxBoardEvents /\ boardEvents' = boardEvents + 1
    /\ other' = [Idle EXCEPT !.step = "ledger"]
    /\ UNCHANGED <<sourceVars, dismissed, board, capture, superseded, listed, cleared>>

Lists ==
    /\ Reading(other)
    /\ other' = AfterRead(other)
    /\ IF other'.step = "done" THEN Seen(other'.board.rows) ELSE UNCHANGED listed
    /\ UNCHANGED <<sourceVars, dismissed, board, capture, superseded, cleared, boardEvents>>

Answers ==
    /\ other.step = "done"
    /\ other' = Idle
    /\ \/ \E t \in Targets : other.board.rows[t] > 0
             /\ Dismisses(Only(t, other.board.rows), other.board.targets, FALSE)
       \/ other.board.rows # NoRows                     \* clear_inbox, dismiss_all
          /\ Dismisses(other.board.rows, other.board.targets, FALSE)
       \/ UNCHANGED <<dismissed, cleared>>
    /\ UNCHANGED <<sourceVars, board, capture, superseded, listed, boardEvents>>

-----------------------------------------------------------------------------

BoardStep ==
    \/ LogsLine \/ EscalatesItself
    \/ \E t \in BoardTasks : Dispatches(t) \/ Escalates(t) \/ Settles(t)
    \/ Schedules \/ Captures \/ CaptureFails \/ BoardIngests \/ BoardReopens
    \/ \E t \in Targets : Acknowledges(t)
    \/ Calls \/ Lists \/ Answers

(* The event loop schedules a capture at every tick and takes its result   *)
(* in before it draws; the capture's thread runs to its end.               *)
BoardFairness ==
    WF_boardVars(Schedules) /\ WF_boardVars(Captures) /\ WF_boardVars(BoardIngests)

BoardSpec == BoardInit /\ [][BoardStep]_boardVars /\ BoardFairness

-----------------------------------------------------------------------------
(* Properties                                                              *)

(* A row the operator dismissed in the UI does not come back on its screen *)
(* with what was dismissed, whatever capture was under way then, unless    *)
(* somebody who did not know of its target has pruned the dismissal.       *)
DismissedStaysOff ==
    \A t \in Targets : board.rows[t] > 0 => board.rows[t] > cleared[t]

(* Nothing is hidden that nobody was shown: a dismissal reaches as far as  *)
(* a row somebody listed and no further, however stale the list was.       *)
NothingUnseenMuted == \A t \in Targets : dismissed[t] <= listed[t]

(* What is off the inbox was dismissed, and what was dismissed was seen.   *)
BoardSafe == DismissedStaysOff /\ NothingUnseenMuted

(* What a listing made now would show reaches the screen, unless it is     *)
(* dismissed, settled or scrolled out first.                               *)
WouldShow(t) == Aggregate(work)[t] > dismissed[t]
EscalationsSurface == \A t \in Targets : WouldShow(t) ~> (board.rows[t] > 0 \/ ~WouldShow(t))

=============================================================================
