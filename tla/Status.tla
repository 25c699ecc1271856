--------------------------------- MODULE Status ---------------------------------
(***************************************************************************)
(* The status the terminal UI shows of one tmux session, a worker's, the   *)
(* main session of a repository or the control session (status/*,          *)
(* ui/actions/background_refresh.rs, background_support.rs and             *)
(* overseer_refresh.rs): a thread probes tmux and classifies the screen on *)
(* a copy of the row, answers a prompt for the operator, and hands the     *)
(* copy back while the session, the clock and the UI go on.                *)
(*                                                                         *)
(* A screen is its text without what is not content, a number that grows,  *)
(* the frame of its spinner and the marks the classifier looks for.  Times *)
(* are ages in seconds; an age past the one the code compares with is told *)
(* from no other.                                                          *)
(***************************************************************************)
EXTENDS Naturals

CONSTANTS
    SettleSecs,    \* a screen that changed this lately is at work
    CooldownSecs,  \* no prompt is answered again sooner
    Screens,       \* the sets of marks screens show
    MaxScreens,    \* bound: texts a screen shows
    MaxTurns,      \* bound: sessions that end or begin, what else is gone
    MaxLapses      \* bound: probes that fail and captures that panic

ASSUME StatusAssumption ==
    /\ {SettleSecs, CooldownSecs, MaxScreens} \subseteq Nat \ {0}
    /\ Screens \subseteq SUBSET {"asks", "works", "caret", "query", "spins"}
    /\ {} \in Screens
    /\ {MaxTurns, MaxLapses} \subseteq Nat

VARIABLES
    which,    \* whose session
    pane,     \* the session, its screen, and what is left of a worker
    shown,    \* the row
    capture,  \* the capture in flight, and the copy it works on
    past,     \* what happened, for the properties
    turns, lapses

statusVars == <<which, pane, shown, capture, past, turns, lapses>>

Frames(marks) == IF "spins" \in marks THEN {"up", "down"} ELSE {"none"}
Unseen == 0     \* the text before the first capture

Rows == [status : {"none", "running", "waiting", "done", "idle", "dead", "branch"},
         text : 0 .. MaxScreens, spin : {"none", "up", "down"},
         changed : 0 .. SettleSecs, sent : 0 .. CooldownSecs]

NewRow == [status |-> "none", text |-> Unseen, spin |-> "none",
           changed |-> SettleSecs, sent |-> CooldownSecs]

NoCapture == [at |-> "idle", row |-> NewRow, saw |-> "unknown", shell |-> FALSE,
              read |-> FALSE, moving |-> FALSE, stale |-> FALSE]

StatusTypeOK ==
    /\ which \in {"worker", "main", "control"}
    /\ pane \in [alive : BOOLEAN, shell : BOOLEAN, marks : Screens, text : 1 .. MaxScreens,
                 left : {"worktree", "branch", "nothing"}]
    /\ shown \in Rows
    /\ capture \in [at : {"idle", "panes", "screen", "type", "result"}, row : Rows,
                    saw : {"alive", "gone", "unknown"}, shell : BOOLEAN,
                    read : BOOLEAN, moving : BOOLEAN, stale : BOOLEAN]
    /\ past \in [age : 0 .. SettleSecs, typed : 0 .. CooldownSecs, gone : BOOLEAN,
                 met : BOOLEAN, spin : {"none", "up", "down"}]
    /\ turns \in 0 .. MaxTurns /\ lapses \in 0 .. MaxLapses

StatusInit ==
    /\ which \in {"worker", "main", "control"}
    /\ \E alive \in BOOLEAN :
          pane = [alive |-> alive, shell |-> FALSE, marks |-> {}, text |-> 1,
                  left |-> "worktree"]
    /\ shown = NewRow
    /\ capture = NoCapture
    /\ past = [age |-> SettleSecs, typed |-> CooldownSecs, gone |-> FALSE,
               met |-> FALSE, spin |-> "none"]
    /\ turns = 0 /\ lapses = 0

Lapse == lapses < MaxLapses /\ lapses' = lapses + 1

-----------------------------------------------------------------------------
(* The session, its program and the clock *)

Turns == turns < MaxTurns /\ turns' = turns + 1 /\ UNCHANGED <<which, shown, lapses>>

(* A change counts once the row knows what it was before.                  *)
Stirs == past' = [past EXCEPT !.age = IF past.met THEN 0 ELSE @]

NewText ==
    /\ pane.alive /\ pane.text < MaxScreens
    /\ pane' = [pane EXCEPT !.text = @ + 1]
    /\ Stirs
    /\ UNCHANGED <<which, shown, capture, turns, lapses>>

Redraws ==
    /\ pane.alive
    /\ \E marks \in Screens \ {pane.marks} : pane' = [pane EXCEPT !.marks = marks]
    /\ UNCHANGED <<which, shown, capture, past, turns, lapses>>

SessionEnds ==
    /\ pane.alive /\ Turns
    /\ pane' = [pane EXCEPT !.alive = FALSE]
    /\ past' = [past EXCEPT !.gone = TRUE]
    /\ UNCHANGED capture

SessionBegins ==
    /\ ~pane.alive /\ pane.text < MaxScreens /\ Turns
    /\ pane' = [pane EXCEPT !.alive = TRUE, !.text = @ + 1, !.marks = {}, !.shell = FALSE]
    /\ Stirs
    /\ UNCHANGED capture

(* The program ends, and its pane is a shell.                              *)
ProgramEnds ==
    /\ pane.alive /\ ~pane.shell /\ Turns
    /\ pane' = [pane EXCEPT !.shell = TRUE]
    /\ UNCHANGED <<capture, past>>

WorktreeGoes ==
    /\ pane.left # "nothing" /\ Turns
    /\ \E left \in {"branch", "nothing"} \ {pane.left} : pane' = [pane EXCEPT !.left = left]
    /\ UNCHANGED <<capture, past>>

Older(age, most) == IF age < most THEN age + 1 ELSE age
Aged(r) == [r EXCEPT !.changed = Older(@, SettleSecs), !.sent = Older(@, CooldownSecs)]

Second ==
    /\ shown' = Aged(shown)
    /\ capture' = [capture EXCEPT !.row = Aged(@)]
    /\ past' = [past EXCEPT !.age = Older(@, SettleSecs), !.typed = Older(@, CooldownSecs)]
    /\ UNCHANGED <<which, pane, turns, lapses>>

-----------------------------------------------------------------------------
(* classify_capture *)

(* The signature leaves spinners out.                                      *)
LastChange(r) == IF r.text # Unseen /\ r.text # pane.text THEN 0 ELSE r.changed

SpinnerMoved(r, frame) == "none" \notin {r.spin, frame} /\ r.spin # frame

(* A line that ends in a question counts only where there is no caret.     *)
AsksOperator(marks) == "asks" \in marks \/ ("query" \in marks /\ marks \cap {"works", "caret"} = {})

Classified(r, frame) ==
    [r EXCEPT !.text = pane.text, !.spin = frame, !.changed = LastChange(r),
              !.status = IF AsksOperator(pane.marks) THEN "waiting"
                         ELSE IF \/ "works" \in pane.marks
                                 \/ LastChange(r) < SettleSecs
                                 \/ SpinnerMoved(r, frame) THEN "running"
                         ELSE IF "caret" \in pane.marks THEN "done" ELSE "idle"]

(* downgrade_running_shell_pane, by the panes as they were listed.         *)
Downgraded(r, shell) ==
    [r EXCEPT !.status = IF @ = "running" /\ shell THEN "idle" ELSE @]

-----------------------------------------------------------------------------
(* The capture *)

(* One at a time; a thread that hangs holds the slot.                      *)
Schedule ==
    /\ capture.at = "idle"
    /\ capture' = [NoCapture EXCEPT !.at = "panes", !.row = shown]
    /\ past' = [past EXCEPT !.gone = ~pane.alive]
    /\ UNCHANGED <<which, pane, shown, turns, lapses>>

Captures(step) ==
    /\ capture' = step
    /\ UNCHANGED <<which, pane, shown, turns>>

(* tmux list-panes; `saw` is unknown when it cannot be run.  One that runs *)
(* and answers with an error has no server, and so no session.             *)
ReadsGone(c) == [c EXCEPT !.at = "screen", !.saw = "gone"]
Unlisted(c) == [c EXCEPT !.at = "result"]

ListsPanes ==
    /\ capture.at = "panes"
    /\ \/ /\ Captures([capture EXCEPT !.at = "screen", !.shell = pane.shell,
                                      !.saw = IF pane.alive THEN "alive" ELSE "gone"])
          /\ UNCHANGED lapses
       \/ Captures(Unlisted(capture)) /\ Lapse
    /\ UNCHANGED past

AbsentWorker(r, left) ==
    IF which = "worker" THEN [r EXCEPT !.status = IF left = "branch" THEN "branch" ELSE "dead"]
    ELSE r

(* What an absent session is: nothing for one that has no worktree.        *)
Absent(r, left) ==
    CASE which = "worker"  -> [r EXCEPT !.status = IF left = "branch" THEN "branch" ELSE "dead"]
      [] which = "main"    -> [NewRow EXCEPT !.sent = r.sent]
      [] which = "control" -> [r EXCEPT !.status = "none"]

(* The branch may not be readable.                                         *)
FindsGone ==
    /\ capture.at = "screen" /\ capture.saw = "gone"
    /\ \/ Captures([capture EXCEPT !.at = "result", !.row = Absent(@, pane.left)]) /\ UNCHANGED lapses
       \/ Captures([capture EXCEPT !.at = "result", !.row = Absent(@, "nothing")]) /\ Lapse
    /\ UNCHANGED past

(* tmux capture-pane, which fails where the session is gone by now, and    *)
(* what was known is kept.                                                 *)
Forgotten(r) == [NewRow EXCEPT !.status = r.status]
Kept(r) == r

(* maybe_auto_accept, with auto_accept on.                                 *)
Answers(r) == which = "worker" /\ "asks" \in pane.marks /\ r.sent = CooldownSecs

ReadsScreen ==
    /\ capture.at = "screen" /\ capture.saw = "alive"
    /\ \/ /\ pane.alive
          /\ \E frame \in Frames(pane.marks) :
                Captures([capture EXCEPT
                    !.at = IF Answers(capture.row) THEN "type" ELSE "result",
                    !.row = Downgraded(Classified(@, frame), capture.shell),
                    !.read = TRUE, !.moving = past.age < SettleSecs])
          /\ UNCHANGED lapses
       \/ /\ Captures([capture EXCEPT !.at = "result", !.row = Kept(@)])
          /\ IF pane.alive THEN Lapse ELSE UNCHANGED lapses
    /\ UNCHANGED past

(* The keys go to whatever is on the screen by now.                        *)
Types ==
    /\ capture.at = "type"
    /\ \/ /\ pane.alive
          /\ Captures([capture EXCEPT !.at = "result", !.row.sent = 0])
          /\ past' = [past EXCEPT !.typed = 0]
          /\ UNCHANGED lapses
       \/ /\ Captures([capture EXCEPT !.at = "result"])
          /\ IF pane.alive THEN Lapse ELSE UNCHANGED lapses
          /\ UNCHANGED past

(* copy_agent_status and copy_repo_status leave the spinner where it is;   *)
(* the control session's is kept with the rest.                            *)
CopiedStatus(target, source) ==
    [target EXCEPT !.status = source.status, !.text = source.text, !.changed = source.changed,
                   !.spin = IF which = "control" THEN source.spin ELSE @]
Copied(target, source) ==
    [target EXCEPT !.status = source.status, !.text = source.text, !.changed = source.changed,
                   !.sent = source.sent,
                   !.spin = IF which = "control" THEN source.spin ELSE @]

Knows(row) ==
    [past EXCEPT !.met = row.text # Unseen, !.spin = row.spin,
                 !.age = IF row.text = Unseen THEN SettleSecs ELSE @]

(* A control session that the UI refreshed itself since is not overwritten. *)
Ingest ==
    /\ capture.at = "result"
    /\ IF capture.stale THEN UNCHANGED <<shown, past>>
       ELSE /\ shown' = Copied(shown, capture.row)
            /\ past' = IF capture.saw = "gone" \/ capture.read THEN Knows(capture.row) ELSE past
    /\ capture' = NoCapture
    /\ UNCHANGED <<which, pane, turns, lapses>>

(* A capture that panics hands nothing back.                               *)
Panics ==
    /\ capture.at # "idle"
    /\ capture' = NoCapture
    /\ past' = [past EXCEPT !.typed = IF capture.row.sent < shown.sent THEN CooldownSecs ELSE @]
    /\ Lapse
    /\ UNCHANGED <<which, pane, shown, turns>>

(* refresh_overseer_snapshot, on the UI thread.                            *)
RefreshesNow ==
    /\ which = "control"
    /\ \/ pane.alive /\ \E frame \in Frames(pane.marks) : shown' = Classified(shown, frame)
       \/ ~pane.alive /\ shown' = Absent(shown, pane.left)
    /\ past' = Knows(shown')
    /\ capture' = [capture EXCEPT !.stale = capture.at # "idle"]
    /\ UNCHANGED <<which, pane, turns, lapses>>

-----------------------------------------------------------------------------
CaptureStep == ListsPanes \/ FindsGone \/ ReadsScreen \/ Types \/ Ingest

StatusStep ==
    \/ NewText \/ Redraws \/ SessionEnds \/ SessionBegins \/ ProgramEnds \/ WorktreeGoes
    \/ Second
    \/ Schedule \/ CaptureStep \/ Panics \/ RefreshesNow

StatusSpec == StatusInit /\ [][StatusStep]_statusVars

-----------------------------------------------------------------------------
(* Properties *)

(* No prompt of a worker is answered twice within the cooldown, unless the *)
(* capture that answered it was lost.                                      *)
AnswersApart ==
    [][capture.at = "type" /\ past'.typed = 0 => past.typed = CooldownSecs]_statusVars

(* A row turns dead only if the session was gone at some moment of the     *)
(* capture that says so: no failing probe does it.                         *)
DeadWhenGone ==
    [][shown'.status \in {"dead", "branch"} /\ shown'.status # shown.status
          => past.gone]_statusVars

Ingested ==
    /\ capture.at = "result" /\ ~capture.stale
    /\ capture' = NoCapture /\ lapses' = lapses

(* A session whose screen had changed less than SettleSecs before it was   *)
(* read is not shown at rest, whatever probes failed in between; a shell   *)
(* is.                                                                     *)
RestIsRest ==
    [][Ingested /\ capture.read /\ ~capture.shell /\ capture.moving
          => shown'.status \notin {"done", "idle"}]_statusVars

StatusSafe == AnswersApart /\ DeadWhenGone /\ RestIsRest

(* A spinner that moved from one capture to the next is motion: the        *)
(* session is shown at work.                                               *)
MotionSeen ==
    [][(/\ Ingested /\ capture.read /\ ~capture.shell
        /\ "none" \notin {capture.row.spin, past.spin} /\ capture.row.spin # past.spin)
          => shown'.status \in {"running", "waiting"}]_statusVars

(* What is so for good is shown for good.                                  *)
Resting == pane.alive /\ ~pane.shell /\ pane.marks = {"caret"}

StatusCatchesUp ==
    /\ (<>[](~pane.alive)) =>
          <>[](shown.status = IF which # "worker" THEN "none"
                              ELSE IF pane.left = "branch" THEN "branch" ELSE "dead")
    /\ (<>[]Resting /\ <>[][FALSE]_pane) => <>[](shown.status = "done")

StatusFairness ==
    /\ WF_statusVars(Second) /\ WF_statusVars(Schedule) /\ WF_statusVars(CaptureStep)

FairStatus == StatusSpec /\ StatusFairness

===============================================================================
