--------------------------------- MODULE Inbox ---------------------------------
(***************************************************************************)
(* The inbox workers report through, and the daemon's use of it:           *)
(* src/overseer/inbox.rs, with the order run_daemon (daemon.rs) reads,     *)
(* saves and commits in.                                                   *)
(*                                                                         *)
(* Workers append lines to a file under an advisory lock.  The daemon      *)
(* reads from an offset on, applies what it read to the ledger, saves the  *)
(* ledger, and only then commits the offset; an offset past the rotation   *)
(* threshold replaces the file by its unread tail first.  The daemon may   *)
(* die between any two of these writes and workers write on meanwhile.     *)
(*                                                                         *)
(* A line is two units long, its text and its newline, so that a line can  *)
(* be torn and an offset can fall inside one.                              *)
(***************************************************************************)
EXTENDS Integers, Sequences, FiniteSets

CONSTANTS
    RotationThreshold,  \* ROTATION_THRESHOLD, in units
    MaxReports,         \* bound: reports workers try to send
    MaxTorn,            \* bound: of these, appends that stop half-way
    MaxFailures,        \* bound: reads of the inbox that fail
    MaxCrashes          \* bound: daemon crashes

ASSUME InboxAssumption ==
    /\ RotationThreshold \in Nat
    /\ MaxReports \in Nat
    /\ MaxTorn \in Nat
    /\ MaxFailures \in Nat
    /\ MaxCrashes \in Nat

Reports == 1..MaxReports

VARIABLES
    file,         \* inbox.jsonl: a sequence of units
    savedOffset,  \* inbox.offset
    offset,       \* InboxReader::offset
    pending,      \* InboxReader::pending_offset, or NoOffset
    applied,      \* [Reports -> Nat]: times in the ledger in memory
    ledger,       \* the same in the ledger as last saved
    pc,           \* where the daemon's pass is, or "down"
    written,      \* reports workers have tried to send
    sent,         \* those whose append returned Ok, behind a whole line
    failures,     \* failed reads so far
    crashes,      \* crashes so far
    torn,         \* torn appends so far
    interrupted,  \* a rotation's second write has yet to land: savedOffset
                  \* is an offset into the file the rotation replaced
    misread       \* a read began at such an offset (history)

fileVars == <<file, savedOffset>>
readerVars == <<offset, pending, applied, pc>>
workerVars == <<written, sent, torn>>
vars == <<fileVars, readerVars, ledger, workerVars, failures, crashes,
          interrupted, misread>>

NoOffset == -1

Text(report) == [report |-> report, newline |-> FALSE]
Newline(report) == [report |-> report, newline |-> TRUE]

Units == [report: Reports, newline: BOOLEAN]

Init ==
    /\ file = <<>>
    /\ savedOffset = 0
    /\ offset = 0
    /\ pending = NoOffset
    /\ applied = [r \in Reports |-> 0]
    /\ ledger = applied
    /\ pc = "gather"
    /\ written = 0
    /\ sent = {}
    /\ failures = 0
    /\ crashes = 0
    /\ torn = 0
    /\ interrupted = FALSE
    /\ misread = FALSE

-----------------------------------------------------------------------------
(* Workers                                                                 *)

(* The file's lock: the daemon holds it over both writes of a rotation.    *)
Unlocked == pc # "rotate"

Appending ==
    /\ Unlocked
    /\ written < MaxReports
    /\ written' = written + 1
    /\ UNCHANGED <<savedOffset, readerVars, ledger, failures, crashes,
                   interrupted, misread>>

EndsTorn == file # <<>> /\ ~file[Len(file)].newline

(* append_report_to.  Behind a torn line the two make one line that does   *)
(* not parse, and read_locked skips it.                                    *)
AppendReport ==
    /\ Appending
    /\ file' = file \o <<Text(written'), Newline(written')>>
    /\ sent' = IF EndsTorn THEN sent ELSE sent \cup {written'}
    /\ UNCHANGED torn

(* The disk is full half-way through the line; the worker is told.         *)
AppendTorn ==
    /\ Appending
    /\ torn < MaxTorn
    /\ torn' = torn + 1
    /\ file' = file \o <<Text(written')>>
    /\ UNCHANGED sent

-----------------------------------------------------------------------------
(* InboxReader                                                             *)

(* Mutant: an offset past the end of the file is trusted.                  *)
TrustingStart == offset

(* read_locked: an offset past the end means the file was replaced.        *)
Start == IF offset > Len(file) THEN 0 ELSE offset

(* A crash left savedOffset in the middle of the file that took its place. *)
Misplaced == interrupted /\ savedOffset \in 1..Len(file)

LineEnds(from) == {i \in (from + 1)..Len(file) : file[i].newline}

(* Where the last whole line from `from` on ends; an unfinished one waits. *)
ReadTo(from) == {i \in {from} \cup LineEnds(from) : LineEnds(i) = {}}

(* The lines from `from` on that parse: the text of one report and its     *)
(* newline, with nothing torn before it.                                   *)
Legible(from) ==
    {i \in LineEnds(from) :
        /\ i > from + 1
        /\ file[i - 1] = Text(file[i].report)
        /\ i = from + 2 \/ file[i - 2].newline}

ReportsFrom(from) == {file[i].report : i \in Legible(from)}

(* observations::gather and reconcile: every report read is applied.       *)
ReadNew ==
    /\ pc = "gather"
    /\ pc' = "save"
    /\ pending' \in ReadTo(Start)
    /\ applied' = [r \in Reports |-> IF r \in ReportsFrom(Start)
                                     THEN applied[r] + 1 ELSE applied[r]]
    /\ misread' = (misread \/ Misplaced)
    /\ UNCHANGED <<fileVars, offset, ledger, workerVars, failures, crashes,
                   interrupted>>

(* A read that fails is an error of the observation, and the pass goes on. *)
ReadFails ==
    /\ pc = "gather"
    /\ failures < MaxFailures
    /\ failures' = failures + 1
    /\ pc' = "save"
    /\ UNCHANGED <<fileVars, offset, pending, applied, ledger, workerVars,
                   crashes, interrupted, misread>>

(* The ledger is saved; what was read is acknowledged after that.          *)
SaveLedger ==
    /\ pc = "save"
    /\ ledger' = applied
    /\ pc' = "commit"
    /\ UNCHANGED <<fileVars, offset, pending, applied, workerVars, failures,
                   crashes, interrupted, misread>>

(* Mutant: a rotation keeps what was read as well.                         *)
WholeFile == file

(* What rotate_locked keeps.                                               *)
UnreadTail == SubSeq(file, pending + 1, Len(file))

(* Mutant: the offset may be committed before the ledger is saved.         *)
EarlyCommitting ==
    /\ pc \in {"save", "commit"}
    /\ pending # NoOffset
    /\ UNCHANGED <<applied, ledger, workerVars, failures, crashes, misread>>

Committing ==
    /\ pc = "commit"
    /\ pending # NoOffset
    /\ UNCHANGED <<applied, ledger, workerVars, failures, crashes, misread>>

(* rotate_locked replaces the file when that makes it shorter than what    *)
(* was read of it.                                                         *)
Rotates ==
    /\ pending >= RotationThreshold
    /\ Len(file) - pending < pending

(* Nothing was read: nothing to commit.                                    *)
CommitNothing ==
    /\ pc = "commit"
    /\ pending = NoOffset
    /\ pc' = "gather"
    /\ UNCHANGED <<fileVars, offset, pending, applied, ledger, workerVars,
                   failures, crashes, interrupted, misread>>

CommitOffset ==
    /\ Committing
    /\ ~Rotates
    /\ offset' = pending
    /\ savedOffset' = pending
    /\ pending' = NoOffset
    /\ interrupted' = FALSE
    /\ pc' = "gather"
    /\ UNCHANGED file

RotateFile ==
    /\ Committing
    /\ Rotates
    /\ offset' = pending
    /\ file' = UnreadTail
    /\ interrupted' = TRUE
    /\ pc' = "rotate"
    /\ UNCHANGED <<savedOffset, pending>>

RotateOffset ==
    /\ pc = "rotate"
    /\ savedOffset' = 0
    /\ offset' = 0
    /\ pending' = NoOffset
    /\ interrupted' = FALSE
    /\ pc' = "gather"
    /\ UNCHANGED <<file, applied, ledger, workerVars, failures, crashes,
                   misread>>

-----------------------------------------------------------------------------
(* The daemon's process                                                    *)

Crash ==
    /\ pc # "down"
    /\ crashes < MaxCrashes
    /\ crashes' = crashes + 1
    /\ pc' = "down"
    /\ applied' = ledger
    /\ pending' = NoOffset
    /\ UNCHANGED <<fileVars, offset, ledger, workerVars, failures,
                   interrupted, misread>>

(* InboxReader::from_path                                                  *)
Restart ==
    /\ pc = "down"
    /\ pc' = "gather"
    /\ offset' = savedOffset
    /\ UNCHANGED <<fileVars, pending, applied, ledger, workerVars, failures,
                   crashes, interrupted, misread>>

DaemonStep ==
    \/ ReadNew \/ ReadFails \/ SaveLedger
    \/ CommitNothing \/ CommitOffset \/ RotateFile \/ RotateOffset
    \/ Restart

Next == AppendReport \/ AppendTorn \/ DaemonStep \/ Crash

Spec == Init /\ [][Next]_vars

(* The daemon keeps passing, and launchd starts it again when it dies.     *)
FairSpec == Spec /\ WF_vars(DaemonStep)

-----------------------------------------------------------------------------
(* Properties                                                              *)

(* Every variable has its type, and what is read is in the file.           *)
TypeOK ==
    /\ file \in Seq(Units)
    /\ savedOffset \in Nat
    /\ offset \in Nat
    /\ pending \in Nat \cup {NoOffset}
    /\ pc # "rotate" => pending <= Len(file)
    /\ applied \in [Reports -> Nat]
    /\ ledger \in [Reports -> Nat]
    /\ pc \in {"gather", "save", "commit", "rotate", "down"}
    /\ written \in 0..MaxReports
    /\ sent \subseteq 1..written
    /\ failures \in 0..MaxFailures
    /\ crashes \in 0..MaxCrashes
    /\ torn \in 0..MaxTorn
    /\ interrupted \in BOOLEAN
    /\ misread \in BOOLEAN

(* Where a daemon started now would read from.                             *)
ResumeAt == IF savedOffset > Len(file) THEN 0 ELSE savedOffset

Unsaved == {r \in sent : ledger[r] = 0}

(* A report is lost only to a rotation interrupted between its two writes: *)
(* until the saved ledger has it, a restart would read it, wherever the    *)
(* daemon dies (daemon.rs: the ledger is saved before the offset).         *)
NothingSkipped ==
    misread \/ Misplaced \/ Unsaved \subseteq ReportsFrom(ResumeAt)

(* Reports reach the ledger in the order they were written: a worker's     *)
(* "unblocked" never before its "blocked" (InboxReader::read_new).         *)
OldestFirst ==
    misread \/ \A r, q \in sent :
                   r < q /\ ledger[q] > 0 => ledger[r] > 0

(* A report is applied again only because of a crash, and at most once for *)
(* each (InboxReader::commit).                                             *)
RepeatsBounded == \A r \in Reports : ledger[r] <= crashes + 1

(* Every report is in the saved ledger in the end, through failed reads,   *)
(* torn lines, rotations and crashes.                                      *)
EventuallyApplied ==
    \A r \in Reports : r \in sent ~> (ledger[r] > 0 \/ misread)

(* Reports come through: none lost, none overtaken, none repeated but for  *)
(* a crash.                                                                *)
InboxSafe == NothingSkipped /\ OldestFirst /\ RepeatsBounded

===============================================================================
