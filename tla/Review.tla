-------------------------------- MODULE Review --------------------------------
(***************************************************************************)
(* The periodic board review (overseer/review.rs): findings by arithmetic  *)
(* over the board (findings.rs, digest.rs), raised once while they last,   *)
(* and a model session that is shown rows of the inbox and answers with    *)
(* remarks and one sentence a row, kept in row_summaries.json and shown    *)
(* beside the rows (ui/inbox_aggregate.rs).                                *)
(*                                                                         *)
(* A finding is its key, a row of the inbox the number of its present      *)
(* case: a reason and the facts of its pull request, which                 *)
(* InboxItem::case_signature writes out.  A session names only rows it was *)
(* shown.                                                                  *)
(***************************************************************************)
EXTENDS Naturals, FiniteSets

CONSTANTS
    Ids,         \* targets that may have a row in the inbox
    Findings,    \* keys findings::detect can raise
    Remarks,     \* keys of what a session may remark
    MaxRows,     \* rows offered to a session
    Budget,      \* overseer.daily_review_budget
    Profile,     \* whether overseer.review_profile names a profile
    MaxCase,     \* bound: cases a row goes through
    MaxReviews,  \* bound: reviews that fall due
    MaxDays,     \* bound: days that begin
    MaxDeaths   \* bound: restarts of the daemon

ASSUME ReviewAssumption ==
    /\ Findings \cap Remarks = {}
    /\ Profile \in BOOLEAN
    /\ {MaxRows, Budget, MaxCase, MaxReviews, MaxDays, MaxDeaths} \subseteq Nat

VARIABLES
    row,      \* [Ids -> its present case, or 0 if it has no row]
    present,  \* the findings the board's state amounts to now
    rv,       \* ReviewPass in memory: where its tick is, and what it recalls
    session,  \* the active session: what it was shown, what it answered
    saved,    \* state.json: [due, recalled]
    count,    \* queue.json: sessions today
    spent,    \* sessions really started today
    sums,     \* row_summaries.json: [Ids -> [of, sig]], the case a sentence
              \* was written of and the one it is filed under
    told,     \* keys in the decision log since they were last saved as gone
    reviews, days, deaths

outside == <<row, present>>
reviewVars == <<outside, rv, session, saved, count, spent, sums, told, reviews, days, deaths>>

Keys == Findings \cup Remarks
ReviewCases == 0 .. MaxCase
NoCases == [i \in Ids |-> 0]
NoSum == [of |-> 0, sig |-> 0]

NoSession == [state |-> "none", shown |-> NoCases, remarks |-> {}, rows |-> {}]
SessionStates == {"none", "running", "answered", "failed"}

(* due: last_run is older than review_interval_mins.  gone: what this tick *)
(* found no longer there, which only `told` refers to.                     *)
NoReview == [pc |-> "idle", due |-> TRUE, recalled |-> {}, todo |-> {}, gone |-> {},
             pending |-> NoCases]
Stages == {"idle", "findings", "save", "spawn", "wait", "remarks", "record", "rows"}

ReviewTypeOK ==
    /\ row \in [Ids -> ReviewCases] /\ present \subseteq Findings
    /\ rv \in [pc : Stages, due : BOOLEAN, recalled : SUBSET Keys, todo : SUBSET Keys,
               gone : SUBSET Keys, pending : [Ids -> ReviewCases]]
    /\ session \in [state : SessionStates, shown : [Ids -> ReviewCases],
                    remarks : SUBSET Remarks, rows : SUBSET Ids]
    /\ saved \in [due : BOOLEAN, recalled : SUBSET Keys]
    /\ count \in Nat /\ spent \in Nat
    /\ sums \in [Ids -> [of : ReviewCases, sig : ReviewCases]]
    /\ told \subseteq Keys
    /\ reviews \in 0 .. MaxReviews /\ days \in 0 .. MaxDays /\ deaths \in 0 .. MaxDeaths

ReviewInit ==
    /\ row = NoCases /\ present = {}
    /\ rv = NoReview /\ session = NoSession
    /\ saved = [due |-> TRUE, recalled |-> {}]
    /\ count = 0 /\ spent = 0
    /\ sums = [i \in Ids |-> NoSum]
    /\ told = {}
    /\ reviews = 0 /\ days = 0 /\ deaths = 0

-----------------------------------------------------------------------------
(* The board moves on                                                      *)

PassQuiet == UNCHANGED <<rv, session, saved, count, spent, sums, told, days, deaths>>

RowChanges ==
    /\ \E i \in Ids :
          \/ row[i] < MaxCase /\ row' = [row EXCEPT ![i] = @ + 1]
          \/ row[i] > 0 /\ row' = [row EXCEPT ![i] = 0]   \* dismissed, merged
    /\ UNCHANGED <<present, reviews>> /\ PassQuiet

(* detect: a hold repeated, an entry stalled, a circuit open or about to.  *)
BoardChanges ==
    /\ \E f \in Findings :
          present' = IF f \in present THEN present \ {f} ELSE present \cup {f}
    /\ UNCHANGED <<row, reviews>> /\ PassQuiet

IntervalEnds ==
    /\ reviews < MaxReviews /\ reviews' = reviews + 1
    /\ rv' = [rv EXCEPT !.due = TRUE] /\ saved' = [saved EXCEPT !.due = TRUE]
    /\ UNCHANGED <<outside, session, count, spent, sums, told, days, deaths>>

(* Not between a charge and the start it is for: they share their moment.  *)
DayBegins ==
    /\ days < MaxDays /\ days' = days + 1
    /\ ~(rv.pc = "wait" /\ session.state = "none")
    /\ count' = 0 /\ spent' = 0
    /\ UNCHANGED <<outside, rv, session, saved, sums, told, reviews, deaths>>

-----------------------------------------------------------------------------
(* A tick                                                                  *)

BoardStill == UNCHANGED <<outside, reviews, days, deaths>>

(* Mutant: what is gone is never forgotten, and never raised again.        *)
RecallForever(kind, now) == rv.recalled \cup now

(* newly_seen: what is remembered of one kind is replaced by what is there *)
(* now; what was not remembered is raised.                                 *)
Recall(kind, now) == (rv.recalled \ kind) \cup now
Fresh(now) == now \ rv.recalled

Detects ==
    /\ rv.pc = "idle" /\ rv.due
    /\ rv' = [rv EXCEPT !.pc = "findings", !.due = FALSE,
                        !.recalled = Recall(Findings, present), !.todo = Fresh(present),
                        !.gone = Findings \ present]
    /\ UNCHANGED <<session, saved, count, spent, sums, told>> /\ BoardStill

(* The fresh keys are logged one by one.                                   *)
Raises ==
    /\ rv.pc \in {"findings", "remarks"}
    /\ \E k \in rv.todo :
          /\ told' = told \cup {k}
          /\ rv' = [rv EXCEPT !.todo = @ \ {k}]
    /\ UNCHANGED <<session, saved, count, spent, sums>> /\ BoardStill

(* Mutant: saved before.                                                   *)
LoggedLater == TRUE

(* State::save, after what it records has been logged.                     *)
Logged == rv.todo = {}

Saves ==
    /\ rv.pc \in {"findings", "remarks"} /\ Logged
    /\ saved' = [due |-> rv.due, recalled |-> rv.recalled]
    /\ told' = told \ rv.gone
    /\ rv' = [rv EXCEPT !.gone = {},
                        !.pc = IF rv.todo # {} THEN @
                               ELSE IF @ = "remarks" THEN "rows"
                               ELSE IF Profile /\ count < Budget THEN "spawn" ELSE "idle"]
    /\ rv' # rv \/ saved' # saved
    /\ UNCHANGED <<session, count, spent, sums>> /\ BoardStill

(* The budget is charged, and saved, before the session starts.            *)
Charges ==
    /\ rv.pc = "spawn"
    /\ count' = count + 1
    /\ rv' = [rv EXCEPT !.pc = "wait"]
    /\ UNCHANGED <<session, saved, spent, sums, told>> /\ BoardStill

(* cases: the first rows of the inbox.  The order is the inbox's own.      *)
Offers ==
    LET rows == {i \in Ids : row[i] > 0}
    IN {offer \in SUBSET rows :
          Cardinality(offer) = IF Cardinality(rows) < MaxRows THEN Cardinality(rows)
                               ELSE MaxRows}

ReviewSpawns ==
    /\ rv.pc = "wait" /\ session.state = "none"
    /\ spent' = spent + 1
    /\ \E offer \in Offers :
          session' = [NoSession EXCEPT !.state = "running",
                        !.shown = [i \in Ids |-> IF i \in offer THEN row[i] ELSE 0]]
    /\ rv' = [rv EXCEPT !.pending = row]              \* pending_signatures
    /\ UNCHANGED <<saved, count, sums, told>> /\ BoardStill

(* The session's own thread.                                               *)
SessionEnds ==
    /\ session.state = "running"
    /\ \/ session' = [session EXCEPT !.state = "failed"]
       \/ \E remarks \in SUBSET Remarks, rows \in SUBSET {i \in Ids : session.shown[i] > 0} :
             session' = [session EXCEPT !.state = "answered", !.remarks = remarks,
                                        !.rows = rows]
    /\ UNCHANGED <<rv, saved, count, spent, sums, told>> /\ BoardStill

(* poll_session.  A failure, or a result that does not parse, is a line in *)
(* the log and no more.                                                    *)
Polls ==
    /\ rv.pc = "wait" /\ session.state \in {"answered", "failed"}
    /\ rv' = IF session.state = "failed" THEN [rv EXCEPT !.pc = "idle"]
             ELSE [rv EXCEPT !.pc = "remarks", !.todo = Fresh(session.remarks),
                             !.recalled = Recall(Remarks, session.remarks),
                             !.gone = Remarks \ session.remarks]
    /\ session' = IF session.state = "failed" THEN NoSession ELSE session
    /\ UNCHANGED <<saved, count, spent, sums, told>> /\ BoardStill

(* Mutant: the case the row has when the answer arrives.                   *)
FiledUnderPresent(i) == row[i]

(* The signature a sentence is filed under.                                *)
FiledUnder(i) == rv.pending[i]

(* rows::apply *)
KeepsRows ==
    /\ rv.pc = "rows"
    /\ sums' =
          IF rv.pending = NoCases THEN sums
          ELSE [i \in Ids |->
                  IF rv.pending[i] = 0 THEN NoSum
                  ELSE IF i \in session.rows
                       THEN [of |-> session.shown[i], sig |-> FiledUnder(i)]
                  ELSE sums[i]]
    /\ rv' = [rv EXCEPT !.pc = "idle", !.pending = NoCases]
    /\ session' = NoSession
    /\ UNCHANGED <<saved, count, spent, told>> /\ BoardStill

(* The daemon stops, anywhere, and starts again from its files; a session  *)
(* left behind is ended by the next one that starts.  A file it cannot     *)
(* write stops it as well: the tick returns the error, and so does the     *)
(* daemon's loop.                                                          *)
ReviewRestarts ==
    /\ deaths < MaxDeaths /\ deaths' = deaths + 1
    /\ rv' = [NoReview EXCEPT !.due = saved.due, !.recalled = saved.recalled]
    /\ session' = NoSession
    /\ UNCHANGED <<outside, saved, count, spent, sums, told, reviews, days>>

Ticks == Detects \/ Raises \/ Saves \/ Charges \/ ReviewSpawns \/ Polls \/ KeepsRows

ReviewStep ==
    \/ RowChanges \/ BoardChanges \/ IntervalEnds \/ DayBegins
    \/ Ticks \/ SessionEnds \/ ReviewRestarts

(* The daemon ticks the review once per pass; a session ends by itself or  *)
(* by its timeout.                                                         *)
ReviewFairness == WF_reviewVars(Ticks) /\ WF_reviewVars(SessionEnds)

ReviewSpec == ReviewInit /\ [][ReviewStep]_reviewVars /\ ReviewFairness

-----------------------------------------------------------------------------
(* Properties                                                              *)

(* review.rs:150-151: "Saved after the escalations, not before: a crash in *)
(* between should replay a finding rather than mark it reported and lose   *)
(* it."  What the review holds for raised, in memory or in its file, is in *)
(* the decision log or about to be written there.                          *)
RaisedIsLogged ==
    /\ rv.recalled \subseteq told \cup rv.todo
    /\ saved.recalled \subseteq told

(* A sentence stands beside a row only if the session that wrote it was    *)
(* shown the row as it is now, however long it took to answer.             *)
SentenceFitsRow ==
    \A i \in Ids : (row[i] > 0 /\ sums[i].sig = row[i]) => sums[i].of = row[i]

(* The day's sessions stay within the budget, over restarts between the    *)
(* charge and the start.                                                   *)
WithinBudget == spent <= Budget

(* All three.                                                              *)
ReviewSafe == RaisedIsLogged /\ SentenceFitsRow /\ WithinBudget

(* A finding that lasts through a review that falls due is raised.         *)
FindingsRaised ==
    \A f \in Findings : (f \in present /\ rv.due) ~> (f \in told \/ f \notin present)

=============================================================================
