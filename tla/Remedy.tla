-------------------------------- MODULE Remedy --------------------------------
(***************************************************************************)
(* What the inbox tells an operator to do about a row (overseer/remedy.rs, *)
(* remedy/parse.rs and its tables), and how a reason comes to be: a gate,  *)
(* a worker or a session records it, and what gives up on it, hands it on  *)
(* or counts it writes its own words in front.                             *)
(*                                                                         *)
(* A reason is its core, one of the table's keys or a text none of them    *)
(* matches, behind the wrappers it has been given, outermost first.        *)
(***************************************************************************)
EXTENDS Naturals, Sequences

CONSTANTS
    MaxDepth,   \* parse.rs MAX_DEPTH
    MaxWraps    \* bound: wrappers of one reason

ASSUME RemedyAssumption == {MaxDepth, MaxWraps} \subseteq Nat

VARIABLES
    reason,     \* the reason of a row
    parked,     \* whether the row is a bare parked entry: "no", "resumable", "parked"
    live        \* whether the row's worker has a live session

remedyVars == <<reason, parked, live>>

RemedyMoves == {"answer", "merge", "retry", "review", "watch"}

(* table/merge.rs and table/runtime.rs, by the move they advise.           *)
MergeTable ==
    [answer |-> {"checks_not_green", "merge_state:dirty", "merge_state:blocked",
                 "behind_update_cap_reached", "merge_exit:", "merge_error:"},
     merge  |-> {"merge_request_stale"},
     retry  |-> {"pr_closed_unmerged"},
     review |-> {"missing_pr_url", "merge_recovery_cap_reached", "merge_refused:",
                 "unprotected:"},
     watch  |-> {"checks_waiting", "behind_not_next", "prerequisite_unmerged:"}]

RuntimeTable ==
    [answer |-> {"worker_blocked", "worker blocked"},
     merge  |-> {},
     retry  |-> {"spawn_failed:"},
     review |-> {"triage session timed out", "triage session exited without result.json",
                 "circuit_open:", "triage action failed:", "triage session failed:",
                 "malformed result.json:", "session_auth_failed:", "stalled:"},
     watch  |-> {"circuit_at_risk:"}]

Table == [move \in RemedyMoves |-> MergeTable[move] \cup RuntimeTable[move]]

(* What no table knows: a code, which is the operator's (classify), a text *)
(* that reads as an instruction, and nothing at all.                       *)
Unknown == [review |-> {"another_code", ""}, answer |-> {"free text"}]

Cores == (UNION {Table[move] : move \in RemedyMoves}) \cup Unknown.review \cup Unknown.answer

CoreMove(core) ==
    IF core \in Unknown.review THEN "review"
    ELSE IF core \in Unknown.answer THEN "answer"
    ELSE CHOOSE move \in RemedyMoves : core \in Table[move]

Unwraps == {"merge_recovery_dispatched:", "merge_recovery_skipped:", "repeating_failure"}
Promotes == {"merge_recovery_disabled:"}
Overrides == {"merge_hold_cap_reached:", "merge_recovery_undeliverable:", "repeating_hold"}
Wraps == Unwraps \cup Promotes \cup Overrides

(* Mutant: a wrapper is stripped, and the reason within speaks for itself. *)
NotPromoted(move) == move

Promoted(move) == IF move = "watch" THEN "review" ELSE move

(* resolve_at: wrappers are stripped from the outside, no more than        *)
(* MaxDepth of them; one that is left is a code like any other.            *)
Resolve(r) ==
    LET n == Len(r.wraps)
        from[k \in 1 .. n + 1] ==
            IF k = n + 1 THEN CoreMove(r.core)
            ELSE IF k > MaxDepth \/ r.wraps[k] \in Overrides THEN "review"
            ELSE IF r.wraps[k] \in Promotes THEN Promoted(from[k + 1])
            ELSE from[k + 1]
    IN from[1]

(* Mutant: an answer is advised whoever is there.                          *)
NotOrphaned(move) == move

(* InboxItem::remedy and resolve: an answer needs somebody to answer to.   *)
Orphaned(move) == IF move = "answer" /\ ~live THEN "review" ELSE move

Advice ==
    CASE parked = "resumable" -> "watch"
      [] parked = "parked" -> "review"
      [] parked = "no" -> Orphaned(Resolve(reason))

Actionable == Advice # "watch"

-----------------------------------------------------------------------------

RemedyInit ==
    /\ reason \in [wraps : {<< >>}, core : Cores]
    /\ parked \in {"no", "resumable", "parked"}
    /\ live \in BOOLEAN

(* merge_hold, merge_recovery and the board's findings put their words in  *)
(* front of a reason they were given.                                      *)
Wrapped ==
    /\ parked = "no" /\ Len(reason.wraps) < MaxWraps
    /\ \E w \in Wraps : reason' = [reason EXCEPT !.wraps = <<w>> \o @]
    /\ UNCHANGED <<parked, live>>

SessionDies == live /\ live' = FALSE /\ UNCHANGED <<reason, parked>>

RemedyStep == Wrapped \/ SessionDies

RemedySpec == RemedyInit /\ [][RemedyStep]_remedyVars

-----------------------------------------------------------------------------

(* A reason an automated path gave up on is never shown as nothing to do,  *)
(* whatever hands it went through after that; an operator is never told to *)
(* answer a session that is gone; and what merely hands a reason on leaves *)
(* the advice its own, as deep as reasons are read.                        *)
GivenUp == \E k \in DOMAIN reason.wraps : reason.wraps[k] \in Promotes \cup Overrides
HandedOn ==
    /\ Len(reason.wraps) <= MaxDepth
    /\ \A k \in DOMAIN reason.wraps : reason.wraps[k] \in Unwraps

AdviceFits ==
    parked = "no" =>
        /\ GivenUp => Actionable
        /\ Advice = "answer" => live
        /\ HandedOn => (Advice = "watch" <=> reason.core \in Table.watch)

=============================================================================
