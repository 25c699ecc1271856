----------------------------- MODULE UpkeepProofs -----------------------------
(***************************************************************************)
(* Proofs about the parts of Upkeep: what the probes of a pass let it      *)
(* forget (Reach), what a board review says and spends (Review), what the  *)
(* health watch files (Watch), and what becomes of a report written to the *)
(* inbox: nothing is skipped, and the order and the number of times it is  *)
(* applied (Inbox).                                                        *)
(***************************************************************************)
EXTENDS Upkeep, TLAPS

-----------------------------------------------------------------------------
(* Reach                                                                   *)

(* What a pass has found absent was not there when it was read.            *)
ProbesTrue ==
    /\ seen.at = "tasks" => seen.task = "quiet"
    /\ seen.task = "absent" => ~seen.jobOpen \/ seen.over
    /\ seen.pr = "none" => seen.prs = {}

LEMMA ReachTypes == ReachSpec => []ReachTypeOK
<1>0. Unseen \in Passes
  BY DEF Unseen, Passes, PrStates
<1>1. ReachInit => ReachTypeOK
  BY <1>0, ReachAssumption
     DEF ReachInit, ReachTypeOK, KeptSoFar, Works, WorkPhases, PrStates
<1>2. ReachTypeOK /\ [ReachStep]_reachVars => ReachTypeOK'
  <2> SUFFICES ASSUME ReachTypeOK, [ReachStep]_reachVars
               PROVE  ReachTypeOK'
    OBVIOUS
  <2> USE ReachAssumption DEF ReachTypeOK, world
  <2>1. CASE JobMoves
    BY <2>1 DEF JobMoves, HappensTo
  <2>2. CASE PrsMove
    <3>1. branchPrs' \subseteq PrStates
      BY <2>2 DEF PrsMove, PrStates
    <3>2. work' \in Works
      <4>1. ASSUME NEW end \in {"merged", "closed"}
            PROVE  [work EXCEPT !.knows = IF @ = "open" THEN end ELSE @] \in Works
        BY DEF Works, PrStates
      <4> QED
        BY <2>2, <4>1 DEF PrsMove
    <3> QED
      BY <2>2, <3>1, <3>2 DEF PrsMove, HappensTo
  <2>3. CASE WorkMoves
    <3>1. work' \in Works
      <4>1. \/ \E phase \in {"escalated", "failed"} : work' = [work EXCEPT !.phase = phase]
            \/ work' = [work EXCEPT !.recent = FALSE]
            \/ work' = [work EXCEPT !.staffed = FALSE]
        BY <2>3 DEF WorkMoves
      <4> QED
        BY <4>1 DEF Works, WorkPhases
    <3>2. enlisted' \in BOOLEAN
      BY <2>3 DEF WorkMoves
    <3> QED
      BY <2>3, <3>1, <3>2 DEF WorkMoves, HappensTo
  <2>4. CASE PassStarts
    <3>1. seen' \in Passes
      <4>1. \/ seen' = [Unseen EXCEPT !.at = "tasks", !.read = TRUE, !.registered = work.staffed]
            \/ seen' = [Unseen EXCEPT !.at = "reconcile"]
        BY <2>4 DEF PassStarts
      <4>2. ASSUME NEW pass \in Passes, NEW staffed \in BOOLEAN
            PROVE  /\ [pass EXCEPT !.at = "tasks", !.read = TRUE, !.registered = staffed] \in Passes
                   /\ [pass EXCEPT !.at = "reconcile"] \in Passes
        BY DEF Passes
      <4>3. work.staffed \in BOOLEAN
        BY DEF Works
      <4> QED
        BY <1>0, <4>1, <4>2, <4>3
    <3> QED
      BY <2>4, <3>1 DEF PassStarts, Misses, WorldStays
  <2>5. CASE GathersTasks
    <3>1. seen' \in Passes
      <4> DEFINE there == job = "open"
                 many == rivals >= TaskFetchLimit
      <4>1. there \in BOOLEAN /\ many \in BOOLEAN
        OBVIOUS
      <4>0. seen.task \in {"quiet", "listed", "absent"}
        BY DEF Passes
      <4>2. \/ \E t \in {"quiet", "listed", "absent"} :
                   seen' = [seen EXCEPT !.at = "prs", !.jobOpen = there, !.over = many, !.task = t]
            \/ \E t \in {"quiet", "listed", "absent"} :
                   seen' = [seen EXCEPT !.at = "prs", !.jobOpen = there, !.task = t]
            \/ seen' = [seen EXCEPT !.at = "prs"]
        BY <2>5, <4>0 DEF GathersTasks
      <4> HIDE DEF there, many
      <4>4. ASSUME NEW pass \in Passes, NEW t \in {"quiet", "listed", "absent"},
                   NEW was \in BOOLEAN, NEW full \in BOOLEAN
            PROVE  /\ [pass EXCEPT !.at = "prs", !.jobOpen = was, !.over = full, !.task = t] \in Passes
                   /\ [pass EXCEPT !.at = "prs", !.jobOpen = was, !.task = t] \in Passes
                   /\ [pass EXCEPT !.at = "prs"] \in Passes
        BY DEF Passes
      <4>5. CASE \E t \in {"quiet", "listed", "absent"} :
                   seen' = [seen EXCEPT !.at = "prs", !.jobOpen = there, !.over = many, !.task = t]
        BY <4>1, <4>4, <4>5
      <4>6. CASE \E t \in {"quiet", "listed", "absent"} :
                   seen' = [seen EXCEPT !.at = "prs", !.jobOpen = there, !.task = t]
        BY <4>1, <4>4, <4>6
      <4>7. CASE seen' = [seen EXCEPT !.at = "prs"]
        BY <4>4, <4>7
      <4> QED
        BY <4>2, <4>5, <4>6, <4>7
    <3> QED
      BY <2>5, <3>1 DEF GathersTasks, Misses, WorldStays
  <2>6. CASE GathersPrs
    <3>1. BestPr \in PrStates \cup {"none"}
      BY DEF BestPr, PrStates
    <3>2. seen' \in Passes
      <4>1. work.knows \in PrStates \cup {"none"}
        BY DEF Works
      <4>2. \/ \E pr \in PrStates \cup {"none"} :
                   seen' = [seen EXCEPT !.at = "reconcile", !.prs = branchPrs, !.pr = pr]
            \/ seen' = [seen EXCEPT !.at = "reconcile", !.pr = "error"]
            \/ seen' = [seen EXCEPT !.at = "reconcile"]
        BY <2>6, <3>1, <4>1 DEF GathersPrs
      <4>3. ASSUME NEW pass \in Passes, NEW pr \in PrStates \cup {"none"},
                   NEW prs \in SUBSET PrStates
            PROVE  [pass EXCEPT !.at = "reconcile", !.prs = prs, !.pr = pr] \in Passes
        BY DEF Passes
      <4>8. ASSUME NEW pass \in Passes
            PROVE  /\ [pass EXCEPT !.at = "reconcile", !.pr = "error"] \in Passes
                   /\ [pass EXCEPT !.at = "reconcile"] \in Passes
        BY DEF Passes
      <4>4. seen \in Passes /\ branchPrs \in SUBSET PrStates
        OBVIOUS
      <4>5. CASE \E pr \in PrStates \cup {"none"} :
                   seen' = [seen EXCEPT !.at = "reconcile", !.prs = branchPrs, !.pr = pr]
        <5>1. PICK pr \in PrStates \cup {"none"} :
                  seen' = [seen EXCEPT !.at = "reconcile", !.prs = branchPrs, !.pr = pr]
          BY <4>5
        <5>2. [seen EXCEPT !.at = "reconcile", !.prs = branchPrs, !.pr = pr] \in Passes
          BY <4>3, <4>4
        <5> QED
          BY <5>1, <5>2
      <4>6. CASE seen' = [seen EXCEPT !.at = "reconcile", !.pr = "error"]
        BY <4>4, <4>6, <4>8
      <4>7. CASE seen' = [seen EXCEPT !.at = "reconcile"]
        BY <4>4, <4>7, <4>8
      <4> QED
        BY <4>2, <4>5, <4>6, <4>7
    <3> QED
      BY <2>6, <3>2 DEF GathersPrs, Misses, WorldStays
  <2>7. CASE TakesOver
    <3>1. seen' \in Passes
      BY <2>7 DEF TakesOver, Passes
    <3>2. work' \in Works
      BY <2>7 DEF TakesOver, Works, PrStates, WorkPhases
    <3> QED
      BY <2>7, <3>1, <3>2 DEF TakesOver, WorldStays
  <2>8. CASE Prunes
    <3>1. work' \in Works
      BY <2>8 DEF Prunes, Works, WorkPhases
    <3>2. dropped' \in [yes : BOOLEAN, pass : Passes, staffed : BOOLEAN]
      BY <2>8 DEF Prunes, Works
    <3> QED
      BY <1>0, <2>8, <3>1, <3>2 DEF Prunes, WorldStays
  <2>9. CASE UNCHANGED reachVars
    BY <2>9 DEF reachVars
  <2> QED
    BY <2>1, <2>2, <2>3, <2>4, <2>5, <2>6, <2>7, <2>8, <2>9 DEF ReachStep, ReachPass
<1> QED
  BY <1>1, <1>2, PTL DEF ReachSpec

(* retention.rs:162-178: an entry whose repository could be asked about is *)
(* forgotten only if its task was not open, or its branch had no pull      *)
(* request, when they were read (external_state.rs, probe_by_branch).      *)
THEOREM ForgottenWhenGone == ReachSpec => []GoneWhenRead
<1> USE DEF world, Unseen
<1>1. ReachInit => ProbesTrue /\ GoneWhenRead
  BY DEF ReachInit, ProbesTrue, GoneWhenRead, KeptSoFar
<1>2. /\ ReachTypeOK /\ ProbesTrue /\ GoneWhenRead
      /\ [ReachStep]_reachVars
      => ProbesTrue' /\ GoneWhenRead'
  <2> SUFFICES ASSUME ReachTypeOK, ProbesTrue, GoneWhenRead, [ReachStep]_reachVars
               PROVE  ProbesTrue' /\ GoneWhenRead'
    OBVIOUS
  <2> USE DEF ProbesTrue, GoneWhenRead
  <2>1. CASE JobMoves \/ PrsMove \/ WorkMoves
    BY <2>1 DEF JobMoves, PrsMove, WorkMoves, HappensTo
  <2>2. CASE PassStarts
    BY <2>2 DEF PassStarts, Misses, WorldStays
  <2>3. CASE GathersTasks
    <3> DEFINE there == job = "open"
               many == rivals >= TaskFetchLimit
    <3>1. /\ rivals \in Nat /\ TaskFetchLimit \in Nat
          /\ seen \in Passes
          /\ there \in BOOLEAN /\ many \in BOOLEAN
          /\ seen.task = "quiet"
      BY <2>3, ReachAssumption DEF ReachTypeOK, GathersTasks
    <3>2. Lists <=> there /\ ~many
      BY <3>1 DEF Lists
    <3>3. UNCHANGED dropped
      BY <2>3 DEF GathersTasks
    <3>4. \/ \E t \in {"listed", "absent", seen.task} :
                /\ seen' = [seen EXCEPT !.at = "prs", !.jobOpen = there, !.over = many, !.task = t]
                /\ t = "absent" => ~Lists
                /\ t = seen.task => t # "absent" \/ ~Lists
          \/ seen' = [seen EXCEPT !.at = "prs", !.jobOpen = there]
          \/ seen' = [seen EXCEPT !.at = "prs"]
      BY <2>3 DEF GathersTasks, Whole
    <3> HIDE DEF there, many
    <3>5. CASE \E t \in {"listed", "absent", seen.task} :
                /\ seen' = [seen EXCEPT !.at = "prs", !.jobOpen = there, !.over = many, !.task = t]
                /\ t = "absent" => ~Lists
                /\ t = seen.task => t # "absent" \/ ~Lists
      <4>1. /\ seen'.task = "absent" => ~Lists
            /\ seen'.at = "prs"
            /\ seen'.jobOpen = there /\ seen'.over = many
            /\ seen'.pr = seen.pr /\ seen'.prs = seen.prs
        BY <3>1, <3>5 DEF Passes
      <4> QED
        BY <3>1, <3>2, <3>3, <4>1
    <3>6. CASE seen' = [seen EXCEPT !.at = "prs", !.jobOpen = there]
      <4>1. /\ seen'.task = "quiet" /\ seen'.at = "prs"
            /\ seen'.pr = seen.pr /\ seen'.prs = seen.prs
        BY <3>1, <3>6 DEF Passes
      <4> QED
        BY <3>1, <3>3, <4>1
    <3>7. CASE seen' = [seen EXCEPT !.at = "prs"]
      BY <3>1, <3>3, <3>7 DEF Passes
    <3> QED
      BY <3>4, <3>5, <3>6, <3>7
  <2>4. CASE GathersPrs
    <3>1. seen \in Passes /\ work.knows \in PrStates \cup {"none"} /\ branchPrs \subseteq PrStates
      BY DEF ReachTypeOK, Works
    <3>2. BestPr = "none" => branchPrs = {}
      BY <3>1 DEF BestPr, PrStates
    <3> QED
      BY <2>4, <3>1, <3>2 DEF GathersPrs, Misses, WorldStays, ByBranch, Passes, PrStates
  <2>5. CASE TakesOver
    <3>1. seen \in Passes
      BY DEF ReachTypeOK
    <3> QED
      BY <2>5, <3>1 DEF TakesOver, WorldStays, Passes
  <2>6. CASE Prunes
    <3>1. seen \in Passes
      BY DEF ReachTypeOK
    <3>2. BeyondReach => seen.task = "absent" \/ ConfirmedGone
      BY DEF BeyondReach
    <3>3. ConfirmedGone => seen.pr \in {"none", "quiet"}
      BY <3>1 DEF ConfirmedGone, Passes
    <3> QED
      BY <2>6, <3>1, <3>2, <3>3 DEF Prunes, WorldStays
  <2>7. CASE UNCHANGED reachVars
    BY <2>7 DEF reachVars
  <2> QED
    BY <2>1, <2>2, <2>3, <2>4, <2>5, <2>6, <2>7 DEF ReachStep, ReachPass
<1> QED
  BY <1>1, <1>2, ReachTypes, PTL DEF ReachSpec

-----------------------------------------------------------------------------
(* Review                                                                  *)

(* What is about to be logged, or to be saved as gone, and when.           *)
RaisedInv ==
    /\ rv.pc \notin {"findings", "remarks"} => rv.todo = {}
    /\ rv.gone \cap rv.recalled = {}

(* A session was shown the rows whose signatures the review keeps.         *)
ShownInv ==
    /\ \A i \in Ids : session.shown[i] # 0 => session.shown[i] = rv.pending[i]
    /\ \A i \in session.rows : session.shown[i] # 0
    /\ \A i \in Ids : sums[i].of = sums[i].sig

(* A charge that no session has used yet counts as spent.                  *)
ChargeInv ==
    /\ spent <= count /\ count <= Budget
    /\ rv.pc = "spawn" => count < Budget
    /\ rv.pc = "wait" /\ session.state = "none" => spent < count

LEMMA ReviewTypes == ReviewSpec => []ReviewTypeOK
<1>1. ReviewInit => ReviewTypeOK
  BY ReviewAssumption
     DEF ReviewInit, ReviewTypeOK, NoCases, NoReview, NoSession, NoSum, Keys, ReviewCases,
         Stages, SessionStates
<1>2. ReviewTypeOK /\ [ReviewStep]_reviewVars => ReviewTypeOK'
  <2> SUFFICES ASSUME ReviewTypeOK, [ReviewStep]_reviewVars
               PROVE  ReviewTypeOK'
    OBVIOUS
  <2> USE ReviewAssumption DEF ReviewTypeOK, outside
  <2> DEFINE Rvs == [pc : Stages, due : BOOLEAN, recalled : SUBSET Keys, todo : SUBSET Keys,
                     gone : SUBSET Keys, pending : [Ids -> ReviewCases]]
             Sessions == [state : SessionStates, shown : [Ids -> ReviewCases],
                          remarks : SUBSET Remarks, rows : SUBSET Ids]
  <2>0. NoCases \in [Ids -> ReviewCases] /\ NoReview \in Rvs /\ NoSession \in Sessions
    BY DEF NoCases, NoReview, NoSession, ReviewCases, Stages, SessionStates
  <2>1. CASE RowChanges
    BY <2>1 DEF RowChanges, PassQuiet, ReviewCases
  <2>2. CASE BoardChanges
    BY <2>2 DEF BoardChanges, PassQuiet
  <2>3. CASE IntervalEnds
    <3>1. rv' \in Rvs
      BY <2>3 DEF IntervalEnds
    <3>2. saved' \in [due : BOOLEAN, recalled : SUBSET Keys]
      BY <2>3 DEF IntervalEnds
    <3>3. /\ reviews' \in 0 .. MaxReviews
          /\ UNCHANGED <<outside, session, count, spent, sums, told, days, deaths>>
      BY <2>3 DEF IntervalEnds
    <3> QED
      BY <3>1, <3>2, <3>3
  <2>4. CASE DayBegins
    BY <2>4 DEF DayBegins
  <2>5. CASE Detects
    BY <2>5 DEF Detects, BoardStill, Recall, Fresh, Keys, Stages
  <2>6. CASE Raises
    BY <2>6 DEF Raises, BoardStill
  <2>7. CASE Saves
    <3>1. rv' \in Rvs
      BY <2>7 DEF Saves, Stages
    <3>2. saved' \in [due : BOOLEAN, recalled : SUBSET Keys]
      BY <2>7 DEF Saves
    <3> QED
      BY <2>7, <3>1, <3>2 DEF Saves, BoardStill
  <2>8. CASE Charges
    BY <2>8 DEF Charges, BoardStill, Stages
  <2>9. CASE ReviewSpawns
    <3>1. rv' \in Rvs
      BY <2>9 DEF ReviewSpawns
    <3>2. session' \in Sessions
      <4>1. PICK offer \in Offers :
               session' = [NoSession EXCEPT !.state = "running",
                             !.shown = [i \in Ids |-> IF i \in offer THEN row[i] ELSE 0]]
        BY <2>9 DEF ReviewSpawns
      <4> DEFINE some == [i \in Ids |-> IF i \in offer THEN row[i] ELSE 0]
      <4>2. some \in [Ids -> ReviewCases]
        BY DEF ReviewCases
      <4> HIDE DEF some
      <4>3. [NoSession EXCEPT !.state = "running", !.shown = some] \in Sessions
        BY <2>0, <4>2 DEF SessionStates
      <4> QED
        BY <4>1, <4>3 DEF some
    <3>3. spent' \in Nat /\ UNCHANGED <<outside, saved, count, sums, told, reviews, days, deaths>>
      BY <2>9 DEF ReviewSpawns, BoardStill
    <3> QED
      BY <3>1, <3>2, <3>3
  <2>10. CASE SessionEnds
    BY <2>10 DEF SessionEnds, BoardStill, SessionStates
  <2>11. CASE Polls
    <3>1. rv' \in Rvs
      BY <2>11 DEF Polls, Stages, Recall, Fresh, Keys
    <3> QED
      BY <2>0, <2>11, <3>1 DEF Polls, BoardStill
  <2>12. CASE KeepsRows
    <3>1. rv' \in Rvs
      BY <2>0, <2>12 DEF KeepsRows, Stages
    <3>2. sums' \in [Ids -> [of : ReviewCases, sig : ReviewCases]]
      BY <2>12 DEF KeepsRows, NoSum, ReviewCases, FiledUnder
    <3> QED
      BY <2>0, <2>12, <3>1, <3>2 DEF KeepsRows, BoardStill
  <2>13. CASE ReviewRestarts
    <3>1. rv' \in Rvs
      BY <2>0, <2>13 DEF ReviewRestarts
    <3> QED
      BY <2>0, <2>13, <3>1 DEF ReviewRestarts
  <2>14. CASE UNCHANGED reviewVars
    BY <2>14 DEF reviewVars
  <2> QED
    BY <2>1, <2>2, <2>3, <2>4, <2>5, <2>6, <2>7, <2>8, <2>9, <2>10, <2>11, <2>12, <2>13,
       <2>14 DEF ReviewStep, Ticks
<1> QED
  BY <1>1, <1>2, PTL DEF ReviewSpec

(* What the review holds for raised is in the decision log or about to be  *)
(* written there (review.rs:150-151).                                      *)
LEMMA RaisedLogged == ReviewSpec => []RaisedIsLogged
<1>1. ReviewInit => RaisedInv /\ RaisedIsLogged
  BY DEF ReviewInit, RaisedInv, RaisedIsLogged, NoReview
<1>2. ReviewTypeOK /\ RaisedInv /\ RaisedIsLogged /\ [ReviewStep]_reviewVars
      => RaisedInv' /\ RaisedIsLogged'
  <2> SUFFICES ASSUME ReviewTypeOK, RaisedInv, RaisedIsLogged, [ReviewStep]_reviewVars
               PROVE  RaisedInv' /\ RaisedIsLogged'
    OBVIOUS
  <2> USE DEF RaisedInv, RaisedIsLogged
  <2>0. rv \in [pc : Stages, due : BOOLEAN, recalled : SUBSET Keys, todo : SUBSET Keys,
                gone : SUBSET Keys, pending : [Ids -> ReviewCases]]
        /\ present \subseteq Findings /\ session.remarks \subseteq Remarks
    BY DEF ReviewTypeOK
  <2>1. CASE RowChanges \/ BoardChanges
    BY <2>1 DEF RowChanges, BoardChanges, PassQuiet
  <2>2. CASE IntervalEnds
    BY <2>0, <2>2 DEF IntervalEnds, ReviewTypeOK
  <2>3. CASE DayBegins
    BY <2>3 DEF DayBegins
  <2>4. CASE Detects
    BY <2>0, <2>4 DEF Detects, BoardStill, Recall, Fresh
  <2>5. CASE Raises
    BY <2>0, <2>5 DEF Raises, BoardStill
  <2>6. CASE Saves
    BY <2>0, <2>6 DEF Saves, BoardStill, Logged
  <2>7. CASE Charges \/ ReviewSpawns \/ SessionEnds \/ KeepsRows
    BY <2>0, <2>7 DEF Charges, ReviewSpawns, SessionEnds, KeepsRows, BoardStill
  <2>8. CASE Polls
    BY <2>0, <2>8 DEF Polls, BoardStill, Recall, Fresh
  <2>9. CASE ReviewRestarts
    BY <2>9 DEF ReviewRestarts, NoReview
  <2>10. CASE UNCHANGED reviewVars
    BY <2>10 DEF reviewVars
  <2> QED
    BY <2>1, <2>2, <2>3, <2>4, <2>5, <2>6, <2>7, <2>8, <2>9, <2>10 DEF ReviewStep, Ticks
<1> QED
  BY <1>1, <1>2, ReviewTypes, PTL DEF ReviewSpec

(* A sentence stands only beside the case its session was shown            *)
(* (review/rows.rs:80).                                                    *)
LEMMA SentencesFit == ReviewSpec => []SentenceFitsRow
<1>1. ReviewInit => ShownInv
  BY DEF ReviewInit, ShownInv, NoReview, NoSession, NoCases, NoSum
<1>2. ReviewTypeOK /\ ShownInv /\ [ReviewStep]_reviewVars => ShownInv'
  <2> SUFFICES ASSUME ReviewTypeOK, ShownInv, [ReviewStep]_reviewVars
               PROVE  ShownInv'
    OBVIOUS
  <2> USE DEF ShownInv
  <2>0. /\ rv \in [pc : Stages, due : BOOLEAN, recalled : SUBSET Keys, todo : SUBSET Keys,
                   gone : SUBSET Keys, pending : [Ids -> ReviewCases]]
        /\ session \in [state : SessionStates, shown : [Ids -> ReviewCases],
                        remarks : SUBSET Remarks, rows : SUBSET Ids]
        /\ row \in [Ids -> ReviewCases]
    BY DEF ReviewTypeOK
  <2>1. CASE RowChanges \/ BoardChanges
    BY <2>1 DEF RowChanges, BoardChanges, PassQuiet
  <2>2. CASE IntervalEnds \/ DayBegins
    BY <2>0, <2>2 DEF IntervalEnds, DayBegins
  <2>3. CASE Detects \/ Raises \/ Saves \/ Charges
    BY <2>0, <2>3 DEF Detects, Raises, Saves, Charges, BoardStill
  <2>4. CASE ReviewSpawns
    <3>1. UNCHANGED sums /\ rv' = [rv EXCEPT !.pending = row]
      BY <2>4 DEF ReviewSpawns
    <3>2. PICK offer \in Offers :
             session' = [NoSession EXCEPT !.state = "running",
                           !.shown = [i \in Ids |-> IF i \in offer THEN row[i] ELSE 0]]
      BY <2>4 DEF ReviewSpawns
    <3>3. /\ session'.shown = [i \in Ids |-> IF i \in offer THEN row[i] ELSE 0]
          /\ session'.rows = {}
      BY <3>2 DEF NoSession
    <3>4. rv'.pending = row
      BY <2>0, <3>1
    <3> QED
      BY <3>1, <3>3, <3>4
  <2>5. CASE SessionEnds
    <3>1. /\ session'.shown = session.shown
          /\ \A i \in session'.rows : session.shown[i] # 0
      <4>1. CASE session' = [session EXCEPT !.state = "failed"]
        BY <2>0, <4>1
      <4>2. ASSUME NEW remarks \in SUBSET Remarks,
                   NEW rows \in SUBSET {i \in Ids : session.shown[i] > 0},
                   session' = [session EXCEPT !.state = "answered", !.remarks = remarks,
                                              !.rows = rows]
            PROVE  /\ session'.shown = session.shown
                   /\ \A i \in session'.rows : session.shown[i] # 0
        <5>1. session'.shown = session.shown /\ session'.rows = rows
          BY <2>0, <4>2
        <5> QED
          BY <2>0, <5>1 DEF ReviewCases
      <4> QED
        BY <2>5, <4>1, <4>2 DEF SessionEnds
    <3> QED
      BY <2>5, <3>1 DEF SessionEnds, BoardStill
  <2>6. CASE Polls
    BY <2>0, <2>6 DEF Polls, BoardStill, NoSession, NoCases
  <2>7. CASE KeepsRows
    <3>1. session' = NoSession /\ rv'.pending = NoCases
      BY <2>0, <2>7 DEF KeepsRows
    <3>2. ASSUME NEW i \in Ids
          PROVE  sums'[i].of = sums'[i].sig
      <4>1. CASE rv.pending = NoCases
        BY <2>7, <4>1 DEF KeepsRows
      <4>2. CASE rv.pending # NoCases
        <5>1. sums'[i] = IF rv.pending[i] = 0 THEN NoSum
                         ELSE IF i \in session.rows
                              THEN [of |-> session.shown[i], sig |-> rv.pending[i]]
                         ELSE sums[i]
          BY <2>7, <4>2 DEF KeepsRows, FiledUnder
        <5> QED
          BY <5>1 DEF NoSum
      <4> QED
        BY <4>1, <4>2
    <3> QED
      BY <3>1, <3>2 DEF NoSession, NoCases
  <2>8. CASE ReviewRestarts
    BY <2>8 DEF ReviewRestarts, NoReview, NoSession, NoCases
  <2>9. CASE UNCHANGED reviewVars
    BY <2>9 DEF reviewVars
  <2> QED
    BY <2>1, <2>2, <2>3, <2>4, <2>5, <2>6, <2>7, <2>8, <2>9 DEF ReviewStep, Ticks
<1>3. ShownInv => SentenceFitsRow
  BY DEF ShownInv, SentenceFitsRow
<1> QED
  BY <1>1, <1>2, <1>3, ReviewTypes, PTL DEF ReviewSpec

(* The day's sessions stay within the budget (review.rs, queue.json).      *)
LEMMA SpentWithinBudget == ReviewSpec => []WithinBudget
<1>1. ReviewInit => ChargeInv
  BY ReviewAssumption DEF ReviewInit, ChargeInv, NoReview
<1>2. ReviewTypeOK /\ ChargeInv /\ [ReviewStep]_reviewVars => ChargeInv'
  <2> SUFFICES ASSUME ReviewTypeOK, ChargeInv, [ReviewStep]_reviewVars
               PROVE  ChargeInv'
    OBVIOUS
  <2> USE DEF ChargeInv
  <2>0. /\ rv \in [pc : Stages, due : BOOLEAN, recalled : SUBSET Keys, todo : SUBSET Keys,
                   gone : SUBSET Keys, pending : [Ids -> ReviewCases]]
        /\ session \in [state : SessionStates, shown : [Ids -> ReviewCases],
                        remarks : SUBSET Remarks, rows : SUBSET Ids]
        /\ count \in Nat /\ spent \in Nat /\ Budget \in Nat
    BY ReviewAssumption DEF ReviewTypeOK
  <2>1. CASE RowChanges \/ BoardChanges
    BY <2>1 DEF RowChanges, BoardChanges, PassQuiet
  <2>2. CASE IntervalEnds
    BY <2>0, <2>2 DEF IntervalEnds
  <2>3. CASE DayBegins
    BY <2>0, <2>3 DEF DayBegins
  <2>4. CASE Detects \/ Raises
    BY <2>0, <2>4 DEF Detects, Raises, BoardStill
  <2>5. CASE Saves
    BY <2>0, <2>5 DEF Saves, BoardStill
  <2>6. CASE Charges
    BY <2>0, <2>6 DEF Charges, BoardStill
  <2>7. CASE ReviewSpawns
    BY <2>0, <2>7 DEF ReviewSpawns, BoardStill, NoSession
  <2>8. CASE SessionEnds
    BY <2>0, <2>8 DEF SessionEnds, BoardStill
  <2>9. CASE Polls
    BY <2>0, <2>9 DEF Polls, BoardStill
  <2>10. CASE KeepsRows
    BY <2>0, <2>10 DEF KeepsRows, BoardStill
  <2>11. CASE ReviewRestarts
    BY <2>11 DEF ReviewRestarts, NoReview
  <2>12. CASE UNCHANGED reviewVars
    BY <2>12 DEF reviewVars
  <2> QED
    BY <2>1, <2>2, <2>3, <2>4, <2>5, <2>6, <2>7, <2>8, <2>9, <2>10, <2>11, <2>12
       DEF ReviewStep, Ticks
<1>3. ReviewTypeOK /\ ChargeInv => WithinBudget
  BY ReviewAssumption DEF ReviewTypeOK, ChargeInv, WithinBudget
<1> QED
  BY <1>1, <1>2, <1>3, ReviewTypes, PTL DEF ReviewSpec

(* The three, for every interval, case, day and death of the daemon.       *)
THEOREM ReviewKeepsFaith == ReviewSpec => []ReviewSafe
<1>1. RaisedIsLogged /\ SentenceFitsRow /\ WithinBudget => ReviewSafe
  BY DEF ReviewSafe
<1> QED
  BY <1>1, RaisedLogged, SentencesFit, SpentWithinBudget, PTL

-----------------------------------------------------------------------------
(* Watch                                                                   *)

WatchNext == HealthStep \/ PullStep

(* Yes and no.                                                             *)
Flags == installed \in BOOLEAN /\ crowded \in BOOLEAN /\ enrolled \in BOOLEAN

LookType == [at : LookSteps, found : SUBSET Finders, checked : BOOLEAN, noticed : BOOLEAN]
FileType == [checked : BOOLEAN, noticed : BOOLEAN]

LEMMA WatchTypes == WatchSpec => []WatchTypeOK
<1>1. WatchInit => WatchTypeOK
  <2> SUFFICES ASSUME WatchInit
               PROVE  WatchTypeOK
    OBVIOUS
  <2>1. look \in LookType /\ watchFile \in FileType
    BY DEF WatchInit, Unlooked, LookSteps, Unwatched, LookType, FileType
  <2>2. others \in [polled : BOOLEAN, prs : SUBSET Elsewhere]
    BY DEF WatchInit, Unpolled
  <2>3. /\ open \in [Markers -> 0 .. MaxSame]
        /\ crowd \in 0 .. MaxCrowd /\ notices \in Nat
        /\ losses \in 0 .. MaxLosses /\ shifts \in 0 .. MaxShifts
    BY WatchAssumption DEF WatchInit
  <2>4. Flags
    BY DEF WatchInit, Flags
  <2>5. standing \subseteq Finders /\ pulls \subseteq Elsewhere /\ ours \subseteq Elsewhere
    BY DEF WatchInit
  <2> QED
    BY <2>1, <2>2, <2>3, <2>4, <2>5 DEF WatchTypeOK, Flags, LookType, FileType
<1>2. WatchTypeOK /\ [WatchNext]_watchVars => WatchTypeOK'
  <2> SUFFICES ASSUME WatchTypeOK, [WatchNext]_watchVars
               PROVE  WatchTypeOK'
    OBVIOUS
  <2>1. Flags'
    <3>1. Flags
      BY DEF WatchTypeOK, Flags
    <3>2. CASE \/ ConditionTurns \/ TaskCloses \/ CrowdTurns \/ PullTurns \/ PassBegins
               \/ IntervalPasses \/ ProbesBun \/ ProbesGo \/ SavesLook \/ ForgetsLook
               \/ WatchDies \/ ListsPulls \/ ListAges \/ UNCHANGED watchVars
      BY <3>1, <3>2
         DEF Flags, ConditionTurns, TaskCloses, CrowdTurns, PullTurns, PassBegins,
             IntervalPasses, ProbesBun, ProbesGo, SavesLook, ForgetsLook, WatchDies,
             ListsPulls, ListAges, Aside, healthVars, pullVars, watchVars
    <3>3. CASE EnrolmentTurns
      BY <3>1, <3>3 DEF Flags, EnrolmentTurns, healthVars
    <3>4. CASE FilesAdvisory \/ FilesDependabot
      <4>1. crowded' = crowded \/ crowded' = (crowded \/ OpenTasks > Window)
        BY <3>4 DEF FilesAdvisory, FilesDependabot, FilesTask
      <4>2. crowded' \in BOOLEAN
        BY <3>1, <4>1 DEF Flags
      <4>3. UNCHANGED <<installed, enrolled>>
        BY <3>4 DEF FilesAdvisory, FilesDependabot, Aside
      <4> QED
        BY <3>1, <4>2, <4>3 DEF Flags
    <3> QED
      BY <3>2, <3>3, <3>4 DEF WatchNext, HealthStep, PullStep, Watches
  <2>2. look' \in LookType
    <3>0. look \in LookType /\ standing \subseteq Finders /\ watchFile \in FileType
      BY DEF WatchTypeOK, LookType, FileType
    <3>1. CASE PassBegins
      <4>1. \E noticed \in BOOLEAN : look' = [Unlooked EXCEPT !.at = "bun", !.noticed = noticed]
        BY <3>0, <3>1 DEF PassBegins, FileType, Unlooked
      <4> QED
        BY <4>1 DEF LookType, LookSteps, Unlooked
    <3>2. CASE ProbesBun
      BY <3>0, <3>2 DEF ProbesBun, LookGoes, LookType, LookSteps, Finders, Advisors
    <3>3. CASE ProbesGo
      <4>1. \E found \in SUBSET Finders :
               \/ look' = [look EXCEPT !.at = "advisory", !.found = found]
               \/ look' = [look EXCEPT !.at = "advisory"]
               \/ look' = [look EXCEPT !.at = "advisory", !.noticed = TRUE]
               \/ look' = [look EXCEPT !.at = "gh", !.noticed = TRUE, !.found = found]
        BY <3>0, <3>3 DEF ProbesGo, LookGoes, LookType, Finders, Advisors
      <4> QED
        BY <3>0, <4>1 DEF LookType, LookSteps
    <3>4. CASE FilesAdvisory \/ FilesDependabot
      <4>1. \E at \in {"gh", "save"} : look' = [look EXCEPT !.at = at, !.found = {}]
        BY <3>4 DEF FilesAdvisory, FilesDependabot, FilesTask
      <4> QED
        BY <3>0, <4>1 DEF LookType, LookSteps
    <3>5. CASE SavesLook \/ WatchDies
      <4>1. look' = Unlooked
        BY <3>5 DEF SavesLook, WatchDies
      <4>2. Unlooked \in LookType
        BY DEF Unlooked, LookType, LookSteps
      <4> QED
        BY <4>1, <4>2
    <3>6. CASE \/ ConditionTurns \/ TaskCloses \/ CrowdTurns \/ EnrolmentTurns \/ PullTurns
               \/ IntervalPasses \/ ForgetsLook \/ ListsPulls \/ ListAges \/ UNCHANGED watchVars
      <4>1. UNCHANGED look
        BY <3>6 DEF ConditionTurns, TaskCloses, CrowdTurns, EnrolmentTurns, PullTurns,
                    IntervalPasses, ForgetsLook, ListsPulls, ListAges, healthVars, watchVars
      <4> QED
        BY <3>0, <4>1
    <3> QED
      BY <3>1, <3>2, <3>3, <3>4, <3>5, <3>6 DEF WatchNext, HealthStep, PullStep, Watches
  <2>3. watchFile' \in FileType
    <3>0. look \in LookType /\ watchFile \in FileType
      BY DEF WatchTypeOK, LookType, FileType
    <3>1. CASE IntervalPasses \/ ForgetsLook
      BY <3>0, <3>1 DEF IntervalPasses, ForgetsLook, FileType
    <3>2. CASE SavesLook
      <4>1. watchFile' = watchFile \/ watchFile' = Saved
        BY <3>2 DEF SavesLook
      <4>2. look.noticed \in BOOLEAN
        BY <3>0 DEF LookType
      <4>3. Saved \in FileType
        BY <4>2 DEF Saved, FileType
      <4> QED
        BY <3>0, <4>1, <4>3
    <3>3. CASE \/ ConditionTurns \/ TaskCloses \/ CrowdTurns \/ EnrolmentTurns \/ PullTurns
               \/ PassBegins \/ ProbesBun \/ ProbesGo \/ FilesAdvisory \/ FilesDependabot
               \/ WatchDies \/ ListsPulls \/ ListAges \/ UNCHANGED watchVars
      <4>1. UNCHANGED watchFile
        BY <3>3 DEF ConditionTurns, TaskCloses, CrowdTurns, EnrolmentTurns, PullTurns,
                    PassBegins, ProbesBun, ProbesGo, FilesAdvisory, FilesDependabot,
                    WatchDies, ListsPulls, ListAges, healthVars, watchVars
      <4> QED
        BY <3>0, <4>1
    <3> QED
      BY <3>1, <3>2, <3>3 DEF WatchNext, HealthStep, PullStep, Watches
  <2>4. open' \in [Markers -> 0 .. MaxSame]
    <3>0. open \in [Markers -> 0 .. MaxSame] /\ MaxSame \in Nat
      BY WatchAssumption DEF WatchTypeOK
    <3>1. CASE TaskCloses
      BY <3>0, <3>1 DEF TaskCloses
    <3>2. CASE FilesAdvisory \/ FilesDependabot
      <4>1. \/ open' = open
            \/ \E m : open' = [open EXCEPT ![m] = IF @ < MaxSame THEN @ + 1 ELSE @]
        BY <3>2 DEF FilesAdvisory, FilesDependabot, FilesTask
      <4> QED
        BY <3>0, <4>1
    <3>3. CASE \/ ConditionTurns \/ CrowdTurns \/ EnrolmentTurns \/ PullTurns \/ PassBegins
               \/ IntervalPasses \/ ProbesBun \/ ProbesGo \/ SavesLook \/ ForgetsLook
               \/ WatchDies \/ ListsPulls \/ ListAges \/ UNCHANGED watchVars
      <4>1. UNCHANGED open
        BY <3>3 DEF ConditionTurns, CrowdTurns, EnrolmentTurns, PullTurns, PassBegins,
                    IntervalPasses, ProbesBun, ProbesGo, SavesLook, ForgetsLook, WatchDies,
                    ListsPulls, ListAges, healthVars, watchVars
      <4> QED
        BY <3>0, <4>1
    <3> QED
      BY <3>1, <3>2, <3>3 DEF WatchNext, HealthStep, PullStep, Watches
  <2>5. /\ standing' \subseteq Finders /\ pulls' \subseteq Elsewhere /\ ours' \subseteq Elsewhere
        /\ others' \in [polled : BOOLEAN, prs : SUBSET Elsewhere]
    <3>0. /\ standing \subseteq Finders /\ pulls \subseteq Elsewhere /\ ours \subseteq Elsewhere
          /\ others \in [polled : BOOLEAN, prs : SUBSET Elsewhere]
      BY DEF WatchTypeOK
    <3>1. CASE ConditionTurns
      BY <3>0, <3>1 DEF ConditionTurns, pullVars
    <3>2. CASE PullTurns
      BY <3>0, <3>2 DEF PullTurns, healthVars
    <3>3. CASE ListsPulls
      <4>1. \/ others' = [polled |-> TRUE, prs |-> pulls \ ours]
            \/ others' = others
            \/ others' = [polled |-> FALSE, prs |-> {}]
        BY <3>3 DEF ListsPulls, Kept, Unpolled
      <4>2. UNCHANGED <<standing, pulls, ours>>
        BY <3>3 DEF ListsPulls, healthVars
      <4>3. others' \in [polled : BOOLEAN, prs : SUBSET Elsewhere]
        <5>1. ASSUME NEW prs \in SUBSET Elsewhere
              PROVE  /\ [polled |-> TRUE, prs |-> prs] \in [polled : BOOLEAN, prs : SUBSET Elsewhere]
                     /\ [polled |-> FALSE, prs |-> {}] \in [polled : BOOLEAN, prs : SUBSET Elsewhere]
          OBVIOUS
        <5>2. pulls \ ours \in SUBSET Elsewhere
          BY <3>0
        <5> QED
          BY <3>0, <4>1, <5>1, <5>2
      <4> QED
        BY <3>0, <4>2, <4>3
    <3>4. CASE ListAges
      BY <3>0, <3>4 DEF ListAges, healthVars
    <3>5. CASE \/ TaskCloses \/ CrowdTurns \/ EnrolmentTurns \/ PassBegins \/ IntervalPasses
               \/ ProbesBun \/ ProbesGo \/ FilesAdvisory \/ FilesDependabot \/ SavesLook
               \/ ForgetsLook \/ WatchDies \/ UNCHANGED watchVars
      <4>1. UNCHANGED <<standing, pulls, ours, others>>
        BY <3>5 DEF TaskCloses, CrowdTurns, EnrolmentTurns, PassBegins, IntervalPasses,
                    ProbesBun, ProbesGo, FilesAdvisory, FilesDependabot, SavesLook,
                    ForgetsLook, WatchDies, Aside, healthVars, pullVars, watchVars
      <4> QED
        BY <3>0, <4>1
    <3> QED
      BY <3>1, <3>2, <3>3, <3>4, <3>5 DEF WatchNext, HealthStep, PullStep, Watches
  <2>6. /\ crowd' \in 0 .. MaxCrowd /\ notices' \in Nat
        /\ losses' \in 0 .. MaxLosses /\ shifts' \in 0 .. MaxShifts
    <3>0. /\ crowd \in 0 .. MaxCrowd /\ notices \in Nat
          /\ losses \in 0 .. MaxLosses /\ shifts \in 0 .. MaxShifts
          /\ MaxLosses \in Nat /\ MaxShifts \in Nat
      BY WatchAssumption DEF WatchTypeOK
    <3>1. /\ losses' = losses \/ (losses < MaxLosses /\ losses' = losses + 1)
          /\ shifts' = shifts \/ (shifts < MaxShifts /\ shifts' = shifts + 1)
      BY DEF WatchNext, HealthStep, PullStep, Watches, ConditionTurns, TaskCloses, CrowdTurns,
             EnrolmentTurns, PullTurns, PassBegins, IntervalPasses, ProbesBun, ProbesGo,
             FilesAdvisory, FilesDependabot, FilesTask, SavesLook, ForgetsLook, WatchDies,
             ListsPulls, ListAges, Loses, Shifts, Counted, watchVars
    <3>2. notices' = notices \/ notices' = notices + 1
      BY DEF WatchNext, HealthStep, PullStep, Watches, ConditionTurns, TaskCloses, CrowdTurns,
             EnrolmentTurns, PullTurns, PassBegins, IntervalPasses, ProbesBun, ProbesGo,
             FilesAdvisory, FilesDependabot, SavesLook, ForgetsLook, WatchDies,
             ListsPulls, ListAges, healthVars, watchVars
    <3>3. crowd' = crowd \/ crowd' \in 0 .. MaxCrowd
      BY DEF WatchNext, HealthStep, PullStep, Watches, ConditionTurns, TaskCloses, CrowdTurns,
             EnrolmentTurns, PullTurns, PassBegins, IntervalPasses, ProbesBun, ProbesGo,
             FilesAdvisory, FilesDependabot, SavesLook, ForgetsLook, WatchDies,
             ListsPulls, ListAges, Aside, healthVars, watchVars
    <3> QED
      BY <3>0, <3>1, <3>2, <3>3
  <2> QED
    BY <2>1, <2>2, <2>3, <2>4, <2>5, <2>6 DEF WatchTypeOK, Flags, LookType, FileType
<1> QED
  BY <1>1, <1>2, PTL DEF WatchSpec, WatchNext

(* Whether the watch, or its file between looks, knows of the notice.      *)
Remembers == IF look.at = "idle" THEN watchFile.noticed ELSE look.noticed

(* Every notice but the remembered one has had its loss.                   *)
NoticeInv ==
    /\ ~Remembers => notices <= losses
    /\ notices <= 1 + losses

(* A notice is remembered until the file that remembers it is lost.        *)
LEMMA NoticedOnce == WatchSpec => []NoticeInv
<1>1. WatchInit => NoticeInv
  BY DEF WatchInit, NoticeInv
<1>2. WatchTypeOK /\ NoticeInv /\ [WatchNext]_watchVars => NoticeInv'
  <2> SUFFICES ASSUME WatchTypeOK, NoticeInv, [WatchNext]_watchVars
               PROVE  NoticeInv'
    OBVIOUS
  <2>0. /\ look \in LookType /\ watchFile \in FileType
        /\ notices \in Nat /\ losses \in Nat
    BY WatchAssumption DEF WatchTypeOK, LookType, FileType
  <2>1. losses' = losses \/ losses' = losses + 1
    BY DEF WatchNext, HealthStep, PullStep, Watches, ConditionTurns, TaskCloses, CrowdTurns,
           EnrolmentTurns, PullTurns, PassBegins, IntervalPasses, ProbesBun, ProbesGo,
           FilesAdvisory, FilesDependabot, FilesTask, SavesLook, ForgetsLook, WatchDies,
           ListsPulls, ListAges, Loses, Shifts, Counted, watchVars
  <2> DEFINE Same == Remembers' = Remembers /\ notices' = notices
             Lost == losses' = losses + 1 /\ notices' = notices
             Noticed == Remembers' /\ ~Remembers /\ notices' = notices + 1
             Known == Remembers' /\ notices' = notices
  <2>2. ASSUME \/ ConditionTurns \/ TaskCloses \/ CrowdTurns \/ EnrolmentTurns \/ PullTurns
             \/ ListsPulls \/ ListAges \/ UNCHANGED watchVars
       PROVE  Same \/ Lost \/ Noticed \/ Known
    <3>1. UNCHANGED <<look, watchFile, notices>>
      BY <2>2 DEF ConditionTurns, TaskCloses, CrowdTurns, EnrolmentTurns, PullTurns,
                  ListsPulls, ListAges, healthVars, watchVars
    <3>2. Same
      BY <3>1 DEF Remembers
    <3> QED
      BY <3>2
  <2>3. ASSUME PassBegins
       PROVE  Same \/ Lost \/ Noticed \/ Known
    <3>1. /\ look.at = "idle" /\ UNCHANGED <<watchFile, notices>>
          /\ look'.at = "bun"
          /\ look'.noticed = watchFile.noticed \/ losses' = losses + 1
      BY <2>3 DEF PassBegins, Looks, Unlooked, Loses
    <3> QED
      BY <3>1 DEF Remembers
  <2>4. ASSUME IntervalPasses \/ ForgetsLook
       PROVE  Same \/ Lost \/ Noticed \/ Known
    <3>1. /\ look.at = "idle" /\ UNCHANGED <<look, notices>>
          /\ watchFile'.noticed = watchFile.noticed
      BY <2>0, <2>4 DEF IntervalPasses, ForgetsLook, Looks, FileType
    <3> QED
      BY <3>1 DEF Remembers
  <2>5. ASSUME ProbesBun \/ FilesAdvisory \/ FilesDependabot
       PROVE  Same \/ Lost \/ Noticed \/ Known
    <3>1. /\ look.at # "idle" /\ look'.at # "idle" /\ look'.noticed = look.noticed
          /\ UNCHANGED <<watchFile, notices>>
      BY <2>0, <2>5 DEF ProbesBun, FilesAdvisory, FilesDependabot, FilesTask, Looks, LookGoes,
                        LookType
    <3> QED
      BY <3>1 DEF Remembers
  <2>6. ASSUME ProbesGo
       PROVE  Same \/ Lost \/ Noticed \/ Known
    <3>1. /\ look.at = "govulncheck" /\ UNCHANGED watchFile
          /\ look'.at # "idle"
          /\ \/ look'.noticed = look.noticed /\ UNCHANGED notices
             \/ look'.noticed = TRUE /\ UNCHANGED notices
             \/ look'.noticed = TRUE /\ ~look.noticed /\ notices' = notices + 1
      BY <2>0, <2>6 DEF ProbesGo, Looks, LookGoes, LookType
    <3> QED
      BY <3>1 DEF Remembers
  <2>7. ASSUME SavesLook \/ WatchDies
       PROVE  Same \/ Lost \/ Noticed \/ Known
    <3>1. /\ look.at # "idle" /\ look'.at = "idle" /\ UNCHANGED notices
          /\ \/ watchFile'.noticed = look.noticed
             \/ losses' = losses + 1
      BY <2>7 DEF SavesLook, WatchDies, Saved, Looks, Unlooked, Loses
    <3> QED
      BY <3>1 DEF Remembers
  <2>8. Same \/ Lost \/ Noticed \/ Known
    BY <2>2, <2>3, <2>4, <2>5, <2>6, <2>7 DEF WatchNext, HealthStep, PullStep, Watches
  <2> DEFINE knew == Remembers
             knows == Remembers'
  <2>9. \/ knows = knew /\ notices' = notices
        \/ losses' = losses + 1 /\ notices' = notices
        \/ knows /\ ~knew /\ notices' = notices + 1
        \/ knows /\ notices' = notices
    BY <2>8
  <2>10. (~knew => notices <= losses) /\ notices <= 1 + losses
    BY DEF NoticeInv
  <2> HIDE DEF knew, knows, Same, Lost, Noticed, Known
  <2>11. (~knows => notices' <= losses') /\ notices' <= 1 + losses'
    BY <2>0, <2>1, <2>9, <2>10
  <2> QED
    BY <2>11 DEF NoticeInv, knows
<1> QED
  BY <1>1, <1>2, WatchTypes, PTL DEF WatchSpec, WatchNext

(* Until the board has held more than a filing can see, no condition has   *)
(* two open tasks.                                                         *)
OneTask == crowded \/ \A m \in Markers : open[m] <= 1

(* A filing looks for an open task of its own marker first.                *)
LEMMA FiledAfterLooking == WatchSpec => []OneTask
<1>1. WatchInit => OneTask
  BY DEF WatchInit, OneTask
<1>2. WatchTypeOK /\ OneTask /\ [WatchNext]_watchVars => OneTask'
  <2> SUFFICES ASSUME WatchTypeOK, OneTask, [WatchNext]_watchVars
               PROVE  OneTask'
    OBVIOUS
  <2>0. open \in [Markers -> 0 .. MaxSame] /\ MaxSame \in Nat
    BY WatchAssumption DEF WatchTypeOK
  <2>1. CASE TaskCloses
    <3>1. UNCHANGED crowded
      BY <2>1 DEF TaskCloses
    <3>2. \A m \in Markers : open[m] <= 1 => open'[m] <= 1
      BY <2>0, <2>1 DEF TaskCloses
    <3> QED
      BY <3>1, <3>2 DEF OneTask
  <2>2. CASE FilesAdvisory \/ FilesDependabot
    <3>1. \/ UNCHANGED <<open, crowded>>
          \/ \E found :
                /\ FALSE \in BoardAnswers(found)
                /\ open' = [open EXCEPT ![found] = IF @ < MaxSame THEN @ + 1 ELSE @]
                /\ crowded' = (crowded \/ OpenTasks > Window)
      BY <2>2 DEF FilesAdvisory, FilesDependabot, FilesTask
    <3>2. CASE UNCHANGED <<open, crowded>>
      BY <3>2 DEF OneTask
    <3>3. ASSUME NEW found,
                 FALSE \in BoardAnswers(found),
                 open' = [open EXCEPT ![found] = IF @ < MaxSame THEN @ + 1 ELSE @],
                 crowded' = (crowded \/ OpenTasks > Window)
          PROVE  OneTask'
      <4>1. CASE crowded \/ OpenTasks > Window
        BY <3>3, <4>1 DEF OneTask
      <4>2. CASE ~crowded /\ ~(OpenTasks > Window)
        <5>1. ~(open[found] > 0)
          BY <3>3, <4>2 DEF BoardAnswers, Matching
        <5>2. \A m \in Markers : open[m] <= 1
          BY <4>2 DEF OneTask
        <5>3. \A m \in Markers : open'[m] <= 1
          BY <2>0, <3>3, <5>1, <5>2
        <5> QED
          BY <5>3 DEF OneTask
      <4> QED
        BY <4>1, <4>2
    <3> QED
      BY <3>1, <3>2, <3>3
  <2>3. CASE \/ ConditionTurns \/ CrowdTurns \/ EnrolmentTurns \/ PullTurns \/ PassBegins
             \/ IntervalPasses \/ ProbesBun \/ ProbesGo \/ SavesLook \/ ForgetsLook
             \/ WatchDies \/ ListsPulls \/ ListAges \/ UNCHANGED watchVars
    <3>1. UNCHANGED <<open, crowded>>
      BY <2>3 DEF ConditionTurns, CrowdTurns, EnrolmentTurns, PullTurns, PassBegins,
                  IntervalPasses, ProbesBun, ProbesGo, SavesLook, ForgetsLook, WatchDies,
                  ListsPulls, ListAges, healthVars, watchVars
    <3> QED
      BY <3>1 DEF OneTask
  <2> QED
    BY <2>1, <2>2, <2>3 DEF WatchNext, HealthStep, PullStep, Watches
<1> QED
  BY <1>1, <1>2, WatchTypes, PTL DEF WatchSpec, WatchNext

(* repo_watch_task.rs:20-23: no condition has two open tasks unless a      *)
(* filing saw less than the board, and the missing tool is told once, or   *)
(* once more for every loss.                                               *)
THEOREM WatchFilesOnce == WatchSpec => []FiledOnce
<1>1. NoticeInv /\ OneTask => FiledOnce
  BY DEF NoticeInv, OneTask, FiledOnce
<1> QED
  BY <1>1, NoticedOnce, FiledAfterLooking, PTL

-----------------------------------------------------------------------------
(* Lines of a file that grows, and of the tail a rotation keeps            *)

(* The reports of every line that ends after `from`, legible or not.       *)
After(from) == {file[i].report : i \in LineEnds(from)}

(* A file written behind its end keeps the lines it has.                   *)
LEMMA GrownFile ==
  ASSUME file \in Seq(Units), NEW s \in Seq(Units), file' = file \o s,
         NEW from \in 0..Len(file)
  PROVE  /\ file' \in Seq(Units)
         /\ Len(file') = Len(file) + Len(s)
         /\ \A i \in 1..Len(file) : file'[i] = file[i]
         /\ \A i \in 1..Len(s) : file'[Len(file) + i] = s[i]
         /\ ReportsFrom(from) \subseteq ReportsFrom(from)'
         /\ After(from)' \subseteq After(from) \cup
                                   {s[i].report : i \in {j \in 1..Len(s) : s[j].newline}}
<1>1. /\ file' \in Seq(Units)
      /\ Len(file') = Len(file) + Len(s)
      /\ \A i \in 1..Len(file) : file'[i] = file[i]
      /\ \A i \in 1..Len(s) : file'[Len(file) + i] = s[i]
  OBVIOUS
<1>2. ASSUME NEW i \in Legible(from)
      PROVE  i \in Legible(from)' /\ file'[i] = file[i]
  <2>1. /\ i \in (from + 1)..Len(file)
        /\ file[i].newline
        /\ i > from + 1
        /\ file[i - 1] = Text(file[i].report)
        /\ i = from + 2 \/ file[i - 2].newline
    BY DEF Legible, LineEnds
  <2>2. /\ file'[i] = file[i]
        /\ file'[i - 1] = file[i - 1]
        /\ i # from + 2 => file'[i - 2] = file[i - 2]
    BY <1>1, <2>1
  <2>3. i \in (from + 1)..Len(file')
    BY <1>1, <2>1
  <2> QED
    BY <2>1, <2>2, <2>3 DEF Legible, LineEnds, Text
<1>3. ReportsFrom(from) \subseteq ReportsFrom(from)'
  BY <1>2 DEF ReportsFrom
<1>4. ASSUME NEW i \in LineEnds(from)'
      PROVE  \/ i \in LineEnds(from) /\ file'[i] = file[i]
             \/ i - Len(file) \in 1..Len(s) /\ file'[i] = s[i - Len(file)]
  BY <1>1 DEF LineEnds
<1>5. After(from)' \subseteq After(from) \cup
                    {s[i].report : i \in {j \in 1..Len(s) : s[j].newline}}
  BY <1>4 DEF After, LineEnds
<1> QED
  BY <1>1, <1>3, <1>5

(* What is behind `from` is what the tail from there on has.               *)
LEMMA TailOfFile ==
  ASSUME file \in Seq(Units), NEW from \in 0..Len(file),
         file' = SubSeq(file, from + 1, Len(file))
  PROVE  /\ file' \in Seq(Units)
         /\ Len(file') = Len(file) - from
         /\ ReportsFrom(from) \subseteq ReportsFrom(0)'
         /\ After(0)' \subseteq After(from)
<1>1. /\ file' \in Seq(Units)
      /\ Len(file') = Len(file) - from
      /\ \A i \in 1..Len(file') : file'[i] = file[from + i]
  OBVIOUS
<1>2. ASSUME NEW i \in Legible(from)
      PROVE  i - from \in Legible(0)' /\ file'[i - from] = file[i]
  <2>1. /\ i \in (from + 1)..Len(file)
        /\ file[i].newline
        /\ i > from + 1
        /\ file[i - 1] = Text(file[i].report)
        /\ i = from + 2 \/ file[i - 2].newline
    BY DEF Legible, LineEnds
  <2>2. /\ file'[i - from] = file[i]
        /\ file'[(i - from) - 1] = file[i - 1]
        /\ i # from + 2 => file'[(i - from) - 2] = file[i - 2]
    BY <1>1, <2>1
  <2>3. /\ i - from \in (0 + 1)..Len(file')
        /\ i - from > 0 + 1
        /\ i = from + 2 => i - from = 0 + 2
    <3>1. /\ from \in Nat /\ i \in Nat /\ from + 1 < i /\ i <= Len(file)
          /\ Len(file) \in Nat
      BY <2>1
    <3>2. Len(file') = Len(file) - from
      BY <1>1
    <3> QED
      BY <3>1, <3>2
  <2> QED
    BY <2>1, <2>2, <2>3 DEF Legible, LineEnds, Text
<1>3. ReportsFrom(from) \subseteq ReportsFrom(0)'
  BY <1>2 DEF ReportsFrom
<1>4. ASSUME NEW i \in LineEnds(0)'
      PROVE  i + from \in LineEnds(from) /\ file'[i] = file[i + from]
  BY <1>1 DEF LineEnds
<1>5. After(0)' \subseteq After(from)
  BY <1>4 DEF After
<1> QED
  BY <1>1, <1>3, <1>5

(* The fewer lines come after a position the further on it is.             *)
LEMMA AfterShrinks ==
  ASSUME NEW p \in Nat, NEW q \in Nat, p <= q
  PROVE  After(q) \subseteq After(p)
BY DEF After, LineEnds

(* A legible line is a line.                                               *)
LEMMA LegibleAfter ==
  ASSUME NEW p \in Nat
  PROVE  ReportsFrom(p) \subseteq After(p)
BY DEF ReportsFrom, Legible, After

(* A report written behind a whole line is legible from anywhere before.   *)
LEMMA AppendedLegible ==
  ASSUME file \in Seq(Units), NEW r \in Reports, ~EndsTorn,
         file' = file \o <<Text(r), Newline(r)>>, NEW from \in 0..Len(file)
  PROVE  r \in ReportsFrom(from)'
<1>1. /\ file' \in Seq(Units)
      /\ Len(file') = Len(file) + 2
      /\ \A i \in 1..Len(file) : file'[i] = file[i]
      /\ file'[Len(file) + 1] = Text(r)
      /\ file'[Len(file) + 2] = Newline(r)
  BY DEF Units, Text, Newline
<1>2. from = Len(file) \/ file[Len(file)].newline
  <2>1. Len(file) = 0 => from = Len(file)
    OBVIOUS
  <2>2. file = <<>> => Len(file) = 0
    OBVIOUS
  <2> QED
    BY <2>1, <2>2 DEF EndsTorn
<1>3. /\ Len(file) + 2 \in (from + 1)..Len(file')
      /\ Len(file) + 2 > from + 1
      /\ file'[(Len(file) + 2) - 1] = Text(r)
      /\ from # Len(file) => file'[(Len(file) + 2) - 2] = file[Len(file)]
      /\ from = Len(file) => Len(file) + 2 = from + 2
  <2>1. Len(file) \in Nat
    OBVIOUS
  <2> QED
    BY <1>1, <2>1
<1>4. file'[Len(file) + 2].newline /\ file'[Len(file) + 2].report = r
  BY <1>1 DEF Newline
<1>5. Len(file) + 2 \in Legible(from)'
  BY <1>2, <1>3, <1>4 DEF Legible, LineEnds, Text
<1> QED
  BY <1>4, <1>5 DEF ReportsFrom

-----------------------------------------------------------------------------
(* Types and the daemon's own state                                        *)

(* A read begins inside the file.                                          *)
LEMMA StartInFile ==
  ASSUME TypeOK
  PROVE  Start \in 0..Len(file)
BY DEF Start, TypeOK

(* The same of the next daemon.                                            *)
LEMMA ResumeInFile ==
  ASSUME TypeOK
  PROVE  ResumeAt \in 0..Len(file)
BY DEF ResumeAt, TypeOK

(* Outside the pass that read something, the reader is where the offset on *)
(* disk says and the ledger in memory is the saved one.                    *)
ReaderInv ==
    /\ pc \in {"gather", "down"} => pending = NoOffset
    /\ pc = "rotate" => pending # NoOffset
    /\ pending = NoOffset /\ pc # "down" => offset = savedOffset
    /\ pending = NoOffset \/ pc # "save" => applied = ledger
    /\ \A r \in Reports : ledger[r] <= applied[r]
    /\ ~interrupted => savedOffset <= Len(file)

(* Every reachable state of the inbox has the types of TypeOK, and the     *)
(* daemon's pass the order ReaderInv states (daemon.rs run_daemon).        *)
THEOREM ReaderCorrect == Spec => [](TypeOK /\ ReaderInv)
<1>1. Init => TypeOK /\ ReaderInv
  <2> SUFFICES ASSUME Init PROVE TypeOK /\ ReaderInv
    OBVIOUS
  <2>1. file \in Seq(Units) /\ Len(file) = 0
    BY DEF Init
  <2>2. /\ applied \in [Reports -> Nat]
        /\ ledger = applied
        /\ \A r \in Reports : ledger[r] <= applied[r]
    BY DEF Init
  <2>3. interrupted \in BOOLEAN /\ misread \in BOOLEAN
    BY Zenon DEF Init
  <2>4. TypeOK
    BY <2>1, <2>2, <2>3, InboxAssumption DEF Init, TypeOK, NoOffset
  <2>5. ReaderInv
    BY <2>1, <2>2 DEF Init, ReaderInv, NoOffset
  <2> QED
    BY <2>4, <2>5
<1>2. TypeOK /\ ReaderInv /\ [Next]_vars => (TypeOK /\ ReaderInv)'
  <2> SUFFICES ASSUME TypeOK, ReaderInv, [Next]_vars
               PROVE  (TypeOK /\ ReaderInv)'
    OBVIOUS
  <2> USE InboxAssumption
  <2>1. CASE AppendReport
    <3>1. /\ written' \in Reports
          /\ written' \in 0..MaxReports
          /\ sent' \subseteq 1..written'
      BY <2>1 DEF AppendReport, Appending, TypeOK, Reports
    <3>2. <<Text(written'), Newline(written')>> \in Seq(Units)
      BY <3>1 DEF Text, Newline, Units
    <3>3. file' \in Seq(Units) /\ Len(file') >= Len(file)
      BY <2>1, <3>2 DEF AppendReport, TypeOK
    <3> QED
      BY <2>1, <3>1, <3>3
      DEF AppendReport, Appending, Unlocked, TypeOK, ReaderInv, readerVars
  <2>2. CASE AppendTorn
    <3>1. /\ written' \in Reports
          /\ written' \in 0..MaxReports
          /\ sent' \subseteq 1..written'
          /\ torn' \in 0..MaxTorn
      BY <2>2 DEF AppendTorn, Appending, TypeOK, Reports
    <3>2. <<Text(written')>> \in Seq(Units)
      BY <3>1 DEF Text, Units
    <3>3. file' \in Seq(Units) /\ Len(file') >= Len(file)
      BY <2>2, <3>2 DEF AppendTorn, TypeOK
    <3> QED
      BY <2>2, <3>1, <3>3
      DEF AppendTorn, Appending, Unlocked, TypeOK, ReaderInv, readerVars
  <2>3. CASE ReadNew
    <3>1. Start \in 0..Len(file)
      BY StartInFile
    <3>2. pending' \in 0..Len(file)
      BY <2>3, <3>1 DEF ReadNew, ReadTo, LineEnds
    <3>3. /\ applied' \in [Reports -> Nat]
          /\ \A r \in Reports : applied'[r] >= applied[r]
      BY <2>3 DEF ReadNew, TypeOK
    <3> QED
      BY <2>3, <3>2, <3>3
      DEF ReadNew, TypeOK, ReaderInv, NoOffset, fileVars, workerVars, Misplaced
  <2>4. CASE ReadFails
    BY <2>4 DEF ReadFails, TypeOK, ReaderInv, NoOffset, fileVars, workerVars
  <2>5. CASE SaveLedger
    BY <2>5 DEF SaveLedger, TypeOK, ReaderInv, NoOffset, fileVars, workerVars
  <2>6. CASE CommitNothing
    BY <2>6 DEF CommitNothing, TypeOK, ReaderInv, NoOffset, fileVars, workerVars
  <2>7. CASE CommitOffset
    <3>1. pending \in 0..Len(file)
      BY <2>7 DEF CommitOffset, Committing, TypeOK, NoOffset
    <3>0. interrupted' \in BOOLEAN
      BY <2>7, Zenon DEF CommitOffset
    <3>2. TypeOK'
      BY <2>7, <3>0, <3>1 DEF CommitOffset, Committing, TypeOK, NoOffset, workerVars
    <3>3. ReaderInv'
      BY <2>7, <3>1 DEF CommitOffset, Committing, TypeOK, ReaderInv, NoOffset
    <3> QED
      BY <3>2, <3>3
  <2>8. CASE RotateFile
    <3>1. pending \in 0..Len(file)
      BY <2>8 DEF RotateFile, Committing, TypeOK, NoOffset
    <3>2. file' \in Seq(Units)
      BY <2>8, <3>1, TailOfFile DEF RotateFile, UnreadTail, TypeOK
    <3>3. /\ pc' = "rotate"
          /\ pending' = pending
          /\ pending \in Nat
          /\ interrupted'
      BY <2>8, <3>1 DEF RotateFile
    <3> QED
      BY <2>8, <3>1, <3>2, <3>3
      DEF RotateFile, Committing, TypeOK, ReaderInv, NoOffset, workerVars
  <2>9. CASE RotateOffset
    <3>0. interrupted' \in BOOLEAN
      BY <2>9, Zenon DEF RotateOffset
    <3>1. TypeOK'
      BY <2>9, <3>0 DEF RotateOffset, TypeOK, NoOffset, workerVars
    <3>2. ReaderInv'
      BY <2>9 DEF RotateOffset, TypeOK, ReaderInv, NoOffset
    <3> QED
      BY <3>1, <3>2
  <2>10. CASE Crash
    BY <2>10 DEF Crash, TypeOK, ReaderInv, NoOffset, fileVars, workerVars
  <2>11. CASE Restart
    BY <2>11 DEF Restart, TypeOK, ReaderInv, NoOffset, fileVars, workerVars
  <2>12. CASE UNCHANGED vars
    BY <2>12
    DEF vars, fileVars, readerVars, workerVars, TypeOK, ReaderInv
  <2> QED
    BY <2>1, <2>2, <2>3, <2>4, <2>5, <2>6, <2>7, <2>8, <2>9, <2>10, <2>11,
       <2>12
    DEF Next, DaemonStep
<1> QED
  BY <1>1, <1>2, PTL DEF Spec

-----------------------------------------------------------------------------
(* Nothing is skipped                                                      *)

(* Where the reports of a read not yet committed end: a rotation has moved *)
(* them to the start of the new file.                                      *)
Unread == IF pc = "rotate" THEN 0 ELSE pending

Unapplied == {r \in sent : applied[r] = 0}

(* NothingSkipped is about restarts; this adds the read in flight: what    *)
(* the ledger in memory lacks lies behind what was read.                   *)
SkipInv ==
    /\ NothingSkipped
    /\ pending # NoOffset =>
         misread \/ Unapplied \subseteq ReportsFrom(Unread)

(* Reports sent are reports.                                               *)
LEMMA SentReports ==
  ASSUME TypeOK
  PROVE  sent \subseteq Reports
BY InboxAssumption DEF TypeOK, Reports

(* Every read but a misplaced one leaves no report unapplied.              *)
LEMMA ReadAppliesAll ==
  ASSUME TypeOK, ReaderInv, SkipInv, ReadNew
  PROVE  misread' \/ Unapplied' = {}
<1> SUFFICES ASSUME ~misread, ~Misplaced
             PROVE  Unapplied' = {}
  BY DEF ReadNew, TypeOK
<1>1. /\ ledger = applied
      /\ offset = savedOffset
      /\ sent' = sent
  BY DEF ReadNew, ReaderInv, workerVars
<1>2. Unapplied \subseteq ReportsFrom(Start)
  BY <1>1 DEF SkipInv, NothingSkipped, Unapplied, Unsaved, Start, ResumeAt
<1>3. ASSUME NEW r \in sent
      PROVE  applied'[r] # 0
  <2>1. r \in Reports /\ applied[r] \in Nat
    BY SentReports DEF TypeOK
  <2>2. applied'[r] = IF r \in ReportsFrom(Start) THEN applied[r] + 1
                                                  ELSE applied[r]
    BY <2>1 DEF ReadNew
  <2>3. applied[r] = 0 => r \in ReportsFrom(Start)
    BY <1>2 DEF Unapplied
  <2> QED
    BY <2>1, <2>2, <2>3
<1> QED
  BY <1>1, <1>3 DEF Unapplied

(* A line written behind the end of the file, whole or torn, leaves what   *)
(* was legible legible, and the new report too unless it shares its line.  *)
LEMMA AppendSkips ==
  ASSUME TypeOK, ReaderInv, AppendReport \/ AppendTorn,
         NEW from \in 0..Len(file)
  PROVE  /\ ReportsFrom(from) \subseteq ReportsFrom(from)'
         /\ sent' \ sent \subseteq ReportsFrom(from)'
         /\ Len(file') >= Len(file)
<1>1. written' \in Reports
  <2>1. written' = written + 1 /\ written < MaxReports
    BY DEF AppendReport, AppendTorn, Appending
  <2> QED
    BY <2>1, InboxAssumption DEF TypeOK, Reports
<1>2. PICK s \in Seq(Units) : file' = file \o s
  <2>1. <<Text(written'), Newline(written')>> \in Seq(Units)
    BY <1>1 DEF Text, Newline, Units
  <2>2. <<Text(written')>> \in Seq(Units)
    BY <1>1 DEF Text, Units
  <2> QED
    BY <2>1, <2>2 DEF AppendReport, AppendTorn
<1>3. /\ ReportsFrom(from) \subseteq ReportsFrom(from)'
      /\ Len(file') = Len(file) + Len(s)
  BY <1>2, GrownFile DEF TypeOK
<1>4. Len(file') >= Len(file)
  BY <1>2, <1>3 DEF TypeOK
<1>5. ASSUME NEW r \in sent' \ sent
      PROVE  r \in ReportsFrom(from)'
  <2>1. /\ ~EndsTorn
        /\ r = written'
        /\ file' = file \o <<Text(r), Newline(r)>>
    BY <1>5 DEF AppendReport, AppendTorn
  <2> QED
    BY <1>1, <2>1, AppendedLegible DEF TypeOK
<1> QED
  BY <1>3, <1>4, <1>5

(* No report is lost but to an interrupted rotation.                       *)
LEMMA SkipStep ==
  ASSUME TypeOK, ReaderInv, SkipInv, [Next]_vars, TypeOK', ReaderInv'
  PROVE  SkipInv'
<1>1. CASE AppendReport \/ AppendTorn
  <2>1. UNCHANGED <<savedOffset, pending, pc, applied, ledger, interrupted,
                    misread>>
    BY <1>1 DEF AppendReport, AppendTorn, Appending, readerVars
  <2>2. pc # "rotate"
    BY <1>1 DEF AppendReport, AppendTorn, Appending, Unlocked
  <2>3. \A from \in 0..Len(file) :
          /\ ReportsFrom(from) \subseteq ReportsFrom(from)'
          /\ sent' \ sent \subseteq ReportsFrom(from)'
          /\ Len(file') >= Len(file)
    BY <1>1, AppendSkips
  <2>4. PICK at \in 0..Len(file) : at = ResumeAt
    BY DEF ResumeAt, TypeOK
  <2>5. NothingSkipped'
    <3> SUFFICES ASSUME ~misread, ~Misplaced'
                 PROVE  Unsaved' \subseteq ReportsFrom(ResumeAt)'
      BY <2>1 DEF NothingSkipped
    <3>1. ~Misplaced /\ ResumeAt' = at
      BY <2>1, <2>3, <2>4 DEF Misplaced, ResumeAt, TypeOK, ReaderInv
    <3>2. Unsaved \subseteq ReportsFrom(at)
      BY <2>4, <3>1 DEF SkipInv, NothingSkipped
    <3>3. Unsaved' \subseteq Unsaved \cup (sent' \ sent)
      BY <2>1 DEF Unsaved
    <3>4. Unsaved' \subseteq ReportsFrom(at)'
      BY <2>3, <3>2, <3>3
    <3>5. ReportsFrom(ResumeAt)' = ReportsFrom(at)'
      BY <3>1 DEF ReportsFrom, Legible, LineEnds
    <3> QED
      BY <3>4, <3>5
  <2>6. ASSUME pending # NoOffset, ~misread
        PROVE  Unapplied' \subseteq ReportsFrom(Unread)'
    <3>1. PICK p \in 0..Len(file) : p = pending
      BY <2>2, <2>6 DEF TypeOK
    <3>2. Unapplied \subseteq ReportsFrom(p)
      BY <2>2, <2>6, <3>1 DEF SkipInv, Unread
    <3>3. Unapplied' \subseteq Unapplied \cup (sent' \ sent)
      BY <2>1 DEF Unapplied
    <3>4. Unapplied' \subseteq ReportsFrom(p)'
      BY <2>3, <3>2, <3>3
    <3>5. Unread' = p
      BY <2>1, <2>2, <3>1 DEF Unread
    <3>6. ReportsFrom(Unread)' = ReportsFrom(p)'
      BY <3>5 DEF ReportsFrom, Legible, LineEnds
    <3> QED
      BY <3>4, <3>6
  <2> QED
    BY <2>1, <2>5, <2>6 DEF SkipInv
<1>2. CASE ReadNew
  <2>1. /\ UNCHANGED <<file, savedOffset, ledger, sent, interrupted>>
        /\ misread => misread'
    BY <1>2 DEF ReadNew, fileVars, workerVars
  <2>2. NothingSkipped'
    BY <2>1 DEF SkipInv, NothingSkipped, Misplaced, Unsaved, ResumeAt,
                ReportsFrom, Legible, LineEnds
  <2> QED
    BY <1>2, <2>2, ReadAppliesAll DEF SkipInv
<1>3. CASE ReadFails \/ CommitNothing \/ Restart
  <2>1. /\ UNCHANGED <<fileVars, pending, applied, ledger, sent, interrupted,
                       misread>>
        /\ pending = NoOffset
    BY <1>3 DEF ReadFails, CommitNothing, Restart, ReaderInv, workerVars
  <2> QED
    BY <2>1 DEF SkipInv, NothingSkipped, Misplaced, Unsaved, ResumeAt,
                ReportsFrom, Legible, LineEnds, fileVars
<1>4. CASE SaveLedger
  <2>1. /\ UNCHANGED <<fileVars, pending, applied, sent, interrupted, misread>>
        /\ ledger' = applied
        /\ pc = "save"
        /\ pc' = "commit"
    BY <1>4 DEF SaveLedger, workerVars
  <2>2. Unsaved' \subseteq Unsaved
    <3>1. \A r \in sent : /\ ledger[r] <= applied[r]
                          /\ ledger[r] \in Nat
                          /\ applied[r] \in Nat
      BY SentReports DEF ReaderInv, TypeOK
    <3> QED
      BY <2>1, <3>1 DEF Unsaved
  <2>3. NothingSkipped'
    BY <2>1, <2>2 DEF SkipInv, NothingSkipped, Misplaced, ResumeAt,
                      ReportsFrom, Legible, LineEnds, fileVars
  <2>4. pending # NoOffset =>
          misread \/ Unapplied' \subseteq ReportsFrom(Unread)'
    BY <2>1 DEF SkipInv, Unapplied, Unread, ReportsFrom, Legible, LineEnds,
                fileVars
  <2> QED
    BY <2>1, <2>3, <2>4 DEF SkipInv
<1>5. CASE CommitOffset
  <2>1. /\ pc = "commit"
        /\ pending # NoOffset
        /\ savedOffset' = pending
        /\ pending' = NoOffset
        /\ UNCHANGED <<file, applied, ledger, sent, misread>>
    BY <1>5 DEF CommitOffset, Committing, workerVars
  <2>2. /\ Unsaved' = Unapplied
        /\ pending \in 0..Len(file)
    BY <2>1 DEF ReaderInv, Unsaved, Unapplied, TypeOK, NoOffset
  <2>3. ResumeAt' = pending
    BY <2>1, <2>2 DEF ResumeAt, TypeOK
  <2>4. ReportsFrom(ResumeAt)' = ReportsFrom(pending)
    BY <2>1, <2>3 DEF ReportsFrom, Legible, LineEnds
  <2>5. misread \/ Unsaved' \subseteq ReportsFrom(ResumeAt)'
    BY <2>1, <2>2, <2>4 DEF SkipInv, Unread
  <2> QED
    BY <2>1, <2>5 DEF SkipInv, NothingSkipped
<1>6. CASE RotateFile
  <2>1. /\ pc = "commit"
        /\ pc' = "rotate"
        /\ pending # NoOffset
        /\ file' = SubSeq(file, pending + 1, Len(file))
        /\ interrupted'
        /\ UNCHANGED <<savedOffset, pending, applied, ledger, sent, misread>>
    BY <1>6 DEF RotateFile, Committing, UnreadTail, workerVars
  <2>2. PICK p \in 0..Len(file) : p = pending
    BY <2>1 DEF TypeOK, NoOffset
  <2>3. ReportsFrom(p) \subseteq ReportsFrom(0)'
    BY <2>1, <2>2, TailOfFile DEF TypeOK
  <2>4. misread \/ Unapplied' \subseteq ReportsFrom(0)'
    <3>1. Unapplied' = Unapplied
      BY <2>1 DEF Unapplied
    <3>2. misread \/ Unapplied \subseteq ReportsFrom(p)
      BY <2>1, <2>2 DEF SkipInv, Unread
    <3> QED
      BY <2>3, <3>1, <3>2
  <2>5. Unsaved' = Unapplied'
    BY <2>1 DEF ReaderInv, Unsaved, Unapplied
  <2>6. ~Misplaced' => ResumeAt' = 0
    BY <2>1 DEF Misplaced, ResumeAt, TypeOK
  <2>7. ~Misplaced' => ReportsFrom(ResumeAt)' = ReportsFrom(0)'
    BY <2>6 DEF ReportsFrom, Legible, LineEnds
  <2>8. ReportsFrom(Unread)' = ReportsFrom(0)'
    BY <2>1 DEF Unread, ReportsFrom, Legible, LineEnds
  <2> QED
    BY <2>1, <2>4, <2>5, <2>7, <2>8 DEF SkipInv, NothingSkipped
<1>7. CASE RotateOffset
  <2>1. /\ pc = "rotate"
        /\ savedOffset' = 0
        /\ pending # NoOffset
        /\ pending' = NoOffset
        /\ UNCHANGED <<file, applied, ledger, sent, misread>>
    BY <1>7 DEF RotateOffset, ReaderInv, workerVars
  <2>2. Unsaved' = Unapplied
    BY <2>1 DEF ReaderInv, Unsaved, Unapplied
  <2>3. ReportsFrom(ResumeAt)' = ReportsFrom(Unread)
    BY <2>1 DEF ResumeAt, Unread, ReportsFrom, Legible, LineEnds, TypeOK
  <2> QED
    BY <2>1, <2>2, <2>3 DEF SkipInv, NothingSkipped
<1>8. CASE Crash
  <2>1. /\ UNCHANGED <<file, savedOffset, ledger, sent, interrupted, misread>>
        /\ pending' = NoOffset
    BY <1>8 DEF Crash, fileVars, workerVars
  <2> QED
    BY <2>1 DEF SkipInv, NothingSkipped, Misplaced, Unsaved, ResumeAt,
                ReportsFrom, Legible, LineEnds
<1>9. CASE UNCHANGED vars
  BY <1>9 DEF vars, fileVars, readerVars, workerVars, SkipInv, NothingSkipped,
              Misplaced, Unsaved, Unapplied, Unread, ResumeAt, ReportsFrom,
              Legible, LineEnds
<1> QED
  BY <1>1, <1>2, <1>3, <1>4, <1>5, <1>6, <1>7, <1>8, <1>9 DEF Next, DaemonStep

(* A report the saved ledger lacks is read by the next daemon, unless a    *)
(* rotation was interrupted between its two writes (InboxReader::commit,   *)
(* run_daemon's order of saving and committing).                           *)
THEOREM NoReportSkipped == Spec => []NothingSkipped
<1>1. Init => SkipInv
  BY DEF Init, SkipInv, NothingSkipped, Unsaved, NoOffset
<1>2. TypeOK /\ ReaderInv /\ SkipInv /\ [Next]_vars
      /\ TypeOK' /\ ReaderInv' => SkipInv'
  BY SkipStep
<1>3. SkipInv => NothingSkipped
  BY DEF SkipInv
<1> QED
  BY <1>1, <1>2, <1>3, ReaderCorrect, PTL DEF Spec

-----------------------------------------------------------------------------
(* Oldest first                                                            *)

InOrder(times) ==
    \A r, q \in sent : r < q /\ times[q] > 0 => times[r] > 0

(* Nothing is applied that no worker has written.                          *)
OrderInv ==
    /\ misread \/ (InOrder(applied) /\ InOrder(ledger))
    /\ \A r \in Reports : r > written => applied[r] = 0
    /\ \A i \in 1..Len(file) : file[i].report <= written

(* What an append leaves: everything that was, and one more report at the  *)
(* end, which nobody has applied.                                          *)
LEMMA AppendWrites ==
  ASSUME TypeOK, OrderInv, AppendReport \/ AppendTorn
  PROVE  /\ written' = written + 1
         /\ written' \in Reports
         /\ applied[written'] = 0
         /\ sent' \subseteq sent \cup {written'}
         /\ \A i \in 1..Len(file') : file'[i].report <= written'
         /\ \A from \in 0..Len(file) :
                After(from)' \subseteq After(from) \cup {written'}
<1>1. /\ written' = written + 1
      /\ written < MaxReports
      /\ sent' \subseteq sent \cup {written'}
  BY DEF AppendReport, AppendTorn, Appending
<1>2. written' \in Reports /\ written' > written
  BY <1>1, InboxAssumption DEF TypeOK, Reports
<1>3. PICK s \in Seq(Units) :
        /\ file' = file \o s
        /\ \A i \in 1..Len(s) : s[i].report = written'
  <2>1. /\ <<Text(written'), Newline(written')>> \in Seq(Units)
        /\ \A i \in 1..2 :
             <<Text(written'), Newline(written')>>[i].report = written'
    BY <1>2 DEF Text, Newline, Units
  <2>2. /\ <<Text(written')>> \in Seq(Units)
        /\ \A i \in 1..1 : <<Text(written')>>[i].report = written'
    BY <1>2 DEF Text, Units
  <2>3. CASE AppendReport
    BY <2>1, <2>3 DEF AppendReport
  <2>4. CASE AppendTorn
    BY <2>2, <2>4 DEF AppendTorn
  <2> QED
    BY <2>3, <2>4
<1>4. /\ Len(file') = Len(file) + Len(s)
      /\ \A i \in 1..Len(file) : file'[i] = file[i]
      /\ \A i \in 1..Len(s) : file'[Len(file) + i] = s[i]
  <2>1. 0 \in 0..Len(file)
    BY DEF TypeOK
  <2> QED
    BY <1>3, <2>1, GrownFile DEF TypeOK
<1>5. ASSUME NEW i \in 1..Len(file')
      PROVE  file'[i].report <= written'
  <2>1. CASE i \in 1..Len(file)
    <3>1. file[i] \in Units /\ file[i].report <= written
      BY <2>1 DEF TypeOK, OrderInv
    <3>2. file[i].report \in Nat
      BY <3>1 DEF Units, Reports
    <3>3. file'[i] = file[i]
      BY <1>4, <2>1
    <3> QED
      BY <1>1, <3>1, <3>2, <3>3 DEF TypeOK
  <2>2. CASE i - Len(file) \in 1..Len(s)
    <3>1. file'[i] = s[i - Len(file)]
      BY <1>4, <2>2 DEF TypeOK
    <3> QED
      BY <1>2, <1>3, <2>2, <3>1 DEF Reports
  <2> QED
    BY <1>3, <1>4, <2>1, <2>2 DEF TypeOK
<1>6. ASSUME NEW from \in 0..Len(file)
      PROVE  After(from)' \subseteq After(from) \cup {written'}
  <2>1. After(from)' \subseteq After(from) \cup
                  {s[i].report : i \in {j \in 1..Len(s) : s[j].newline}}
    BY <1>3, GrownFile DEF TypeOK
  <2>2. {s[i].report : i \in {j \in 1..Len(s) : s[j].newline}} \subseteq {written'}
    BY <1>3
  <2> QED
    BY <2>1, <2>2
<1> QED
  BY <1>1, <1>2, <1>5, <1>6, InboxAssumption DEF OrderInv, TypeOK

(* Reports stay in order.                                                  *)
LEMMA OrderStep ==
  ASSUME TypeOK, ReaderInv, SkipInv, OrderInv, [Next]_vars, TypeOK'
  PROVE  OrderInv'
<1>1. CASE AppendReport \/ AppendTorn
  <2>1. UNCHANGED <<applied, ledger, misread>>
    BY <1>1 DEF AppendReport, AppendTorn, Appending, readerVars
  <2>2. /\ written' = written + 1
        /\ written' \in Reports
        /\ applied[written'] = 0
        /\ sent' \subseteq sent \cup {written'}
        /\ \A i \in 1..Len(file') : file'[i].report <= written'
    BY <1>1, AppendWrites
  <2>3. ledger[written'] = 0
    BY <2>2 DEF ReaderInv, TypeOK
  <2>4. written' \in Nat /\ \A r \in sent : r \in Nat /\ r < written'
    BY <2>2 DEF TypeOK
  <2>5. misread \/ (InOrder(applied)' /\ InOrder(ledger)')
    BY <2>1, <2>2, <2>3, <2>4 DEF OrderInv, InOrder
  <2>6. \A r \in Reports : r > written' => applied[r] = 0
    BY <2>2 DEF OrderInv, TypeOK, Reports
  <2> QED
    BY <2>1, <2>2, <2>5, <2>6 DEF OrderInv
<1>2. CASE ReadNew
  <2>1. /\ UNCHANGED <<file, ledger, sent, written>>
        /\ misread => misread'
    BY <1>2 DEF ReadNew, fileVars, workerVars
  <2>2. misread' \/ InOrder(applied)'
    <3>1. \A r \in sent : applied'[r] \in Nat
      BY <2>1, SentReports DEF TypeOK
    <3>2. misread' \/ \A r \in sent : applied'[r] # 0
      BY <1>2, <2>1, ReadAppliesAll DEF Unapplied
    <3> QED
      BY <2>1, <3>1, <3>2 DEF InOrder
  <2>3. misread' \/ InOrder(ledger)'
    BY <2>1 DEF OrderInv, InOrder
  <2>4. ASSUME NEW r \in Reports, r > written
        PROVE  applied'[r] = 0
    <3>1. Start \in 0..Len(file)
      BY StartInFile
    <3>2. r \notin ReportsFrom(Start)
      <4> SUFFICES ASSUME NEW i \in (Start + 1)..Len(file),
                          file[i].report = r
                   PROVE  FALSE
        BY DEF ReportsFrom, Legible, LineEnds
      <4>1. i \in 1..Len(file) /\ file[i].report <= written
        <5>1. Len(file) \in Nat
          BY DEF TypeOK
        <5>2. i \in 1..Len(file)
          BY <3>1, <5>1
        <5> QED
          BY <5>2 DEF OrderInv
      <4> QED
        BY <2>4, <4>1 DEF TypeOK, Reports
    <3>3. applied'[r] = applied[r]
      BY <1>2, <3>2 DEF ReadNew
    <3> QED
      BY <2>4, <3>3 DEF OrderInv
  <2> QED
    BY <2>1, <2>2, <2>3, <2>4 DEF OrderInv
<1>3. CASE RotateFile
  <2>1. /\ file' = SubSeq(file, pending + 1, Len(file))
        /\ pending \in 0..Len(file)
        /\ UNCHANGED <<applied, ledger, sent, written, misread>>
    BY <1>3 DEF RotateFile, Committing, UnreadTail, workerVars, TypeOK, NoOffset
  <2>2. \A i \in 1..Len(file') : file'[i].report <= written'
    <3>1. /\ Len(file') = Len(file) - pending
          /\ \A i \in 1..Len(file') : /\ file'[i] = file[pending + i]
                                      /\ pending + i \in 1..Len(file)
      BY <2>1 DEF TypeOK
    <3> QED
      BY <2>1, <3>1 DEF OrderInv
  <2> QED
    BY <2>1, <2>2 DEF OrderInv, InOrder
<1>4. CASE SaveLedger
  <2>1. ledger' = applied /\ UNCHANGED <<file, applied, sent, written, misread>>
    BY <1>4 DEF SaveLedger, fileVars, workerVars
  <2> QED
    BY <2>1 DEF OrderInv, InOrder
<1>5. CASE Crash
  <2>1. applied' = ledger /\ UNCHANGED <<file, ledger, sent, written, misread>>
    BY <1>5 DEF Crash, fileVars, workerVars
  <2>2. \A r \in Reports : r > written => ledger[r] = 0
    BY DEF OrderInv, ReaderInv, TypeOK
  <2> QED
    BY <2>1, <2>2 DEF OrderInv, InOrder
<1>6. CASE \/ ReadFails \/ CommitNothing \/ CommitOffset \/ RotateOffset
           \/ Restart \/ UNCHANGED vars
  <2>1. UNCHANGED <<file, applied, ledger, sent, written, misread>>
    BY <1>6 DEF ReadFails, CommitNothing, CommitOffset, Committing,
                RotateOffset, Restart, vars, fileVars, readerVars, workerVars
  <2> QED
    BY <2>1 DEF OrderInv, InOrder
<1> QED
  BY <1>1, <1>2, <1>3, <1>4, <1>5, <1>6 DEF Next, DaemonStep

(* No report reaches the saved ledger before one its worker, or another,   *)
(* wrote earlier (InboxReader::read_new).                                  *)
THEOREM ReportsInOrder == Spec => []OldestFirst
<1>1. Init => SkipInv
  BY DEF Init, SkipInv, NothingSkipped, Unsaved, NoOffset
<1>2. Init => OrderInv
  BY DEF Init, OrderInv, InOrder
<1>3. TypeOK /\ ReaderInv /\ SkipInv /\ OrderInv /\ [Next]_vars
      /\ TypeOK' /\ ReaderInv' => SkipInv' /\ OrderInv'
  BY SkipStep, OrderStep
<1>4. OrderInv => OldestFirst
  BY DEF OrderInv, InOrder, OldestFirst
<1> QED
  BY <1>1, <1>2, <1>3, <1>4, ReaderCorrect, PTL DEF Spec

-----------------------------------------------------------------------------
(* Repeats                                                                 *)

(* What the next read finds, in this run of the daemon or the next, has    *)
(* been applied once per crash at most; reading it adds one.               *)
RepeatInv ==
    /\ \A r \in Reports : applied[r] <= crashes + 1
    /\ pending # NoOffset =>
         \A r \in After(Unread) \cap Reports : applied[r] <= crashes
    /\ pending = NoOffset =>
         \A r \in After(ResumeAt) \cap Reports : ledger[r] <= crashes

(* Reading adds one where there was room for one.                          *)
LEMMA RepeatStep ==
  ASSUME TypeOK, ReaderInv, OrderInv, RepeatInv, [Next]_vars,
         TypeOK', ReaderInv'
  PROVE  RepeatInv'
<1>0. \A r \in Reports : /\ applied[r] \in Nat
                         /\ ledger[r] \in Nat
                         /\ ledger[r] <= applied[r]
  BY DEF TypeOK, ReaderInv
<1>1. CASE AppendReport \/ AppendTorn
  <2>1. UNCHANGED <<savedOffset, pending, pc, applied, ledger, crashes>>
    BY <1>1 DEF AppendReport, AppendTorn, Appending, readerVars
  <2>2. pc # "rotate"
    BY <1>1 DEF AppendReport, AppendTorn, Appending, Unlocked
  <2>3. /\ written' \in Reports
        /\ applied[written'] = 0
        /\ \A from \in 0..Len(file) :
             After(from)' \subseteq After(from) \cup {written'}
    BY <1>1, AppendWrites
  <2>4. Len(file') >= Len(file)
    <3>1. 0 \in 0..Len(file)
      BY DEF TypeOK
    <3> QED
      BY <1>1, <3>1, AppendSkips
  <2>5. ASSUME pending # NoOffset, NEW r \in After(Unread)' \cap Reports
        PROVE  applied[r] <= crashes
    <3>1. PICK p \in 0..Len(file) : p = pending
      BY <2>2, <2>5 DEF TypeOK
    <3>2. Unread' = p /\ Unread = p
      BY <2>1, <2>2, <3>1 DEF Unread
    <3>3. After(Unread)' = After(p)'
      BY <3>2 DEF After, LineEnds
    <3>4. r \in After(p) \/ r = written'
      BY <2>3, <2>5, <3>3
    <3> QED
      BY <2>3, <2>5, <3>2, <3>4 DEF RepeatInv, TypeOK
  <2>6. ASSUME pending = NoOffset, NEW r \in After(ResumeAt)' \cap Reports
        PROVE  ledger[r] <= crashes
    <3>1. PICK p \in 0..Len(file) : p = ResumeAt
      BY ResumeInFile
    <3>2. PICK q \in Nat : q = ResumeAt'
      BY <2>1 DEF ResumeAt, TypeOK
    <3>3. p <= q
      BY <2>1, <2>4, <3>1, <3>2 DEF ResumeAt, TypeOK
    <3>4. After(ResumeAt)' = After(q)'
      BY <3>2 DEF After, LineEnds
    <3>5. After(q)' \subseteq After(p)'
      BY <3>3 DEF After, LineEnds
    <3>6. r \in After(p) \/ r = written'
      BY <2>3, <2>6, <3>4, <3>5
    <3>7. r = written' => ledger[r] = 0
      BY <1>0, <2>3
    <3> QED
      BY <2>3, <2>6, <3>1, <3>6, <3>7 DEF RepeatInv, TypeOK
  <2> QED
    BY <2>1, <2>5, <2>6 DEF RepeatInv
<1>2. CASE ReadNew
  <2>1. /\ UNCHANGED <<file, savedOffset, ledger, crashes>>
        /\ pc' = "save"
        /\ pc = "gather"
        /\ pending' \in ReadTo(Start)
        /\ applied = ledger
        /\ pending = NoOffset
        /\ offset = savedOffset
    BY <1>2 DEF ReadNew, fileVars, ReaderInv
  <2>2. Start = ResumeAt /\ Start \in Nat
    BY <2>1 DEF Start, ResumeAt, TypeOK
  <2>3. ASSUME NEW r \in Reports
        PROVE  applied'[r] <= crashes + 1
    <3>1. applied'[r] = IF r \in ReportsFrom(Start) THEN applied[r] + 1
                                                    ELSE applied[r]
      BY <1>2 DEF ReadNew
    <3>2. r \in ReportsFrom(Start) => applied[r] <= crashes
      BY <2>1, <2>2, LegibleAfter DEF RepeatInv
    <3>3. applied[r] \in Nat /\ crashes \in Nat
      BY DEF TypeOK
    <3>4. applied[r] <= crashes + 1
      BY DEF RepeatInv
    <3> QED
      BY <3>1, <3>2, <3>3, <3>4
  <2>4. After(Unread)' = {}
    BY <2>1 DEF Unread, After, ReadTo, LineEnds
  <2>5. pending' # NoOffset
    BY <2>1, <2>2 DEF ReadTo, LineEnds, NoOffset, TypeOK
  <2> QED
    BY <2>1, <2>3, <2>4, <2>5 DEF RepeatInv
<1>3. CASE ReadFails \/ CommitNothing \/ Restart
  <2>1. /\ UNCHANGED <<fileVars, pending, applied, ledger, crashes>>
        /\ pending = NoOffset
    BY <1>3 DEF ReadFails, CommitNothing, Restart, ReaderInv
  <2> QED
    BY <2>1 DEF RepeatInv, ResumeAt, After, LineEnds, fileVars
<1>4. CASE SaveLedger
  <2>1. /\ UNCHANGED <<fileVars, pending, applied, crashes>>
        /\ ledger' = applied
        /\ pc = "save"
        /\ pc' = "commit"
    BY <1>4 DEF SaveLedger
  <2>2. pending = NoOffset => ledger' = ledger
    BY <2>1 DEF ReaderInv
  <2> QED
    BY <2>1, <2>2 DEF RepeatInv, ResumeAt, Unread, After, LineEnds, fileVars
<1>5. CASE CommitOffset
  <2>1. /\ pc = "commit"
        /\ pending # NoOffset
        /\ savedOffset' = pending
        /\ pending' = NoOffset
        /\ UNCHANGED <<file, applied, ledger, crashes>>
    BY <1>5 DEF CommitOffset, Committing
  <2>2. pending \in 0..Len(file) /\ ledger = applied
    BY <2>1 DEF ReaderInv, TypeOK, NoOffset
  <2>3. ResumeAt' = pending
    BY <2>1, <2>2 DEF ResumeAt, TypeOK
  <2>4. After(ResumeAt)' = After(Unread)
    BY <2>1, <2>3 DEF After, LineEnds, Unread
  <2> QED
    BY <2>1, <2>2, <2>4 DEF RepeatInv
<1>6. CASE RotateFile
  <2>1. /\ pc = "commit"
        /\ pc' = "rotate"
        /\ pending # NoOffset
        /\ file' = SubSeq(file, pending + 1, Len(file))
        /\ UNCHANGED <<pending, applied, ledger, crashes>>
    BY <1>6 DEF RotateFile, Committing, UnreadTail
  <2>2. PICK p \in 0..Len(file) : p = pending
    BY <2>1 DEF TypeOK, NoOffset
  <2>3. After(0)' \subseteq After(p)
    BY <2>1, <2>2, TailOfFile DEF TypeOK
  <2>4. After(Unread)' = After(0)'
    BY <2>1 DEF Unread, After, LineEnds
  <2>5. Unread = p
    BY <2>1, <2>2 DEF Unread
  <2> QED
    BY <2>1, <2>3, <2>4, <2>5 DEF RepeatInv
<1>7. CASE RotateOffset
  <2>1. /\ pc = "rotate"
        /\ savedOffset' = 0
        /\ pending # NoOffset
        /\ pending' = NoOffset
        /\ UNCHANGED <<file, applied, ledger, crashes>>
        /\ ledger = applied
    BY <1>7 DEF RotateOffset, ReaderInv
  <2>2. After(ResumeAt)' = After(Unread)
    BY <2>1 DEF ResumeAt, Unread, After, LineEnds, TypeOK
  <2> QED
    BY <2>1, <2>2 DEF RepeatInv
<1>8. CASE Crash
  <2>1. /\ pending' = NoOffset
        /\ applied' = ledger
        /\ crashes' = crashes + 1
        /\ UNCHANGED ledger
    BY <1>8 DEF Crash
  <2>2. crashes \in Nat
    BY DEF TypeOK
  <2>3. ASSUME NEW r \in Reports
        PROVE  ledger[r] <= crashes + 1
    <3>1. applied[r] <= crashes + 1
      BY DEF RepeatInv
    <3>2. /\ applied[r] \in Nat
          /\ ledger[r] \in Nat
          /\ ledger[r] <= applied[r]
      BY <1>0
    <3> QED
      BY <2>2, <3>1, <3>2
  <2>4. \A r \in Reports : ledger[r] <= crashes' + 1
    BY <1>0, <2>1, <2>2, <2>3
  <2>5. \A r \in After(ResumeAt)' \cap Reports : ledger[r] <= crashes'
    BY <2>1, <2>2, <2>3
  <2> QED
    BY <2>1, <2>3, <2>4, <2>5 DEF RepeatInv
<1>9. CASE UNCHANGED vars
  BY <1>9 DEF vars, fileVars, readerVars, RepeatInv, Unread, ResumeAt, After,
              LineEnds
<1> QED
  BY <1>1, <1>2, <1>3, <1>4, <1>5, <1>6, <1>7, <1>8, <1>9 DEF Next, DaemonStep

(* A report is in the saved ledger at most once, and once more for every   *)
(* crash: applying one is not undone, and only a crash repeats it          *)
(* (InboxReader::commit).                                                  *)
THEOREM RepeatsAreCrashes == Spec => []RepeatsBounded
<1>1. Init => SkipInv /\ OrderInv /\ RepeatInv
  BY DEF Init, SkipInv, NothingSkipped, Unsaved, NoOffset, OrderInv, InOrder,
         RepeatInv, ResumeAt, After, LineEnds
<1>2. TypeOK /\ ReaderInv /\ SkipInv /\ OrderInv /\ RepeatInv /\ [Next]_vars
      /\ TypeOK' /\ ReaderInv' => SkipInv' /\ OrderInv' /\ RepeatInv'
  BY SkipStep, OrderStep, RepeatStep
<1>3. TypeOK /\ ReaderInv /\ RepeatInv => RepeatsBounded
  BY DEF TypeOK, ReaderInv, RepeatInv, RepeatsBounded
<1> QED
  BY <1>1, <1>2, <1>3, ReaderCorrect, PTL DEF Spec

(* The three together: what the workers report comes through.              *)
THEOREM InboxComesThrough == Spec => []InboxSafe
<1>1. NothingSkipped /\ OldestFirst /\ RepeatsBounded => InboxSafe
  BY DEF InboxSafe
<1> QED
  BY <1>1, NoReportSkipped, ReportsInOrder, RepeatsAreCrashes, PTL

=============================================================================
