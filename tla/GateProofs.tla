------------------------------ MODULE GateProofs ------------------------------
(***************************************************************************)
(* Proofs about Gate: what lets the pass act on a pull request.  The runs  *)
(* it goes by are the newest of their checks, and the protection it goes   *)
(* by was in force on the branch within the time an answer is kept.  And   *)
(* about Service: one daemon acts at a time, what rings is heard, what is  *)
(* stopped for good stays down, and what a command reports is so.          *)
(***************************************************************************)
EXTENDS Gate, Service, SequenceTheorems, WellFoundedInduction, TLAPS

-----------------------------------------------------------------------------
(* The greatest of a bounded set of numbers                                *)

(* Every set of numbers that is bounded and not empty has a greatest.      *)
LEMMA GreatestOf ==
    ASSUME NEW S, S \subseteq Nat, S # {},
           NEW m \in Nat, \A x \in S : x <= m
    PROVE  \E x \in S : \A y \in S : y <= x
<1> DEFINE R == OpToRel(<, Nat)
           gaps == {d \in Nat : \E x \in S : d = m - x}
<1>1. gaps \subseteq Nat /\ gaps # {}
  <2>1. PICK x : x \in S
    OBVIOUS
  <2>2. m - x \in Nat /\ m - x \in gaps
    BY <2>1
  <2> QED
    BY <2>2
<1>2. PICK d \in gaps : \A y \in gaps : ~(<<y, d>> \in R)
  <2> HIDE DEF gaps, R
  <2> QED
    BY <1>1, NatLessThanWellFounded, WFMin DEF R
<1>3. \A y \in gaps : d <= y
  <2> TAKE y \in gaps
  <2>1. y \in Nat /\ d \in Nat
    OBVIOUS
  <2>2. ASSUME y < d
        PROVE  <<y, d>> \in R
    <3> DEFINE pair == <<y, d>>
    <3>1. pair \in Nat \X Nat /\ pair[1] = y /\ pair[2] = d
      BY <2>1
    <3> HIDE DEF pair
    <3>2. pair \in R
      BY <2>2, <3>1 DEF OpToRel
    <3> QED
      BY <3>2 DEF pair
  <2> HIDE DEF R, gaps
  <2> QED
    BY <1>2, <2>1, <2>2
<1>4. PICK x \in S : d = m - x
  OBVIOUS
<1>5. \A y \in S : y <= x
  <2> TAKE y \in S
  <2>1. m - y \in gaps /\ x \in Nat /\ y \in Nat
    OBVIOUS
  <2>2. d <= m - y
    BY <2>1, <1>3
  <2> QED
    BY <2>1, <2>2, <1>4
<1> QED
  BY <1>5

-----------------------------------------------------------------------------
(* The pull request, and the look's copy of it                             *)

Pulls ==
    [state: States, head: Nat, branch: Branches \cup {NoBranch},
     merge: MergeStates, rollup: Seq(RunType)]

(* No run of the rollup starts later than some moment.                     *)
StartsBounded(rollup) ==
    \E m \in Nat : \A i \in DOMAIN rollup : rollup[i].started <= m

PullsInv ==
    /\ pr \in Pulls
    /\ snap \in Pulls
    /\ StartsBounded(pr.rollup)
    /\ StartsBounded(snap.rollup)

LEMMA RunsTyped ==
    ASSUME NEW q \in Seq(RunType)
    PROVE  \A i \in DOMAIN q : /\ q[i] \in RunType
                               /\ q[i].started \in Nat
                               /\ q[i].result \in Results
<1> TAKE i \in DOMAIN q
<1>1. q[i] \in RunType
  OBVIOUS
<1> QED
  BY <1>1 DEF RunType

(* No run has started later than LatestStart.                              *)
LEMMA LatestStartRight ==
    ASSUME PullsInv
    PROVE  /\ LatestStart \in Nat
           /\ \A i \in DOMAIN pr.rollup : pr.rollup[i].started <= LatestStart
<1> DEFINE q == pr.rollup
           starts == {q[i].started : i \in DOMAIN q}
<1>1. q \in Seq(RunType)
  BY DEF PullsInv, Pulls
<1>3. \A i \in DOMAIN q : q[i].started \in Nat
  <2> HIDE DEF q
  <2> QED
    BY <1>1, RunsTyped
<1>2. PICK m \in Nat : \A i \in DOMAIN q : q[i].started <= m
  BY DEF PullsInv, StartsBounded
<1>4. CASE q = <<>>
  <2>1. LatestStart = 0
    BY <1>4 DEF LatestStart
  <2>2. DOMAIN q = {}
    BY <1>4
  <2> QED
    BY <2>1, <2>2
<1>5. CASE q # <<>>
  <2>1. \E i : i \in DOMAIN q
    <3> HIDE DEF q
    <3>1. Len(q) \in Nat \ {0} /\ DOMAIN q = 1..Len(q)
      BY <1>1, <1>5, EmptySeq
    <3>2. 1 \in DOMAIN q
      BY <3>1
    <3> QED
      BY <3>2
  <2>2. starts \subseteq Nat /\ starts # {} /\ \A x \in starts : x <= m
    <3> HIDE DEF q
    <3> QED
      BY <2>1, <1>2, <1>3
  <2>3. \E x \in starts : \A y \in starts : y <= x
    <3> HIDE DEF starts
    <3> QED
      BY <2>2, GreatestOf
  <2>4. \E x \in starts : \A i \in DOMAIN q : q[i].started <= x
    BY <2>3
  <2>5. LatestStart = CHOOSE s \in starts : \A i \in DOMAIN q : q[i].started <= s
    BY <1>5 DEF LatestStart
  <2>6. LatestStart \in starts /\ \A i \in DOMAIN q : q[i].started <= LatestStart
    <3> HIDE DEF starts
    <3> QED
      BY <2>4, <2>5
  <2> QED
    BY <2>2, <2>6
<1> QED
  BY <1>4, <1>5

(* A rollup with nothing in it is bounded, and so is one run longer.       *)
LEMMA EmptyBounded == StartsBounded(<<>>) /\ <<>> \in Seq(RunType)
<1> DEFINE q == <<>>
<1>1. q \in Seq(RunType) /\ DOMAIN q = {}
  OBVIOUS
<1> HIDE DEF q
<1>2. StartsBounded(q)
  BY <1>1 DEF StartsBounded
<1> QED
  BY <1>1, <1>2 DEF q

LEMMA PullsStart == Init => PullsInv
<1> SUFFICES ASSUME Init PROVE PullsInv
  OBVIOUS
<1>1. NoSnap \in Pulls /\ NoSnap.rollup = <<>>
  BY EmptyBounded DEF NoSnap, Pulls, States, MergeStates, NoHead, NoBranch
<1>2. \A r \in FirstRollups : r \in Seq(RunType) /\ StartsBounded(r)
  <2> TAKE r \in FirstRollups
  <2>1. CASE r = <<>>
    BY <2>1, EmptyBounded
  <2>2. ASSUME NEW n \in Names,
               r = <<[check |-> n, started |-> 1, result |-> "passed"]>>
        PROVE  r \in Seq(RunType) /\ StartsBounded(r)
    <3>1. r \in Seq(RunType) /\ DOMAIN r = {1} /\ r[1].started = 1
      BY <2>2 DEF RunType, Results
    <3>2. \A i \in DOMAIN r : r[i].started <= 1
      BY <3>1
    <3> QED
      BY <3>1, <3>2 DEF StartsBounded
  <2> QED
    BY <2>1, <2>2 DEF FirstRollups
<1>3. pr \in Pulls /\ pr.rollup \in FirstRollups
  BY <1>2 DEF Init, Opens, Pulls, States, MergeStates
<1>4. snap = NoSnap
  BY DEF Init, Opens
<1> QED
  BY <1>1, <1>2, <1>3, <1>4, EmptyBounded DEF PullsInv

-----------------------------------------------------------------------------
(* What a step leaves alone                                                *)

Probing == pc \in {"rulesets", "classic"}

(* What protection there is, and what is remembered of it.                 *)
protectionVars == <<rules, refused, mode, cache, seen>>

(* A look is over, or goes on without asking about protection.             *)
AsksNothing ==
    /\ UNCHANGED protectionVars
    /\ pc' \notin {"rulesets", "classic"}
    /\ probe' = NoProbe \/ (probe' = probe /\ ~Probing)
    /\ snap' \in {snap, NoSnap, pr}

LEMMA Halted ==
    ASSUME NEW e, NEW reason, NEW head, HaltOn(e, reason, head)
    PROVE  pc' = "sweep" /\ snap' = NoSnap /\ probe' = NoProbe
BY DEF HaltOn, Concludes

(* What the pass does where no protection is asked for.                    *)
LEMMA ElsewhereAsksNothing ==
    ASSUME \/ Reconcile \/ ReadOpen \/ ReadConcluded \/ ReadFails
           \/ PrerequisiteBlocks \/ PrerequisiteProbeFails
           \/ StateHolds \/ UpdateCapped \/ UpdatesBranch \/ UpdateFails
           \/ Merges \/ MergeFails \/ ActsTooLate \/ SweepStuck
    PROVE  AsksNothing /\ ~Passes /\ ~Probing
<1> USE DEF AsksNothing, Passes, Probing, protectionVars, PassKeeps, Looks, Fails
<1>1. CASE Reconcile
  BY <1>1 DEF Reconcile
<1>2. CASE ReadOpen
  BY <1>2 DEF ReadOpen
<1>3. CASE ReadConcluded
  BY <1>3, Halted DEF ReadConcluded
<1>4. CASE ReadFails
  BY <1>4, Halted DEF ReadFails
<1>5. CASE PrerequisiteBlocks
  BY <1>5, Halted DEF PrerequisiteBlocks, Halts
<1>6. CASE PrerequisiteProbeFails
  BY <1>6, Halted DEF PrerequisiteProbeFails, Halts
<1>7. CASE StateHolds
  BY <1>7, Halted DEF StateHolds, Halts
<1>8. CASE UpdateCapped
  BY <1>8, Halted DEF UpdateCapped, ClearTo
<1>9. CASE UpdatesBranch
  BY <1>9, Halted DEF UpdatesBranch, ClearTo
<1>10. CASE UpdateFails
  BY <1>10, Halted DEF UpdateFails, ClearTo
<1>11. CASE Merges
  BY <1>11 DEF Merges, ClearTo, Concludes
<1>12. CASE MergeFails
  BY <1>12, Halted DEF MergeFails, ClearTo, Halts
<1>13. CASE ActsTooLate
  BY <1>13, Halted DEF ActsTooLate, ClearTo, Halts
<1>14. CASE SweepStuck
  BY <1>14 DEF SweepStuck
<1> QED
  BY <1>1, <1>2, <1>3, <1>4, <1>5, <1>6, <1>7, <1>8, <1>9, <1>10, <1>11,
     <1>12, <1>13, <1>14

(* What happens outside leaves the look where it is.                       *)
LEMMA OutsideLeavesLooks ==
    ASSUME Moves \/ OperatorUpdates
    PROVE  UNCHANGED lookVars /\ UNCHANGED <<refused, cache>>
<1> USE DEF Outside, PullRequestMoves, outsideVars
<1>1. CASE OperatorUpdates
  BY <1>1 DEF OperatorUpdates
<1>2. CASE Moves
  BY <1>2 DEF Moves, Pushes, RunListed, RunFinishes, Retargeted, MergeStateChanges,
              PersonConcludes, ProtectionEdited, ModeEdited, PrerequisiteMoves
<1> QED
  BY <1>1, <1>2

-----------------------------------------------------------------------------
(* The pull request stays one                                              *)

LEMMA MovedTyped ==
    ASSUME PullsInv, NEW after, PullRequestMoves(after),
           after \in Pulls, StartsBounded(after.rollup)
    PROVE  PullsInv'
BY DEF PullRequestMoves, Outside, lookVars, PullsInv

(* A rollup that gains a run, or in which one starts, is still bounded.    *)
LEMMA ListedBounded ==
    ASSUME NEW q \in Seq(RunType), StartsBounded(q),
           NEW r \in RunType
    PROVE  Append(q, r) \in Seq(RunType) /\ StartsBounded(Append(q, r))
<1> DEFINE longer == Append(q, r)
<1>1. PICK m \in Nat : \A i \in DOMAIN q : q[i].started <= m
  BY DEF StartsBounded
<1>2. r.started \in Nat /\ \A i \in DOMAIN q : q[i].started \in Nat
  BY RunsTyped DEF RunType
<1>3. /\ longer \in Seq(RunType)
      /\ \A i \in DOMAIN longer : (i \in DOMAIN q /\ longer[i] = q[i]) \/ longer[i] = r
  OBVIOUS
<1>4. m + r.started \in Nat
      /\ \A i \in DOMAIN longer : longer[i].started <= m + r.started
  <2> HIDE DEF longer
  <2> QED
    BY <1>1, <1>2, <1>3
<1> QED
  BY <1>3, <1>4 DEF StartsBounded

LEMMA ReplacedBounded ==
    ASSUME NEW q \in Seq(RunType), StartsBounded(q),
           NEW k \in DOMAIN q, NEW r \in RunType
    PROVE  [q EXCEPT ![k] = r] \in Seq(RunType) /\ StartsBounded([q EXCEPT ![k] = r])
<1> DEFINE other == [q EXCEPT ![k] = r]
<1>1. PICK m \in Nat : \A i \in DOMAIN q : q[i].started <= m
  BY DEF StartsBounded
<1>2. r.started \in Nat /\ \A i \in DOMAIN q : q[i].started \in Nat
  BY RunsTyped DEF RunType
<1>3. /\ other \in Seq(RunType)
      /\ DOMAIN other = DOMAIN q
      /\ \A i \in DOMAIN q : other[i] = q[i] \/ other[i] = r
  OBVIOUS
<1>4. m + r.started \in Nat
      /\ \A i \in DOMAIN other : other[i].started <= m + r.started
  <2> HIDE DEF other
  <2> QED
    BY <1>1, <1>2, <1>3
<1> QED
  BY <1>3, <1>4 DEF StartsBounded

LEMMA OutsideKeepsPulls ==
    ASSUME PullsInv, Moves
    PROVE  PullsInv'
<1> DEFINE q == pr.rollup
<1>0. /\ pr \in Pulls /\ pr.head + 1 \in Nat
      /\ q \in Seq(RunType) /\ StartsBounded(q)
  BY DEF PullsInv, Pulls
<1>1. CASE Pushes
  <2>1. ASSUME NEW m \in MergeStates
        PROVE  LET after == [pr EXCEPT !.head = @ + 1, !.merge = m, !.rollup = <<>>]
               IN  after \in Pulls /\ StartsBounded(after.rollup)
    BY <1>0, EmptyBounded DEF Pulls
  <2> QED
    BY <1>1, <2>1, MovedTyped DEF Pushes
<1>2. CASE RunListed
  <2>1. ASSUME NEW n \in Names \cup {Unnamed}, NEW r \in Results,
               NEW s \in {0, LatestStart, LatestStart + 1}
        PROVE  LET after == [pr EXCEPT !.rollup =
                                Append(@, [check |-> n, started |-> s, result |-> r])]
               IN  after \in Pulls /\ StartsBounded(after.rollup)
    <3> DEFINE run == [check |-> n, started |-> s, result |-> r]
    <3>1. run \in RunType
      BY LatestStartRight DEF RunType
    <3>2. Append(q, run) \in Seq(RunType) /\ StartsBounded(Append(q, run))
      <4> HIDE DEF q, run
      <4> QED
        BY <1>0, <3>1, ListedBounded
    <3> QED
      BY <1>0, <3>2 DEF Pulls
  <2> QED
    BY <1>2, <2>1, MovedTyped DEF RunListed
<1>3. CASE RunFinishes
  <2>1. ASSUME NEW i \in DOMAIN pr.rollup, NEW r \in Results
        PROVE  LET after == [pr EXCEPT !.rollup[i].result = r,
                                 !.rollup[i].started = IF @ = 0 THEN LatestStart + 1 ELSE @]
               IN  after \in Pulls /\ StartsBounded(after.rollup)
    <3> DEFINE started == IF q[i].started = 0 THEN LatestStart + 1 ELSE q[i].started
               run == [q[i] EXCEPT !.result = r, !.started = started]
               after == [pr EXCEPT !.rollup[i].result = r,
                             !.rollup[i].started = IF @ = 0 THEN LatestStart + 1 ELSE @]
    <3>1. run \in RunType
      <4>1. q[i] \in RunType /\ started \in Nat
        <5>1. i \in DOMAIN q
          OBVIOUS
        <5> HIDE DEF q
        <5> QED
          BY <5>1, <1>0, LatestStartRight, RunsTyped
      <4> HIDE DEF started, q
      <4> QED
        BY <4>1 DEF RunType
    <3>2. [q EXCEPT ![i] = run] \in Seq(RunType) /\ StartsBounded([q EXCEPT ![i] = run])
      <4> HIDE DEF run
      <4> QED
        BY <1>0, <3>1, ReplacedBounded
    <3>3. after = [pr EXCEPT !.rollup = [q EXCEPT ![i] = run]]
      BY <1>0 DEF Pulls, RunType
    <3>4. after \in Pulls /\ StartsBounded(after.rollup)
      <4> HIDE DEF run, after
      <4> QED
        BY <1>0, <3>2, <3>3 DEF Pulls
    <3> QED
      BY <3>4
  <2> QED
    BY <1>3, <2>1, MovedTyped DEF RunFinishes
<1>4. CASE Retargeted
  <2>1. ASSUME NEW b \in Branches \cup {NoBranch}
        PROVE  LET after == [pr EXCEPT !.branch = b]
               IN  after \in Pulls /\ StartsBounded(after.rollup)
    BY <1>0 DEF Pulls
  <2> QED
    BY <1>4, <2>1, MovedTyped DEF Retargeted
<1>5. CASE MergeStateChanges
  <2>1. ASSUME NEW m \in MergeStates
        PROVE  LET after == [pr EXCEPT !.merge = m]
               IN  after \in Pulls /\ StartsBounded(after.rollup)
    BY <1>0 DEF Pulls
  <2> QED
    BY <1>5, <2>1, MovedTyped DEF MergeStateChanges
<1>6. CASE PersonConcludes
  <2>1. ASSUME NEW s \in {"merged", "closed"}
        PROVE  LET after == [pr EXCEPT !.state = s]
               IN  after \in Pulls /\ StartsBounded(after.rollup)
    BY <1>0 DEF Pulls, States
  <2> QED
    BY <1>6, <2>1, MovedTyped DEF PersonConcludes
<1>7. CASE ProtectionEdited \/ ModeEdited \/ PrerequisiteMoves
  BY <1>7 DEF ProtectionEdited, ModeEdited, PrerequisiteMoves, Outside, lookVars,
              PullsInv
<1> QED
  BY <1>1, <1>2, <1>3, <1>4, <1>5, <1>6, <1>7 DEF Moves

(* A branch updated has a new head on which nothing has run.               *)
LEMMA UpdatedTyped ==
    ASSUME PullsInv
    PROVE  LET after == [pr EXCEPT !.head = @ + 1, !.merge = "ready", !.rollup = <<>>]
           IN  after \in Pulls /\ StartsBounded(after.rollup)
<1>1. pr \in Pulls /\ pr.head + 1 \in Nat
  BY DEF PullsInv, Pulls
<1> QED
  BY <1>1, EmptyBounded DEF Pulls, MergeStates

(* Asking about protection touches no pull request.                        *)
LEMMA ProbesKeepPulls ==
    ASSUME \/ PrerequisiteClears \/ ProbesRulesets \/ RulesetsUnavailable
           \/ ProbesClassic \/ ClassicUnavailable
    PROVE  UNCHANGED <<pr, rules, refused, mode, seen>> /\ snap' \in {snap, NoSnap}
<1> USE Halted DEF Halts, PassKeeps, Fails
<1>1. ASSUME NEW p, Verdict(p)
      PROVE  snap' \in {snap, NoSnap}
  BY <1>1 DEF Verdict
<1>2. ASSUME NEW p, AsksRulesets(p)
      PROVE  snap' \in {snap, NoSnap}
  BY <1>1, <1>2 DEF AsksRulesets
<1>3. CASE PrerequisiteClears
  BY <1>3 DEF PrerequisiteClears
<1>4. CASE ProbesRulesets \/ RulesetsUnavailable
  BY <1>2, <1>4 DEF ProbesRulesets, RulesetsUnavailable
<1>5. CASE ProbesClassic \/ ClassicUnavailable
  BY <1>1, <1>5 DEF ProbesClassic, ClassicUnavailable
<1> QED
  BY <1>3, <1>4, <1>5

LEMMA PullsStep == PullsInv /\ [Next]_vars => PullsInv'
<1> SUFFICES ASSUME PullsInv, [Next]_vars
             PROVE  PullsInv'
  OBVIOUS
<1>0. NoSnap \in Pulls /\ StartsBounded(NoSnap.rollup)
  BY EmptyBounded DEF NoSnap, Pulls, States, MergeStates, NoHead, NoBranch
<1>1. CASE Moves
  BY <1>1, OutsideKeepsPulls
<1>2. CASE OperatorUpdates
  <2>1. snap' = snap
    BY <1>2 DEF OperatorUpdates, lookVars
  <2>2. pr' \in Pulls /\ StartsBounded(pr'.rollup)
    BY <1>2, UpdatedTyped DEF OperatorUpdates
  <2> QED
    BY <2>1, <2>2 DEF PullsInv
<1>3. CASE \/ PrerequisiteClears \/ ProbesRulesets \/ RulesetsUnavailable
           \/ ProbesClassic \/ ClassicUnavailable
  BY <1>0, <1>3, ProbesKeepPulls DEF PullsInv
<1>4. CASE \/ Reconcile \/ ReadOpen \/ ReadConcluded \/ ReadFails
           \/ PrerequisiteBlocks \/ PrerequisiteProbeFails
           \/ StateHolds \/ UpdateCapped \/ UpdatesBranch \/ UpdateFails
           \/ Merges \/ MergeFails \/ ActsTooLate \/ SweepStuck
  <2>1. snap' \in {snap, NoSnap, pr}
    BY <1>4, ElsewhereAsksNothing DEF AsksNothing
  <2>2. pr' \in Pulls /\ StartsBounded(pr'.rollup)
    <3>1. CASE UpdatesBranch
      BY <3>1, UpdatedTyped DEF UpdatesBranch
    <3>2. CASE Merges
      BY <3>2 DEF Merges, PullsInv, Pulls, States
    <3>3. CASE ~UpdatesBranch /\ ~Merges
      <4>1. pr' = pr
        BY <1>4, <3>3
           DEF Reconcile, ReadOpen, ReadConcluded, ReadFails, PrerequisiteBlocks,
               PrerequisiteProbeFails, StateHolds, UpdateCapped, UpdateFails,
               MergeFails, ActsTooLate, SweepStuck, Looks
      <4> QED
        BY <4>1 DEF PullsInv
    <3> QED
      BY <3>1, <3>2, <3>3
  <2> QED
    BY <1>0, <2>1, <2>2 DEF PullsInv
<1>5. CASE Tick \/ UNCHANGED vars
  BY <1>5 DEF Tick, vars, outsideVars, lookVars, PullsInv
<1> QED
  BY <1>1, <1>2, <1>3, <1>4, <1>5 DEF Next, PassStep

LEMMA PullsAlways == Spec => []PullsInv
BY PullsStart, PullsStep, PTL DEF Spec

-----------------------------------------------------------------------------
(* The newest runs                                                         *)

(* How late a run counts among those of its check.                         *)
Lateness(run) == 3 * run.started + Rank(run.result)

LEMMA LatenessOrders ==
    ASSUME NEW r \in RunType, NEW s \in RunType
    PROVE  /\ Lateness(r) \in Nat
           /\ Outranks(r, s) => Lateness(s) < Lateness(r)
           /\ r.started < s.started => Outranks(s, r)
           /\ r.started = s.started /\ s.result = "running" /\ r.result # "running"
                => Outranks(s, r)
<1>1. r.started \in Nat /\ s.started \in Nat
  BY DEF RunType
<1>2. r.result \in Results /\ s.result \in Results
  BY DEF RunType
<1>3. Rank(r.result) \in 0..2 /\ Rank(s.result) \in 0..2
  BY <1>2 DEF Results, Rank
<1>4. s.result = "running" /\ r.result # "running" => Rank(s.result) > Rank(r.result)
  BY <1>2 DEF Results, Rank
<1> QED
  BY <1>1, <1>3, <1>4 DEF Lateness, Outranks

(* Among the runs of one check one is the latest of all.                   *)
LEMMA LatestOfCheck ==
    ASSUME NEW q \in Seq(RunType), StartsBounded(q), NEW i \in DOMAIN q
    PROVE  \E j \in DOMAIN q : /\ SameCheck(q, i, j)
                               /\ \A k \in DOMAIN q :
                                    SameCheck(q, i, k) => Lateness(q[k]) <= Lateness(q[j])
<1> DEFINE S == {x \in Nat : \E j \in DOMAIN q : SameCheck(q, i, j) /\ x = Lateness(q[j])}
<1>1. PICK m \in Nat : \A j \in DOMAIN q : q[j].started <= m
  BY DEF StartsBounded
<1>2. \A j \in DOMAIN q : /\ q[j] \in RunType /\ Lateness(q[j]) \in Nat
                          /\ Lateness(q[j]) <= 3 * m + 2
  <2> TAKE j \in DOMAIN q
  <2>1. q[j] \in RunType /\ q[j].started \in Nat /\ q[j].result \in Results
    BY RunsTyped
  <2>2. Rank(q[j].result) \in 0..2
    BY <2>1 DEF Results, Rank
  <2>3. q[j].started <= m
    BY <1>1
  <2> QED
    BY <2>1, <2>2, <2>3 DEF Lateness
<1>3. SameCheck(q, i, i)
  BY DEF SameCheck
<1>4. S \subseteq Nat /\ S # {} /\ \A x \in S : x <= 3 * m + 2
  <2>1. Lateness(q[i]) \in S
    BY <1>2, <1>3
  <2> QED
    BY <1>2, <2>1
<1>5. \E x \in S : \A y \in S : y <= x
  <2>1. 3 * m + 2 \in Nat
    BY <1>1
  <2> HIDE DEF S
  <2> QED
    BY <1>4, <2>1, GreatestOf
<1>6. PICK x \in S : \A y \in S : y <= x
  BY <1>5
<1>7. PICK j \in DOMAIN q : SameCheck(q, i, j) /\ x = Lateness(q[j])
  OBVIOUS
<1>8. \A k \in DOMAIN q : SameCheck(q, i, k) => Lateness(q[k]) <= Lateness(q[j])
  BY <1>2, <1>6, <1>7
<1> QED
  BY <1>7, <1>8

(* The runs of one check are runs of one check of each other.              *)
LEMMA SameCheckRelates ==
    ASSUME NEW q, NEW i, NEW j, NEW k, SameCheck(q, i, j)
    PROVE  SameCheck(q, j, k) => SameCheck(q, i, k)
BY DEF SameCheck

(* A rollup the pass goes ahead on: of every check some newest run has     *)
(* passed, and none of the newest is still running.                        *)
LEMMA GreenRollup ==
    ASSUME NEW q \in Seq(RunType), StartsBounded(q),
           Checks(q) \notin {"failed", "waiting"}
    PROVE  /\ q # <<>>
           /\ \A i \in DOMAIN q : /\ \E j \in LastRuns(q, i) : q[j].result = "passed"
                                  /\ \A j \in LastRuns(q, i) : q[j].result # "running"
<1>1. /\ \E r : r \in LatestRuns(q)
      /\ \A r \in LatestRuns(q) : r.result # "failed" /\ r.result # "running"
  BY DEF Checks
<1>2. q # <<>>
  <2>1. PICK j : j \in DOMAIN q
    BY <1>1 DEF LatestRuns
  <2> QED
    BY <2>1
<1>3. ASSUME NEW i \in DOMAIN q
      PROVE  /\ \E j \in LastRuns(q, i) : q[j].result = "passed"
             /\ \A j \in LastRuns(q, i) : q[j].result # "running"
  <2>1. PICK j \in DOMAIN q : /\ SameCheck(q, i, j)
                              /\ \A k \in DOMAIN q :
                                   SameCheck(q, i, k) => Lateness(q[k]) <= Lateness(q[j])
    BY LatestOfCheck
  <2>2. \A k \in DOMAIN q : q[k] \in RunType /\ q[k].started \in Nat /\ Lateness(q[k]) \in Nat
    BY RunsTyped, LatenessOrders
  <2>3. \A k \in DOMAIN q : SameCheck(q, i, k) => ~Outranks(q[k], q[j])
    <3> TAKE k \in DOMAIN q
    <3>1. Outranks(q[k], q[j]) => Lateness(q[j]) < Lateness(q[k])
      BY <2>2, LatenessOrders
    <3> QED
      BY <2>1, <2>2, <3>1
  <2>4. \A k \in DOMAIN q : SameCheck(q, j, k) => ~Outranks(q[k], q[j])
    BY <2>1, <2>3, SameCheckRelates
  <2>5. q[j].result = "passed"
    <3>1. q[j] \in LatestRuns(q)
      BY <2>4 DEF LatestRuns
    <3>2. q[j].result \in Results
      BY RunsTyped
    <3> QED
      BY <1>1, <3>1, <3>2 DEF Results
  <2>6. \A k \in DOMAIN q : SameCheck(q, i, k) => q[k].started <= q[j].started
    <3> TAKE k \in DOMAIN q
    <3>1. q[j].started < q[k].started => Outranks(q[k], q[j])
      BY <2>2, LatenessOrders
    <3> QED
      BY <2>2, <2>3, <3>1
  <2>7. j \in LastRuns(q, i)
    BY <2>1, <2>6 DEF LastRuns
  <2>8. \A k \in LastRuns(q, i) : q[k].result # "running"
    <3> SUFFICES ASSUME NEW k \in LastRuns(q, i), q[k].result = "running"
                 PROVE  FALSE
      OBVIOUS
    <3>1. k \in DOMAIN q /\ SameCheck(q, i, k) /\ q[j].started <= q[k].started
      BY <2>1 DEF LastRuns
    <3>2. q[j].started = q[k].started
      BY <2>2, <2>6, <3>1
    <3>3. Outranks(q[k], q[j])
      BY <2>2, <2>5, <3>1, <3>2, LatenessOrders
    <3> QED
      BY <2>3, <3>1, <3>3
  <2> QED
    BY <2>5, <2>7, <2>8
<1> QED
  BY <1>2, <1>3

LEMMA ActsOnPassed == Spec => NewestRunsPassed
<1>1. PullsInv /\ Acts =>
        /\ snap.rollup # <<>>
        /\ \A i \in DOMAIN snap.rollup :
             LET last == {snap.rollup[j].result : j \in LastRuns(snap.rollup, i)}
             IN "passed" \in last /\ "running" \notin last
  <2> SUFFICES ASSUME PullsInv, Acts
               PROVE  /\ snap.rollup # <<>>
                      /\ \A i \in DOMAIN snap.rollup :
                           LET last == {snap.rollup[j].result : j \in LastRuns(snap.rollup, i)}
                           IN "passed" \in last /\ "running" \notin last
    OBVIOUS
  <2> DEFINE q == snap.rollup
  <2>1. q \in Seq(RunType) /\ StartsBounded(q)
    BY DEF PullsInv, Pulls
  <2>2. Checks(q) \notin {"failed", "waiting"}
    BY DEF Acts, Stops
  <2>3. /\ q # <<>>
        /\ \A i \in DOMAIN q : /\ \E j \in LastRuns(q, i) : q[j].result = "passed"
                               /\ \A j \in LastRuns(q, i) : q[j].result # "running"
    <3> HIDE DEF q
    <3> QED
      BY <2>1, <2>2, GreenRollup
  <2> QED
    BY <2>3
<1> QED
  BY <1>1, PullsAlways, PTL DEF NewestRunsPassed

-----------------------------------------------------------------------------
(* Protection                                                              *)

Remembrance == [state: {"none", "verified", "plan"}, age: Nat]

ProtectionTypes ==
    /\ rules \in [Branches -> [APIs -> SUBSET Facts]]
    /\ refused \in SUBSET APIs
    /\ mode \in Modes
    /\ cache \in [CacheKeys -> Remembrance]
    /\ seen \in [Branches -> [Facts -> Nat]]
    /\ probe \in [facts: SUBSET Facts, probed: BOOLEAN, plan: BOOLEAN]

(* What is in force is being seen.                                         *)
SeenWhileInForce ==
    \A b \in Branches : \A f \in InForce(b) : seen[b][f] = 0

(* What an answer promises was in force no longer ago than the answer.     *)
VerifiedWasInForce ==
    \A m \in Modes \ {"off"}, b \in Branches :
        cache[<<m, b>>].state = "verified" =>
            /\ cache[<<m, b>>].age < VerifiedTTL
            /\ \A f \in Required(m) : seen[b][f] <= cache[<<m, b>>].age

(* What the probes of a look have found is in force, or was when the look  *)
(* asked: no time has passed since.                                        *)
ProbedInForce ==
    IF Probing
    THEN /\ mode # "off"
         /\ snap.branch \in Branches
         /\ \A f \in probe.facts : seen[snap.branch][f] = 0
    ELSE probe = NoProbe

(* A plan that does not support protection is an answer of a refusal.      *)
PlanIsRefused ==
    refused = {} => /\ ~probe.plan
                    /\ \A k \in CacheKeys : cache[k].state # "plan"

ProtectionInv ==
    /\ ProtectionTypes
    /\ SeenWhileInForce
    /\ VerifiedWasInForce
    /\ ProbedInForce
    /\ PlanIsRefused

LEMMA KeysArePairs ==
    /\ \A m \in Modes \ {"off"}, b \in Branches :
         <<m, b>> \in CacheKeys /\ CacheKey(m, b) = <<m, b>>
    /\ \A m, n \in Modes \ {"off"}, b, c \in Branches :
         <<m, b>> = <<n, c>> => m = n /\ b = c
BY DEF CacheKeys, CacheKey

LEMMA RequiredFacts ==
    /\ \A m \in Modes : Required(m) \subseteq Facts
    /\ \A m \in Modes, facts \in SUBSET Facts :
         Unmet(facts, m) = "none" => Required(m) \subseteq facts
    /\ Required("off") = {}
BY DEF Modes, Required, Facts, Unmet

LEMMA ProtectionStart == Init => ProtectionInv
<1> SUFFICES ASSUME Init PROVE ProtectionInv
  OBVIOUS
<1>1. NotCached \in Remembrance /\ NotCached.state = "none"
  BY DEF NotCached, Remembrance
<1>2. \A k \in CacheKeys : cache[k].state = "none"
  BY <1>1 DEF Init, Opens
<1>3. NoProbe \in [facts: SUBSET Facts, probed: BOOLEAN, plan: BOOLEAN] /\ ~NoProbe.plan
  BY DEF NoProbe
<1>4. ProtectionTypes
  <2>1. Protected \in [APIs -> SUBSET Facts]
    BY DEF Protected, APIs, Facts
  <2>2. rules \in [Branches -> [APIs -> SUBSET Facts]]
    BY <2>1 DEF Init, Opens
  <2>3. refused \in SUBSET APIs
    BY GateAssumption DEF Init, Opens, APIs
  <2>4. cache \in [CacheKeys -> Remembrance]
    BY <1>1 DEF Init, Opens
  <2>5. seen \in [Branches -> [Facts -> Nat]] /\ mode \in Modes /\ probe = NoProbe
    BY DEF Init, Opens, Modes
  <2> QED
    BY <1>3, <2>2, <2>3, <2>4, <2>5 DEF ProtectionTypes
<1>5. SeenWhileInForce
  <2>1. \A b \in Branches, f \in Facts : seen[b][f] = 0
    BY DEF Init, Opens
  <2> QED
    BY <2>1, <1>4 DEF SeenWhileInForce, InForce, ProtectionTypes
<1>6. VerifiedWasInForce
  BY <1>2, KeysArePairs DEF VerifiedWasInForce
<1>7. ProbedInForce
  BY DEF Init, Opens, ProbedInForce, Probing
<1>8. PlanIsRefused
  BY <1>2, <1>3 DEF Init, Opens, PlanIsRefused
<1> QED
  BY <1>4, <1>5, <1>6, <1>7, <1>8 DEF ProtectionInv

(* A step that asks nothing leaves what is known of protection.            *)
LEMMA AsksNothingKeeps ==
    ASSUME ProtectionInv, AsksNothing
    PROVE  ProtectionInv'
<1> USE DEF AsksNothing, protectionVars, ProtectionInv
<1>0. NoProbe \in [facts: SUBSET Facts, probed: BOOLEAN, plan: BOOLEAN] /\ ~NoProbe.plan
  BY DEF NoProbe
<1>1. probe' = NoProbe /\ ~Probing'
  BY DEF ProbedInForce, Probing
<1>2. ProtectionTypes'
  BY <1>0, <1>1 DEF ProtectionTypes
<1>3. SeenWhileInForce'
  BY DEF SeenWhileInForce, InForce
<1>4. VerifiedWasInForce'
  BY DEF VerifiedWasInForce
<1>5. ProbedInForce'
  BY <1>1 DEF ProbedInForce
<1>6. PlanIsRefused'
  BY <1>0, <1>1 DEF PlanIsRefused
<1> QED
  BY <1>2, <1>3, <1>4, <1>5, <1>6

(* Probing on: protection, the answers kept and the copy looked at stay.   *)
LEMMA ProbeGoesOn ==
    ASSUME ProtectionInv, UNCHANGED protectionVars, snap' = snap,
           mode # "off", snap.branch \in Branches,
           pc' \in {"rulesets", "classic"},
           probe' \in [facts: SUBSET Facts, probed: BOOLEAN, plan: BOOLEAN],
           \A f \in probe'.facts : seen[snap.branch][f] = 0,
           refused = {} => ~probe'.plan
    PROVE  ProtectionInv'
<1> USE DEF protectionVars, ProtectionInv
<1>1. ProtectionTypes'
  BY DEF ProtectionTypes
<1>2. SeenWhileInForce'
  BY DEF SeenWhileInForce, InForce
<1>3. VerifiedWasInForce'
  BY DEF VerifiedWasInForce
<1>4. ProbedInForce'
  BY DEF ProbedInForce, Probing
<1>5. PlanIsRefused'
  BY DEF PlanIsRefused
<1> QED
  BY <1>1, <1>2, <1>3, <1>4, <1>5

(* What the gate may go by: nothing is asked for, or what is asked for was *)
(* in force on the branch a short while ago.                               *)
Vouched ==
    \A f \in Required(mode) : /\ snap.branch \in Branches
                              /\ seen[snap.branch][f] < VerifiedTTL

(* The verdict of a look on what its probes found.                         *)
LEMMA VerdictHolds ==
    ASSUME ProtectionInv, UNCHANGED <<rules, refused, mode, seen>>,
           mode # "off", snap.branch \in Branches,
           NEW p \in [facts: SUBSET Facts, probed: BOOLEAN, plan: BOOLEAN],
           \A f \in p.facts : seen[snap.branch][f] = 0,
           refused = {} => ~p.plan,
           Verdict(p)
    PROVE  ProtectionInv' /\ (Passes /\ refused = {} => Vouched)
<1> USE DEF ProtectionInv
<1> DEFINE verdict == Classified(p, mode)
           key == CacheKey(mode, snap.branch)
<1>1. mode \in Modes \ {"off"} /\ key \in CacheKeys /\ key = <<mode, snap.branch>>
  <2> DEFINE m == mode
             b == snap.branch
  <2>1. m \in Modes \ {"off"} /\ b \in Branches
    BY DEF ProtectionTypes
  <2> HIDE DEF m, b
  <2>2. CacheKey(m, b) \in CacheKeys /\ CacheKey(m, b) = <<m, b>>
    BY <2>1, KeysArePairs
  <2> QED
    BY <2>1, <2>2 DEF m, b
<1>2. verdict = "none" => \A f \in Required(mode) : seen[snap.branch][f] = 0
  BY <1>1, RequiredFacts DEF Classified
<1>3. refused = {} => verdict # "plan_unsupported"
  BY DEF Classified, Unmet
<1>4. pc' \notin {"rulesets", "classic"} /\ probe' = NoProbe
      /\ (pc' = "state" => verdict = "none" \/ verdict = "plan_unsupported")
  BY Halted DEF Verdict, Halts, Waived
<1>5. \/ cache' = cache
      \/ \E answer \in Remembrance :
           /\ cache' = [cache EXCEPT ![key] = answer]
           /\ answer.age = 0
           /\ \/ answer.state = "verified" /\ verdict = "none"
              \/ answer.state = "plan" /\ verdict = "plan_unsupported"
  <2>1. \/ cache' = cache
        \/ verdict = "none" /\ cache' = [cache EXCEPT ![key] = [state |-> "verified", age |-> 0]]
        \/ verdict = "plan_unsupported"
           /\ cache' = [cache EXCEPT ![key] = [state |-> "plan", age |-> 0]]
    BY DEF Verdict
  <2>2. /\ [state |-> "verified", age |-> 0] \in Remembrance
        /\ [state |-> "plan", age |-> 0] \in Remembrance
    BY DEF Remembrance
  <2> HIDE DEF verdict, key
  <2> QED
    BY <2>1, <2>2
<1>0. NoProbe \in [facts: SUBSET Facts, probed: BOOLEAN, plan: BOOLEAN] /\ ~NoProbe.plan
  BY DEF NoProbe
<1> HIDE DEF verdict, key
<1>6. ProtectionTypes'
  <2>1. cache' \in [CacheKeys -> Remembrance]
    BY <1>1, <1>5 DEF ProtectionTypes
  <2> QED
    BY <1>0, <1>4, <2>1 DEF ProtectionTypes
<1>7. SeenWhileInForce'
  BY DEF SeenWhileInForce, InForce
<1>8. VerifiedWasInForce'
  <2> SUFFICES ASSUME NEW m \in Modes \ {"off"}, NEW b \in Branches,
                      cache'[<<m, b>>].state = "verified"
               PROVE  /\ cache'[<<m, b>>].age < VerifiedTTL
                      /\ \A f \in Required(m) : seen[b][f] <= cache'[<<m, b>>].age
    BY DEF VerifiedWasInForce
  <2>1. <<m, b>> \in CacheKeys
    BY KeysArePairs
  <2>2. CASE cache'[<<m, b>>] = cache[<<m, b>>]
    BY <2>2 DEF VerifiedWasInForce
  <2>3. CASE cache'[<<m, b>>] # cache[<<m, b>>]
    <3>1. /\ verdict = "none" /\ <<m, b>> = key
          /\ cache'[<<m, b>>].age = 0
      BY <1>5, <2>1, <2>3 DEF ProtectionTypes
    <3>2. m = mode /\ b = snap.branch
      BY <1>1, <3>1, KeysArePairs
    <3>3. 0 < VerifiedTTL
      BY GateAssumption
    <3> QED
      BY <1>2, <3>1, <3>2, <3>3
  <2> QED
    BY <2>2, <2>3
<1>9. ProbedInForce'
  BY <1>4 DEF ProbedInForce, Probing
<1>10. PlanIsRefused'
  <2>1. refused = {} => \A k \in CacheKeys : cache'[k].state # "plan"
    BY <1>1, <1>3, <1>5 DEF PlanIsRefused, ProtectionTypes
  <2> QED
    BY <1>0, <1>4, <2>1 DEF PlanIsRefused
<1>11. Passes /\ refused = {} => Vouched
  <2>1. 0 < VerifiedTTL
    BY GateAssumption
  <2> QED
    BY <1>2, <1>3, <1>4, <2>1 DEF Passes, Vouched
<1> QED
  BY <1>6, <1>7, <1>8, <1>9, <1>10, <1>11

(* What an endpoint answers is in force, and a refusal is no fact.         *)
LEMMA AnswersTrue ==
    ASSUME ProtectionInv, Probing, NEW api \in APIs, NEW p \in Answers(api)
    PROVE  /\ p \in [facts: SUBSET Facts, probed: BOOLEAN, plan: BOOLEAN]
           /\ \A f \in p.facts : seen[snap.branch][f] = 0
           /\ refused = {} => ~p.plan
<1> USE DEF ProtectionInv
<1>1. /\ snap.branch \in Branches
      /\ \A f \in probe.facts : seen[snap.branch][f] = 0
  BY DEF ProbedInForce
<1>2. probe \in [facts: SUBSET Facts, probed: BOOLEAN, plan: BOOLEAN]
  BY DEF ProtectionTypes
<1>3. CASE api \in refused
  <2>1. p = [probe EXCEPT !.plan = TRUE]
    BY <1>3 DEF Answers
  <2> QED
    BY <1>1, <1>2, <1>3, <2>1
<1>4. CASE api \notin refused
  <2>1. p = [probe EXCEPT !.facts = @ \cup rules[snap.branch][api], !.probed = TRUE]
    BY <1>4 DEF Answers
  <2>2. rules[snap.branch][api] \subseteq Facts
    BY <1>1 DEF ProtectionTypes
  <2>3. \A f \in rules[snap.branch][api] : seen[snap.branch][f] = 0
    BY <1>1 DEF SeenWhileInForce, InForce
  <2>4. /\ p \in [facts: SUBSET Facts, probed: BOOLEAN, plan: BOOLEAN]
        /\ p.facts = probe.facts \cup rules[snap.branch][api]
        /\ p.plan = probe.plan
    BY <1>2, <2>1, <2>2
  <2> QED
    BY <1>1, <2>3, <2>4 DEF PlanIsRefused
<1> QED
  BY <1>3, <1>4

(* After the rulesets a look asks on, or gives its verdict.                *)
LEMMA RulesetsAsked ==
    ASSUME ProtectionInv, UNCHANGED <<rules, refused, mode, seen>>,
           mode # "off", snap.branch \in Branches,
           NEW p \in [facts: SUBSET Facts, probed: BOOLEAN, plan: BOOLEAN],
           \A f \in p.facts : seen[snap.branch][f] = 0,
           refused = {} => ~p.plan,
           AsksRulesets(p)
    PROVE  ProtectionInv' /\ (Passes /\ refused = {} => Vouched)
<1>1. CASE Unmet(p.facts, mode) = "none"
  BY <1>1, VerdictHolds DEF AsksRulesets
<1>2. CASE Unmet(p.facts, mode) # "none"
  <2>1. probe' = p /\ pc' = "classic" /\ snap' = snap /\ cache' = cache
    BY <1>2 DEF AsksRulesets
  <2>2. ProtectionInv'
    BY <2>1, ProbeGoesOn DEF protectionVars
  <2> QED
    BY <2>1, <2>2 DEF Passes
<1> QED
  BY <1>1, <1>2

LEMMA ProbesHold ==
    ASSUME ProtectionInv,
           ProbesRulesets \/ RulesetsUnavailable \/ ProbesClassic \/ ClassicUnavailable
    PROVE  ProtectionInv' /\ (Passes /\ refused = {} => Vouched)
<1> USE DEF PassKeeps, Fails
<1>1. Probing /\ UNCHANGED <<rules, refused, mode, seen>>
  BY DEF Probing, ProbesRulesets, RulesetsUnavailable, ProbesClassic, ClassicUnavailable
<1>2. /\ mode # "off" /\ snap.branch \in Branches
      /\ \A f \in probe.facts : seen[snap.branch][f] = 0
      /\ probe \in [facts: SUBSET Facts, probed: BOOLEAN, plan: BOOLEAN]
      /\ refused = {} => ~probe.plan
  BY <1>1 DEF ProtectionInv, ProbedInForce, ProtectionTypes, PlanIsRefused
<1>3. "rulesets" \in APIs /\ "classic" \in APIs
  BY DEF APIs
<1>4. CASE ProbesRulesets
  <2>1. PICK p \in Answers("rulesets") : AsksRulesets(p)
    BY <1>4 DEF ProbesRulesets
  <2> QED
    BY <1>1, <1>2, <1>3, <2>1, AnswersTrue, RulesetsAsked
<1>5. CASE RulesetsUnavailable
  <2>1. AsksRulesets(probe)
    BY <1>5 DEF RulesetsUnavailable
  <2> QED
    BY <1>1, <1>2, <2>1, RulesetsAsked
<1>6. CASE ProbesClassic
  <2>1. PICK p \in Answers("classic") : Verdict(p)
    BY <1>6 DEF ProbesClassic
  <2> QED
    BY <1>1, <1>2, <1>3, <2>1, AnswersTrue, VerdictHolds
<1>7. CASE ClassicUnavailable
  <2>1. Verdict(probe)
    BY <1>7 DEF ClassicUnavailable
  <2> QED
    BY <1>1, <1>2, <2>1, VerdictHolds
<1> QED
  BY <1>4, <1>5, <1>6, <1>7

(* Down to the protection endpoints: what is remembered may be enough.     *)
LEMMA ClearsHold ==
    ASSUME ProtectionInv, PrerequisiteClears
    PROVE  ProtectionInv' /\ (Passes /\ refused = {} => Vouched)
<1> USE DEF ProtectionInv
<1> DEFINE known == snap.branch \in Branches
           held == IF known /\ mode # "off" THEN Remembered(mode, snap.branch) ELSE "none"
<1>1. /\ UNCHANGED protectionVars
      /\ pc = "prerequisite"
  BY DEF PrerequisiteClears, PassKeeps, protectionVars
<1>2. \/ /\ mode = "off" \/ held = "verified" \/ held = "plan"
         /\ pc' = "state" /\ UNCHANGED <<snap, probe>>
      \/ pc' = "sweep" /\ snap' = NoSnap /\ probe' = NoProbe
      \/ known /\ mode # "off" /\ pc' = "rulesets" /\ UNCHANGED <<snap, probe>>
  BY Halted DEF PrerequisiteClears, Halts
<1>3. probe = NoProbe /\ mode \in Modes
  BY <1>1 DEF ProbedInForce, Probing, ProtectionTypes
<1>4. held = "verified" \/ held = "plan" =>
        known /\ mode # "off" /\ cache[<<mode, snap.branch>>].state = held
  BY DEF Remembered, CacheKey
<1> HIDE DEF known, held
<1>5. CASE pc' = "rulesets"
  <2>1. /\ probe' = NoProbe /\ snap' = snap
        /\ mode # "off" /\ snap.branch \in Branches
    BY <1>2, <1>3, <1>5 DEF known
  <2>2. /\ NoProbe \in [facts: SUBSET Facts, probed: BOOLEAN, plan: BOOLEAN]
        /\ NoProbe.facts = {} /\ ~NoProbe.plan
    BY DEF NoProbe
  <2>3. ProtectionInv'
    BY <1>1, <1>5, <2>1, <2>2, ProbeGoesOn
  <2> QED
    BY <1>5, <2>3 DEF Passes
<1>6. CASE pc' # "rulesets"
  <2>1. ProtectionInv'
    <3>1. AsksNothing
      BY <1>1, <1>2, <1>3, <1>6 DEF AsksNothing, Probing
    <3> QED
      BY <3>1, AsksNothingKeeps
  <2>2. ASSUME Passes, refused = {}
        PROVE  Vouched
    <3>1. mode = "off" \/ held = "verified" \/ held = "plan"
      BY <1>2, <2>2 DEF Passes
    <3>2. CASE mode = "off"
      BY <3>2, RequiredFacts DEF Vouched
    <3>3. CASE mode # "off"
      <4>1. known /\ mode \in Modes \ {"off"} /\ snap.branch \in Branches
        BY <1>3, <1>4, <3>1, <3>3 DEF known
      <4>2. <<mode, snap.branch>> \in CacheKeys
        BY <4>1, KeysArePairs
      <4>3. cache[<<mode, snap.branch>>].state = "verified"
        BY <1>4, <2>2, <3>1, <3>3, <4>2 DEF PlanIsRefused
      <4>4. /\ cache[<<mode, snap.branch>>].age < VerifiedTTL
            /\ \A f \in Required(mode) :
                 seen[snap.branch][f] <= cache[<<mode, snap.branch>>].age
        BY <4>1, <4>3 DEF VerifiedWasInForce
      <4>5. cache[<<mode, snap.branch>>].age \in Nat /\ VerifiedTTL \in Nat
        BY <4>2, GateAssumption DEF ProtectionTypes, Remembrance
      <4>6. \A f \in Required(mode) : seen[snap.branch][f] \in Nat
        BY <4>1, RequiredFacts DEF ProtectionTypes
      <4> QED
        BY <4>1, <4>4, <4>5, <4>6 DEF Vouched
    <3> QED
      BY <3>2, <3>3
  <2> QED
    BY <2>1, <2>2
<1> QED
  BY <1>5, <1>6

(* An edit of the protection: what ends is seen no more from then on.      *)
LEMMA EditHolds ==
    ASSUME ProtectionInv, ProtectionEdited
    PROVE  ProtectionInv'
<1> USE DEF ProtectionInv
<1>1. /\ UNCHANGED <<refused, mode, cache, probe, pc, snap>>
      /\ seen' = StillSeen(rules')
  BY DEF ProtectionEdited, Outside, lookVars
<1>2. rules' \in [Branches -> [APIs -> SUBSET Facts]]
  <2>1. Protections \subseteq [APIs -> SUBSET Facts]
    <3>1. Protected \in [APIs -> SUBSET Facts]
      BY DEF Protected, APIs, Facts
    <3>2. [Protected EXCEPT !.classic = {}] \in [APIs -> SUBSET Facts]
      BY <3>1
    <3>3. [api \in APIs |-> {}] \in [APIs -> SUBSET Facts]
      OBVIOUS
    <3> QED
      BY <3>1, <3>2, <3>3 DEF Protections
  <2>2. PICK b \in Branches, p \in Protections : rules' = [rules EXCEPT ![b] = p]
    BY DEF ProtectionEdited
  <2> QED
    BY <2>1, <2>2 DEF ProtectionTypes
<1>3. \A b \in Branches, f \in Facts :
        /\ seen'[b][f] = IF f \in InForce(b)' THEN 0 ELSE seen[b][f]
        /\ seen[b][f] \in Nat /\ seen'[b][f] \in Nat /\ seen'[b][f] <= seen[b][f]
  <2> TAKE b \in Branches, f \in Facts
  <2>1. seen'[b][f] = IF f \in UNION {rules'[b][api] : api \in APIs} THEN 0 ELSE seen[b][f]
    BY <1>1 DEF StillSeen
  <2>2. seen[b][f] \in Nat
    BY DEF ProtectionTypes
  <2> QED
    BY <2>1, <2>2 DEF InForce
<1>4. seen' \in [Branches -> [Facts -> Nat]]
  <2> DEFINE after == [b \in Branches |-> [f \in Facts |->
                 IF f \in UNION {rules'[b][api] : api \in APIs} THEN 0 ELSE seen[b][f]]]
  <2>1. after \in [Branches -> [Facts -> Nat]]
    BY DEF ProtectionTypes
  <2> QED
    BY <1>1, <2>1 DEF StillSeen
<1>5. ProtectionTypes'
  BY <1>1, <1>2, <1>4 DEF ProtectionTypes
<1>6. SeenWhileInForce'
  <2> SUFFICES ASSUME NEW b \in Branches, NEW f \in InForce(b)'
               PROVE  seen'[b][f] = 0
    BY DEF SeenWhileInForce
  <2>1. f \in Facts
    BY <1>2 DEF InForce
  <2> QED
    BY <1>3, <2>1
<1>7. VerifiedWasInForce'
  <2> SUFFICES ASSUME NEW m \in Modes \ {"off"}, NEW b \in Branches,
                      cache[<<m, b>>].state = "verified"
               PROVE  /\ cache[<<m, b>>].age < VerifiedTTL
                      /\ \A f \in Required(m) : seen'[b][f] <= cache[<<m, b>>].age
    BY <1>1 DEF VerifiedWasInForce
  <2>1. <<m, b>> \in CacheKeys
    BY KeysArePairs
  <2>2. cache[<<m, b>>].age \in Nat
    BY <2>1 DEF ProtectionTypes, Remembrance
  <2>3. /\ cache[<<m, b>>].age < VerifiedTTL
        /\ \A f \in Required(m) : seen[b][f] <= cache[<<m, b>>].age
    BY DEF VerifiedWasInForce
  <2>4. \A f \in Required(m) : f \in Facts
    BY RequiredFacts
  <2> QED
    BY <1>3, <2>2, <2>3, <2>4
<1>8. ProbedInForce'
  <2>1. CASE Probing
    <3>1. /\ mode # "off" /\ snap.branch \in Branches
          /\ \A f \in probe.facts : f \in Facts /\ seen[snap.branch][f] = 0
      BY <2>1 DEF ProbedInForce, ProtectionTypes
    <3>2. \A f \in probe.facts : seen'[snap.branch][f] = 0
      BY <1>3, <3>1
    <3> QED
      BY <1>1, <2>1, <3>1, <3>2 DEF ProbedInForce, Probing
  <2>2. CASE ~Probing
    BY <1>1, <2>2 DEF ProbedInForce, Probing
  <2> QED
    BY <2>1, <2>2
<1>9. PlanIsRefused'
  BY <1>1 DEF PlanIsRefused
<1> QED
  BY <1>5, <1>6, <1>7, <1>8, <1>9

(* A tick ages an answer no less than what it was about.                   *)
LEMMA TickHolds ==
    ASSUME ProtectionInv, Tick
    PROVE  ProtectionInv'
<1> USE DEF ProtectionInv
<1>1. /\ UNCHANGED <<rules, refused, mode, probe, pc, snap>>
      /\ ~Probing
  BY DEF Tick, outsideVars, lookVars, Probing
<1>2. VerifiedTTL \in Nat \ {0}
  BY GateAssumption
<1>3. \A b \in Branches, f \in Facts :
        /\ seen[b][f] \in Nat /\ seen'[b][f] \in Nat /\ seen'[b][f] <= seen[b][f] + 1
        /\ f \in InForce(b) => seen'[b][f] = 0
  <2> TAKE b \in Branches, f \in Facts
  <2>1. seen'[b][f] = IF f \in InForce(b) THEN 0 ELSE Older(seen[b][f], VerifiedTTL)
    BY DEF Tick
  <2>2. seen[b][f] \in Nat
    BY DEF ProtectionTypes
  <2>3. CASE f \in InForce(b)
    BY <2>1, <2>2, <2>3
  <2>4. CASE f \notin InForce(b)
    <3>1. seen'[b][f] = seen[b][f] + 1 \/ (seen'[b][f] = VerifiedTTL /\ VerifiedTTL <= seen[b][f])
      BY <1>2, <2>1, <2>2, <2>4 DEF Older, None
    <3> QED
      BY <1>2, <2>2, <2>4, <3>1
  <2> QED
    BY <2>3, <2>4
<1>4. seen' \in [Branches -> [Facts -> Nat]]
  <2> DEFINE value(b, f) == IF f \in InForce(b) THEN 0 ELSE Older(seen[b][f], VerifiedTTL)
  <2>1. seen' = [b \in Branches |-> [f \in Facts |-> value(b, f)]]
    BY DEF Tick
  <2>2. \A b \in Branches, f \in Facts : value(b, f) \in Nat
    BY <1>3, <2>1
  <2> HIDE DEF value
  <2> QED
    BY <2>1, <2>2
<1>5. \A k \in CacheKeys :
        /\ cache'[k] \in Remembrance
        /\ \/ cache'[k].state = "none"
           \/ /\ cache'[k].state = cache[k].state
              /\ cache'[k].age = cache[k].age + 1
              /\ cache[k].age + 1 < TTL(cache[k].state)
  <2> TAKE k \in CacheKeys
  <2>1. NotCached \in Remembrance /\ NotCached.state = "none"
    BY DEF NotCached, Remembrance
  <2>2. cache[k] \in Remembrance
    BY DEF ProtectionTypes
  <2>3. cache'[k] = IF cache[k].state = "none" THEN NotCached
                    ELSE IF cache[k].age + 1 >= TTL(cache[k].state)
                    THEN NotCached
                    ELSE [cache[k] EXCEPT !.age = @ + 1]
    BY DEF Tick
  <2>4. CASE cache'[k] = NotCached
    BY <2>1, <2>4
  <2>5. CASE cache'[k] # NotCached
    <3>1. /\ cache'[k] = [cache[k] EXCEPT !.age = @ + 1]
          /\ ~(cache[k].age + 1 >= TTL(cache[k].state))
      BY <2>3, <2>5
    <3>2. cache[k].age \in Nat /\ TTL(cache[k].state) \in Nat
      BY <2>2, GateAssumption DEF Remembrance, TTL
    <3> QED
      BY <2>2, <3>1, <3>2 DEF Remembrance
  <2> QED
    BY <2>4, <2>5
<1>6. cache' \in [CacheKeys -> Remembrance]
  <2> DEFINE aged(k) == IF cache[k].state = "none" THEN NotCached
                        ELSE IF cache[k].age + 1 >= TTL(cache[k].state)
                        THEN NotCached
                        ELSE [cache[k] EXCEPT !.age = @ + 1]
  <2>1. cache' = [k \in CacheKeys |-> aged(k)]
    BY DEF Tick
  <2>2. \A k \in CacheKeys : aged(k) \in Remembrance
    BY <1>5, <2>1
  <2> HIDE DEF aged
  <2> QED
    BY <2>1, <2>2
<1>7. ProtectionTypes'
  BY <1>1, <1>4, <1>6 DEF ProtectionTypes
<1>8. SeenWhileInForce'
  <2> SUFFICES ASSUME NEW b \in Branches, NEW f \in InForce(b)
               PROVE  seen'[b][f] = 0
    BY <1>1 DEF SeenWhileInForce, InForce
  <2>1. f \in Facts
    BY DEF InForce, ProtectionTypes
  <2> QED
    BY <1>3, <2>1
<1>9. VerifiedWasInForce'
  <2> SUFFICES ASSUME NEW m \in Modes \ {"off"}, NEW b \in Branches,
                      cache'[<<m, b>>].state = "verified"
               PROVE  /\ cache'[<<m, b>>].age < VerifiedTTL
                      /\ \A f \in Required(m) : seen'[b][f] <= cache'[<<m, b>>].age
    BY DEF VerifiedWasInForce
  <2> DEFINE k == <<m, b>>
  <2>1. k \in CacheKeys
    BY KeysArePairs
  <2>2. /\ cache[k].state = "verified"
        /\ cache'[k].age = cache[k].age + 1
        /\ cache[k].age + 1 < VerifiedTTL
        /\ cache[k].age \in Nat
    <3>0. cache'[k].state = "verified"
      OBVIOUS
    <3> HIDE DEF k
    <3>1. cache[k] \in Remembrance
      BY <2>1 DEF ProtectionTypes
    <3> QED
      BY <1>5, <2>1, <3>0, <3>1 DEF TTL, Remembrance
  <2>3. \A f \in Required(m) : f \in Facts /\ seen[b][f] <= cache[k].age
    BY <2>2, RequiredFacts DEF VerifiedWasInForce
  <2> HIDE DEF k
  <2>4. \A f \in Required(m) : seen'[b][f] <= cache'[k].age
    BY <1>3, <2>2, <2>3
  <2> QED
    BY <2>2, <2>4 DEF k
<1>10. ProbedInForce'
  BY <1>1 DEF ProbedInForce, Probing
<1>11. PlanIsRefused'
  BY <1>1, <1>5 DEF PlanIsRefused
<1> QED
  BY <1>7, <1>8, <1>9, <1>10, <1>11

(* A change of mode finds no look under way.                               *)
LEMMA ModeHolds ==
    ASSUME ProtectionInv, ModeEdited
    PROVE  ProtectionInv'
<1> USE DEF ProtectionInv
<1>1. /\ UNCHANGED <<rules, refused, cache, seen, probe, pc>>
      /\ ~Probing /\ mode' \in Modes
  BY DEF ModeEdited, Outside, lookVars, Probing
<1>2. ProtectionTypes' /\ SeenWhileInForce' /\ VerifiedWasInForce' /\ ProbedInForce'
      /\ PlanIsRefused'
  BY <1>1 DEF ProtectionTypes, SeenWhileInForce, InForce, VerifiedWasInForce,
              ProbedInForce, Probing, PlanIsRefused
<1> QED
  BY <1>2

(* The rest of what happens outside leaves protection as it is.            *)
LEMMA StillHolds ==
    ASSUME ProtectionInv, UNCHANGED protectionVars, UNCHANGED lookVars
    PROVE  ProtectionInv'
BY DEF protectionVars, lookVars, ProtectionInv, ProtectionTypes, SeenWhileInForce,
       InForce, VerifiedWasInForce, ProbedInForce, Probing, PlanIsRefused

LEMMA ProtectionStep ==
    ProtectionInv /\ [Next]_vars =>
        ProtectionInv' /\ (Passes /\ refused = {} => Vouched)
<1> SUFFICES ASSUME ProtectionInv, [Next]_vars
             PROVE  ProtectionInv' /\ (Passes /\ refused = {} => Vouched)
  OBVIOUS
<1>1. CASE \/ Reconcile \/ ReadOpen \/ ReadConcluded \/ ReadFails
           \/ PrerequisiteBlocks \/ PrerequisiteProbeFails
           \/ StateHolds \/ UpdateCapped \/ UpdatesBranch \/ UpdateFails
           \/ Merges \/ MergeFails \/ ActsTooLate \/ SweepStuck
  BY <1>1, ElsewhereAsksNothing, AsksNothingKeeps
<1>2. CASE ProbesRulesets \/ RulesetsUnavailable \/ ProbesClassic \/ ClassicUnavailable
  BY <1>2, ProbesHold
<1>3. CASE PrerequisiteClears
  BY <1>3, ClearsHold
<1>4. CASE Moves \/ OperatorUpdates
  <2>1. UNCHANGED lookVars /\ UNCHANGED <<refused, cache>>
    BY <1>4, OutsideLeavesLooks
  <2>2. ~Passes
    BY <2>1 DEF Passes, lookVars
  <2>3. CASE ProtectionEdited
    BY <2>2, <2>3, EditHolds
  <2>4. CASE ModeEdited
    BY <2>2, <2>4, ModeHolds
  <2>5. CASE ~ProtectionEdited /\ ~ModeEdited
    <3>1. UNCHANGED protectionVars
      BY <1>4, <2>1, <2>5
         DEF Moves, Pushes, RunListed, RunFinishes, Retargeted, MergeStateChanges,
             PersonConcludes, PrerequisiteMoves, PullRequestMoves, OperatorUpdates,
             protectionVars
    <3> QED
      BY <2>1, <2>2, <3>1, StillHolds
  <2> QED
    BY <2>3, <2>4, <2>5
<1>5. CASE Tick
  <2>1. ~Passes
    BY <1>5 DEF Tick, lookVars, Passes
  <2> QED
    BY <1>5, <2>1, TickHolds
<1>6. CASE UNCHANGED vars
  <2>1. UNCHANGED protectionVars /\ UNCHANGED lookVars
    BY <1>6 DEF vars, outsideVars, protectionVars, lookVars
  <2> QED
    BY <2>1, StillHolds DEF Passes, lookVars
<1> QED
  BY <1>1, <1>2, <1>3, <1>4, <1>5, <1>6 DEF Next, PassStep

LEMMA PassesOnProtection == Spec => ProtectionWasInForce
<1>1. ProtectionInv /\ [Next]_vars => [Passes /\ refused = {} => Vouched]_vars
  BY ProtectionStep
<1>2. (Passes /\ refused = {} => Vouched)
        <=> (Passes /\ refused = {} =>
               \A f \in Required(mode) : /\ snap.branch \in Branches
                                         /\ seen[snap.branch][f] < VerifiedTTL)
  BY DEF Vouched
<1>3. ProtectionInv /\ [Next]_vars =>
        [Passes /\ refused = {} =>
           \A f \in Required(mode) : /\ snap.branch \in Branches
                                     /\ seen[snap.branch][f] < VerifiedTTL]_vars
  BY <1>1, <1>2
<1>4. ProtectionInv /\ [Next]_vars => ProtectionInv'
  BY ProtectionStep
<1> QED
  BY <1>3, <1>4, ProtectionStart, PTL DEF Spec, ProtectionWasInForce

(* What a merge or an update is tried on was cleared: a newest run of every *)
(* check of the rollup passed and none still runs, and the protection the   *)
(* mode asks for was in force on the branch aimed at within the time an     *)
(* answer is kept (check_rollup::classify, protection::unmet_condition).    *)
THEOREM ActsOnWhatIsClear == Spec => GateHolds
BY ActsOnPassed, PassesOnProtection, PTL DEF GateHolds

-----------------------------------------------------------------------------
(***************************************************************************)
(* The daemon as a process                                                 *)
(***************************************************************************)

Calls == [cmd : {"none"} \cup Orderable, at : CommandSteps,
          first : Pids \cup {NoPid}, seen : Pids \cup {NoPid},
          gone : BOOLEAN, alone : BOOLEAN, said : Words]
Jobs == [plist : BOOLEAN, label : {"absent", "loaded", "leaving"}, job : Pids \cup {NoPid}]
Asked == [queued : BOOLEAN, ringing : BOOLEAN, heard : Pids \cup {NoPid}]

Living == {p \in Pids : at[p] # "dead"}

(* Whoever is past the guard is named by the file; the lock is held from   *)
(* the check until the file is written, and no living process is named.    *)
GuardFits ==
    \A p \in Pids :
       /\ at[p] \in Acting => pidfile = p
       /\ at[p] \in {"checked", "removed"} <=> guardLock = p
       /\ at[p] = "checked" => pidfile \notin Living
       /\ at[p] = "removed" => pidfile = NoPid

(* What rang since the last drain still rings.                             *)
BellsFit ==
    \A p \in Pids : request.heard = p /\ at[p] \in {"pass", "wait"} => p \in bells

(* A daemon launchd started and nobody told to end is that of the label.   *)
JobFits ==
    \A p \in Pids :
       at[p] \notin {"dead", "exiting", "closing"} /\ p \notin byHand /\ p \notin terms
         => launchd.label = "loaded" /\ launchd.job = p

(* What a command knows, by the step it is at.                             *)
Fits(k, label, living) ==
    /\ k.alone /\ k.gone /\ k.at = "await" => label = "absent"
    /\ k.gone => k.at \in {"await", "load", "confirm", "verify"}
    /\ k.at # "idle" => k.said = ""
    /\ k.cmd = "stop" => k.first = NoPid
    /\ k.at \in {"manual", "signal", "watch"} => k.cmd = "stop"
    /\ k.at = "first" => k.cmd = "restart"
    /\ k.at = "seen" => k.cmd \in {"stop", "restart"}
    /\ k.cmd = "install" \/ k.at \in {"probe", "first", "write", "rewrite"} => k.seen = NoPid
    /\ k.at \in {"load", "confirm", "verify"} => k.seen \notin living

(* A command alone is alone still.                                         *)
Alone(c) == callers[c].alone => \A e \in Callers \ {c} : callers[e].at = "idle"

CallsFit ==
    \A c \in Callers : Fits(callers[c], launchd.label, Living) /\ Alone(c)

DownFits == downed => launchd.label = "absent" /\ \A c \in Callers : callers[c].at = "idle"

ServiceInv ==
    /\ ServiceTypeOK /\ GuardFits /\ BellsFit /\ JobFits /\ CallsFit /\ DownFits

(* A daemon's own step keeps what commands know: the dead they read stay   *)
(* dead, and a label that is gone stays gone.                              *)
LEMMA CallsStand ==
    ASSUME CallsFit, UNCHANGED callers,
           launchd.label = "absent" => launchd'.label = "absent",
           \A c \in Callers : callers[c].seen \notin Living => callers[c].seen \notin Living'
    PROVE  CallsFit'
BY DEF CallsFit, Fits, Alone

(* A step of one command keeps what the others know.                       *)
LEMMA OneTurns ==
    ASSUME callers \in [Callers -> Calls], CallsFit, NEW c \in Callers, NEW k \in Calls,
           callers[c].at # "idle", callers' = [callers EXCEPT ![c] = k],
           k.alone => callers[c].alone,
           Fits(k, launchd'.label, Living'), Living' \subseteq Living
    PROVE  CallsFit' /\ callers' \in [Callers -> Calls]
<1>1. callers' \in [Callers -> Calls] /\ callers'[c] = k
  OBVIOUS
<1>2. \A d \in Callers \ {c} : callers'[d] = callers[d]
  OBVIOUS
<1>3. Fits(callers'[c], launchd'.label, Living')
  BY <1>1
<1>4. \A d \in Callers \ {c} : ~callers[d].alone
  BY DEF CallsFit, Alone
<1>5. \A d \in Callers \ {c} : Fits(callers'[d], launchd'.label, Living')
  BY <1>2, <1>4 DEF CallsFit, Fits
<1>6. \A d \in Callers : Alone(d)'
  <2> TAKE d \in Callers
  <2>1. CASE d = c
    BY <1>1, <1>2, <2>1 DEF CallsFit, Alone
  <2>2. CASE d # c
    BY <1>2, <1>4, <2>2 DEF Alone
  <2> QED BY <2>1, <2>2
<1> QED BY <1>1, <1>3, <1>5, <1>6 DEF CallsFit

LEMMA CallTypes == ServiceTypeOK => callers \in [Callers -> Calls]
BY DEF ServiceTypeOK, Calls

(* A command that ends knows nothing any more.                             *)
LEMMA Ends ==
    ASSUME ServiceTypeOK, CallsFit, NEW c \in Callers, callers[c].at # "idle",
           NEW word \in Words, Says(c, word), Living' \subseteq Living
    PROVE  CallsFit' /\ callers' \in [Callers -> Calls]
<1> DEFINE k == Ended(word)
<1>1. k \in Calls /\ k.at = "idle" /\ ~k.alone /\ ~k.gone /\ k.cmd = "none"
  BY DEF Ended, Calls, CommandSteps
<1>2. Fits(k, launchd'.label, Living')
  BY <1>1 DEF Fits
<1>3. callers' = [callers EXCEPT ![c] = k]
  BY DEF Says
<1> HIDE DEF k
<1> QED BY <1>1, <1>2, <1>3, CallTypes, OneTurns

(* One that goes on fits the step it goes to.                              *)
LEMMA GoesOn ==
    ASSUME ServiceTypeOK, CallsFit, NEW c \in Callers, callers[c].at # "idle",
           NEW place \in CommandSteps \ {"idle"}, Turn(c, place), Living' \subseteq Living,
           Fits([callers[c] EXCEPT !.at = place], launchd'.label, Living')
    PROVE  CallsFit' /\ callers' \in [Callers -> Calls]
<1> DEFINE k == [callers[c] EXCEPT !.at = place]
<1>0. callers[c] \in Calls
  BY CallTypes
<1>1. k \in Calls /\ (k.alone => callers[c].alone)
  BY <1>0 DEF Calls
<1>2. callers' = [callers EXCEPT ![c] = k]
  BY DEF Turn
<1>3. Fits(k, launchd'.label, Living')
  OBVIOUS
<1> HIDE DEF k
<1> QED BY <1>1, <1>2, <1>3, CallTypes, OneTurns

LEMMA CallsSame ==
    ASSUME ServiceInv, UNCHANGED <<launchd, callers, downed>>,
           \A c \in Callers : callers[c].seen \notin Living => callers[c].seen \notin Living'
    PROVE  CallsFit' /\ DownFits'
BY CallsStand DEF ServiceInv, DownFits

(* A step of a living daemon.                                              *)
LEMMA Steps ==
    ASSUME ServiceInv, NEW p \in Pids, at[p] # "dead", NEW place \in Places, Goes(p, place),
           UNCHANGED <<launchd, callers, downed>>
    PROVE  /\ Living' \subseteq Living
           /\ CallsFit' /\ DownFits'
           /\ at' \in [Pids -> Places] /\ at'[p] = place
           /\ \A q \in Pids \ {p} : at'[q] = at[q]
<1>1. at \in [Pids -> Places]
  BY DEF ServiceInv, ServiceTypeOK
<1>2. /\ at' \in [Pids -> Places] /\ at'[p] = place
      /\ \A q \in Pids \ {p} : at'[q] = at[q]
  BY <1>1 DEF Goes
<1>3. Living' \subseteq Living
  BY <1>2 DEF Living
<1> QED BY <1>2, <1>3, CallsSame



LEMMA AcquireFits ==
    ASSUME ServiceInv, ~SlowProbes, NEW p \in Pids, Acquire(p) PROVE ServiceInv'
<1>1. PICK place \in {"dead", "checked"} :
        /\ Goes(p, place)
        /\ place = "dead" => UNCHANGED guardLock
        /\ place = "checked" => guardLock' = p /\ ~NamesLiving
  BY DEF Acquire
<1>2. /\ at[p] = "start" /\ guardLock = NoPid
      /\ UNCHANGED <<terms, bells, byHand, pidfile, launchd, callers, request, downed, counts>>
  BY DEF Acquire
<1>3. /\ Living' \subseteq Living /\ CallsFit' /\ DownFits'
      /\ at' \in [Pids -> Places] /\ at'[p] = place
      /\ \A q \in Pids \ {p} : at'[q] = at[q]
  BY <1>1, <1>2, Steps DEF Places, Unarmed
<1>4. ServiceTypeOK'
  BY <1>1, <1>2, <1>3 DEF ServiceInv, ServiceTypeOK, counts
<1>5. GuardFits'
  <2>1. ServiceAssumption
    BY ServiceAssumption
  <2>2. pidfile \notin Living \/ place = "dead"
    BY <1>1 DEF NamesLiving, Alive, Living
  <2>3. \A q \in Pids : guardLock # q
    BY <1>2, <2>1 DEF ServiceAssumption
  <2> QED BY <1>1, <1>2, <1>3, <2>2, <2>3 DEF ServiceInv, GuardFits, Acting, Armed
<1>6. BellsFit'
  BY <1>1, <1>2, <1>3 DEF ServiceInv, BellsFit
<1>7. JobFits'
  BY <1>1, <1>2, <1>3 DEF ServiceInv, JobFits
<1> QED BY <1>3, <1>4, <1>5, <1>6, <1>7 DEF ServiceInv

(* The other steps of a daemon that change neither launchd nor a command.  *)
LEMMA RemovesFits ==
    ASSUME ServiceInv, NEW p \in Pids, Removes(p) PROVE ServiceInv'
<1>1. /\ at[p] = "checked" /\ pidfile' = NoPid /\ Goes(p, "removed")
      /\ UNCHANGED <<terms, bells, byHand, guardLock, launchd, callers, request, downed, counts>>
  BY DEF Removes
<1>2. /\ Living' \subseteq Living /\ CallsFit' /\ DownFits'
      /\ at' \in [Pids -> Places] /\ at'[p] = "removed"
      /\ \A q \in Pids \ {p} : at'[q] = at[q]
  BY <1>1, Steps DEF Places, Unarmed
<1>3. ServiceTypeOK'
  BY <1>1, <1>2 DEF ServiceInv, ServiceTypeOK, counts
<1>4. GuardFits'
  <2>1. \A q \in Pids : at[q] \notin Acting
    BY <1>1 DEF ServiceInv, GuardFits, Living, Acting, Armed
  <2>2. \A q \in Pids \ {p} : at[q] \notin {"checked", "removed"}
    BY <1>1 DEF ServiceInv, GuardFits
  <2> QED BY <1>1, <1>2, <2>1, <2>2 DEF ServiceInv, GuardFits, Acting, Armed
<1>5. BellsFit'
  BY <1>1, <1>2 DEF ServiceInv, BellsFit
<1>6. JobFits'
  BY <1>1, <1>2 DEF ServiceInv, JobFits
<1> QED BY <1>2, <1>3, <1>4, <1>5, <1>6 DEF ServiceInv

LEMMA WritesFits ==
    ASSUME ServiceInv, NEW p \in Pids, Writes(p) PROVE ServiceInv'
<1>1. /\ at[p] = "removed" /\ pidfile' = p /\ guardLock' = NoPid /\ Goes(p, "setup")
      /\ UNCHANGED <<terms, bells, byHand, launchd, callers, request, downed, counts>>
  BY DEF Writes
<1>2. /\ Living' \subseteq Living /\ CallsFit' /\ DownFits'
      /\ at' \in [Pids -> Places] /\ at'[p] = "setup"
      /\ \A q \in Pids \ {p} : at'[q] = at[q]
  BY <1>1, Steps DEF Places, Unarmed
<1>3. ServiceTypeOK'
  BY <1>1, <1>2 DEF ServiceInv, ServiceTypeOK, counts
<1>4. GuardFits'
  <2>0. NoPid \notin Pids
    BY ServiceAssumption DEF ServiceAssumption
  <2>1. \A q \in Pids : at[q] \notin Acting
    BY <1>1, <2>0 DEF ServiceInv, GuardFits
  <2>2. \A q \in Pids \ {p} : at[q] \notin {"checked", "removed"}
    BY <1>1 DEF ServiceInv, GuardFits
  <2> QED BY <1>1, <1>2, <2>0, <2>1, <2>2 DEF ServiceInv, GuardFits, Acting, Armed
<1>5. BellsFit'
  BY <1>1, <1>2 DEF ServiceInv, BellsFit
<1>6. JobFits'
  BY <1>1, <1>2 DEF ServiceInv, JobFits
<1> QED BY <1>2, <1>3, <1>4, <1>5, <1>6 DEF ServiceInv

(* Within the guard, from one place to the next.                           *)
LEMMA ActsFits ==
    ASSUME ServiceInv, NEW p \in Pids, NEW place \in Acting, at[p] \in Acting,
           at[p] = "closing" => place = "closing",
           Goes(p, place),
           UNCHANGED <<terms, byHand, pidfile, guardLock, launchd, callers, downed>>,
           ServiceTypeOK', BellsFit'
    PROVE  ServiceInv'
<1>1. /\ Living' \subseteq Living /\ CallsFit' /\ DownFits'
      /\ at' \in [Pids -> Places] /\ at'[p] = place
      /\ \A q \in Pids \ {p} : at'[q] = at[q]
  BY Steps DEF Places, Acting, Armed
<1>2. GuardFits'
  BY <1>1 DEF ServiceInv, GuardFits, Acting, Armed
<1>3. JobFits'
  BY <1>1 DEF ServiceInv, JobFits, Acting, Armed
<1> QED BY <1>1, <1>2, <1>3 DEF ServiceInv

LEMMA WithinFits ==
    ASSUME ServiceInv, NEW p \in Pids,
           SetsUp(p) \/ Drains(p) \/ EndsPass(p) \/ Waits(p) \/ HoldsOff(p) \/ Shutdown(p)
    PROVE  ServiceInv'
<1>0. /\ ServiceTypeOK /\ NoPid \notin Pids
      /\ {MaxCommands, MaxMishaps} \subseteq Nat
  BY ServiceAssumption DEF ServiceInv, ServiceAssumption
<1> DEFINE Within(place) ==
        /\ Goes(p, place) /\ at[p] \in Acting \ {"closing"}
        /\ UNCHANGED <<terms, byHand, pidfile, guardLock, launchd, callers, downed>>
        /\ bells' \in {bells, bells \ {p}}
        /\ bells' # bells => place \in {"top", "hold"}
        /\ \/ request' = request /\ (place \in {"pass", "wait"} => at[p] = "pass")
           \/ request' \in Asked /\ request'.heard = NoPid
        /\ commands' = commands
        /\ \/ mishaps' = mishaps
           \/ mishaps < MaxMishaps /\ mishaps' = mishaps + 1
<1>1. \E place \in Acting : Within(place)
  <2>1. CASE SetsUp(p)
    <3>1. PICK place \in {"top", "closing"} : Goes(p, place)
      BY <2>1 DEF SetsUp
    <3>2. Within(place)
      BY <2>1, <3>1 DEF SetsUp, Acting, Armed, counts, Mishap
    <3> QED BY <3>2 DEF Acting, Armed
  <2>2. CASE Drains(p)
    <3>1. request' \in Asked /\ request'.heard = NoPid
      BY <2>2, <1>0 DEF Drains, ServiceTypeOK, Asked
    <3>2. Within("pass")
      BY <2>2, <3>1 DEF Drains, Acting, Armed, counts, Mishap
    <3> QED BY <3>2 DEF Acting, Armed
  <2>3. CASE EndsPass(p)
    <3>1. PICK place \in {"wait", "closing"} : Goes(p, place)
      BY <2>3 DEF EndsPass
    <3>2. Within(place)
      BY <2>3, <3>1 DEF EndsPass, Acting, Armed, counts, Mishap
    <3> QED BY <3>2 DEF Acting, Armed
  <2>4. CASE Waits(p)
    <3>1. PICK place \in {"top", "hold"} : Goes(p, place)
      BY <2>4 DEF Waits
    <3>2. Within(place)
      BY <2>4, <3>1 DEF Waits, Acting, Armed, counts
    <3> QED BY <3>2 DEF Acting, Armed
  <2>5. CASE HoldsOff(p)
    <3>1. Within("top")
      BY <2>5 DEF HoldsOff, Acting, Armed, counts
    <3> QED BY <3>1 DEF Acting, Armed
  <2>6. CASE Shutdown(p)
    <3>1. Within("closing")
      BY <2>6 DEF Shutdown, Acting, Armed, counts
    <3> QED BY <3>1 DEF Acting, Armed
  <2> QED BY <2>1, <2>2, <2>3, <2>4, <2>5, <2>6
<1>2. PICK place \in Acting : Within(place)
  BY <1>1
<1>3. /\ at' \in [Pids -> Places] /\ at'[p] = place
      /\ \A q \in Pids \ {p} : at'[q] = at[q]
  BY <1>0, <1>2 DEF ServiceTypeOK, Goes, Places, Acting, Armed
<1>4. ServiceTypeOK'
  <2>1. request' \in Asked
    BY <1>0, <1>2 DEF ServiceTypeOK, Asked
  <2>2. commands' \in 0 .. MaxCommands /\ mishaps' \in 0 .. MaxMishaps
    BY <1>0, <1>2 DEF ServiceTypeOK
  <2> QED BY <1>0, <1>2, <1>3, <2>1, <2>2 DEF ServiceTypeOK, Asked
<1>5. BellsFit'
  <2> SUFFICES ASSUME NEW q \in Pids, request'.heard = q, at'[q] \in {"pass", "wait"}
               PROVE  q \in bells'
    BY DEF BellsFit
  <2>1. request' = request
    BY <1>0, <1>2 DEF ServiceTypeOK
  <2>2. CASE q = p
    <3>1. place \in {"pass", "wait"} /\ request'.heard # NoPid
      BY <1>0, <1>3, <2>2
    <3>2. bells' = bells /\ at[p] = "pass"
      BY <1>2, <3>1
    <3> QED BY <2>1, <2>2, <3>2 DEF ServiceInv, BellsFit
  <2>3. CASE q # p
    BY <1>2, <1>3, <2>1, <2>3 DEF ServiceInv, BellsFit
  <2> QED BY <2>2, <2>3
<1> QED BY <1>2, <1>4, <1>5, ActsFits

LEMMA DropGuardFits ==
    ASSUME ServiceInv, NEW p \in Pids, DropGuard(p) PROVE ServiceInv'
<1>1. /\ at[p] = "closing" /\ pidfile' = NoPid /\ Goes(p, "exiting")
      /\ UNCHANGED <<terms, bells, byHand, guardLock, launchd, callers, request, downed, counts>>
  BY DEF DropGuard
<1>2. /\ Living' \subseteq Living /\ CallsFit' /\ DownFits'
      /\ at' \in [Pids -> Places] /\ at'[p] = "exiting"
      /\ \A q \in Pids \ {p} : at'[q] = at[q]
  BY <1>1, Steps DEF Places
<1>3. ServiceTypeOK'
  BY <1>1, <1>2 DEF ServiceInv, ServiceTypeOK, counts
<1>4. GuardFits'
  <2>0. NoPid \notin Pids
    BY ServiceAssumption DEF ServiceAssumption
  <2>1. \A q \in Pids \ {p} : at[q] \notin Acting
    BY <1>1 DEF ServiceInv, GuardFits, Acting
  <2>2. NoPid \notin Living'
    BY <2>0 DEF Living
  <2> QED BY <1>1, <1>2, <2>1, <2>2 DEF ServiceInv, GuardFits, Acting, Armed
<1>5. BellsFit'
  BY <1>1, <1>2 DEF ServiceInv, BellsFit
<1>6. JobFits'
  BY <1>1, <1>2 DEF ServiceInv, JobFits
<1> QED BY <1>2, <1>3, <1>4, <1>5, <1>6 DEF ServiceInv

LEMMA DiesFits ==
    ASSUME ServiceInv, NEW p \in Pids, at[p] # "dead", Dies(p), UNCHANGED counts \/ Mishap
    PROVE  ServiceInv'
<1>0. /\ ServiceTypeOK /\ NoPid \notin Pids
      /\ {MaxCommands, MaxMishaps} \subseteq Nat
  BY ServiceAssumption DEF ServiceInv, ServiceAssumption
<1>1. /\ Goes(p, "dead")
      /\ terms' = terms \ {p} /\ bells' = bells \ {p} /\ byHand' = byHand \ {p}
      /\ guardLock' = IF guardLock = p THEN NoPid ELSE guardLock
      /\ request' = [request EXCEPT !.heard = IF @ = p THEN NoPid ELSE @]
      /\ UNCHANGED <<pidfile, launchd, callers, downed>>
  BY DEF Dies
<1>2. /\ Living' \subseteq Living /\ CallsFit' /\ DownFits'
      /\ at' \in [Pids -> Places] /\ at'[p] = "dead"
      /\ \A q \in Pids \ {p} : at'[q] = at[q]
  BY <1>1, Steps DEF Places
<1>3. ServiceTypeOK'
  <2>1. request' \in Asked
    BY <1>0, <1>1 DEF ServiceTypeOK, Asked
  <2>2. commands' \in 0 .. MaxCommands /\ mishaps' \in 0 .. MaxMishaps
    BY <1>0 DEF ServiceTypeOK, Mishap, counts
  <2> QED BY <1>0, <1>1, <1>2, <2>1, <2>2 DEF ServiceTypeOK, Asked
<1>4. GuardFits'
  BY <1>0, <1>1, <1>2 DEF ServiceInv, GuardFits, Acting, Armed
<1>5. BellsFit'
  <2> SUFFICES ASSUME NEW q \in Pids, request'.heard = q, at'[q] \in {"pass", "wait"}
               PROVE  q \in bells'
    BY DEF BellsFit
  <2>1. q # p
    BY <1>2
  <2>2. request.heard = q
    BY <1>0, <1>1, <2>1 DEF ServiceTypeOK
  <2> QED BY <1>1, <1>2, <2>1, <2>2 DEF ServiceInv, BellsFit
<1>6. JobFits'
  BY <1>1, <1>2 DEF ServiceInv, JobFits
<1> QED BY <1>2, <1>3, <1>4, <1>5, <1>6 DEF ServiceInv

(* A new process: of a pid that nothing names.                             *)
LEMMA StartsFits ==
    ASSUME ServiceInv, NEW p \in Pids, Respawn(p) \/ RunByHand(p) PROVE ServiceInv'
<1>0. /\ ServiceTypeOK /\ NoPid \notin Pids
      /\ {MaxCommands, MaxMishaps} \subseteq Nat
  BY ServiceAssumption DEF ServiceInv, ServiceAssumption
<1>1. /\ at[p] = "dead" /\ p # pidfile /\ p # launchd.job
      /\ \A c \in Callers : p \notin {callers[c].first, callers[c].seen}
      /\ Goes(p, "start")
      /\ UNCHANGED <<terms, bells, pidfile, guardLock, callers, request, downed>>
  BY DEF Respawn, RunByHand, Free, Nameless
<1>2. /\ at' \in [Pids -> Places] /\ at'[p] = "start"
      /\ \A q \in Pids \ {p} : at'[q] = at[q]
  BY <1>0, <1>1 DEF ServiceTypeOK, Goes, Places, Unarmed
<1>3. Living' = Living \cup {p}
  BY <1>2 DEF Living
<1>4. \/ /\ launchd' = launchd /\ byHand' = byHand \cup {p}
         /\ commands < MaxCommands /\ commands' = commands + 1 /\ mishaps' = mishaps
      \/ /\ launchd.label = "loaded" /\ ~Alive(launchd.job)
         /\ launchd' = [launchd EXCEPT !.job = p] /\ byHand' = byHand \ {p}
         /\ UNCHANGED counts
  BY DEF Respawn, RunByHand, Costs
<1>5. launchd' \in Jobs /\ launchd'.label = launchd.label
  BY <1>0, <1>4 DEF ServiceTypeOK, Jobs
<1>6. ServiceTypeOK'
  <2>1. commands' \in 0 .. MaxCommands /\ mishaps' \in 0 .. MaxMishaps
    BY <1>0, <1>4 DEF ServiceTypeOK, counts
  <2>2. byHand' \subseteq Pids
    BY <1>0, <1>4 DEF ServiceTypeOK
  <2> QED BY <1>0, <1>1, <1>2, <1>5, <2>1, <2>2 DEF ServiceTypeOK, Jobs
<1>7. GuardFits'
  <2>1. pidfile \notin Living => pidfile \notin Living'
    BY <1>1, <1>3
  <2> QED BY <1>0, <1>1, <1>2, <2>1 DEF ServiceInv, GuardFits, Acting, Armed
<1>8. BellsFit'
  BY <1>1, <1>2 DEF ServiceInv, BellsFit
<1>9. JobFits'
  <2> SUFFICES ASSUME NEW q \in Pids, at'[q] \notin {"dead", "exiting", "closing"},
                      q \notin byHand', q \notin terms'
               PROVE  launchd'.label = "loaded" /\ launchd'.job = q
    BY DEF JobFits
  <2>1. CASE q = p
    BY <1>0, <1>4, <2>1 DEF ServiceTypeOK
  <2>2. CASE q # p
    <3>1. launchd.label = "loaded" /\ launchd.job = q
      BY <1>1, <1>2, <1>4, <2>2 DEF ServiceInv, JobFits
    <3>2. launchd' = launchd
      BY <1>2, <1>4, <2>2, <3>1 DEF Alive
    <3> QED BY <3>1, <3>2
  <2> QED BY <2>1, <2>2
<1>10. CallsFit'
  <2>1. \A c \in Callers : callers[c].seen \notin Living => callers[c].seen \notin Living'
    BY <1>1, <1>3
  <2> QED BY <1>1, <1>5, <2>1, CallsStand DEF ServiceInv
<1>11. DownFits'
  BY <1>1, <1>5 DEF ServiceInv, DownFits
<1> QED BY <1>6, <1>7, <1>8, <1>9, <1>10, <1>11 DEF ServiceInv

LEMMA RequestFits ==
    ASSUME ServiceInv, Enqueue \/ Ring PROVE ServiceInv'
<1>0. /\ ServiceTypeOK /\ NoPid \notin Pids
      /\ {MaxCommands, MaxMishaps} \subseteq Nat
  BY ServiceAssumption DEF ServiceInv, ServiceAssumption
<1>1. UNCHANGED <<at, terms, byHand, pidfile, guardLock, launchd, callers, downed>>
  BY DEF Enqueue, Ring, processes
<1>2. CallsFit' /\ DownFits' /\ GuardFits' /\ JobFits'
  BY <1>1 DEF ServiceInv, CallsFit, Alone, DownFits, GuardFits, JobFits, Living
<1>3. ServiceTypeOK' /\ BellsFit'
  <2>1. CASE Enqueue
    <3>1. /\ request' \in Asked /\ request'.heard = request.heard
      BY <1>0, <2>1 DEF Enqueue, ServiceTypeOK, Asked
    <3>2. commands' \in 0 .. MaxCommands /\ mishaps' \in 0 .. MaxMishaps /\ bells' = bells
      BY <1>0, <2>1 DEF Enqueue, ServiceTypeOK, Costs, processes
    <3>3. ServiceTypeOK'
      BY <1>0, <1>1, <3>1, <3>2 DEF ServiceTypeOK, Asked
    <3> QED BY <1>1, <3>1, <3>2, <3>3 DEF ServiceInv, BellsFit
  <2>2. CASE Ring
    <3> DEFINE heard == Alive(pidfile) /\ at[pidfile] \in Armed
    <3>1. CASE heard
      <4>1. /\ bells' = bells \cup {pidfile} /\ pidfile \in Pids
            /\ request' = [request EXCEPT !.ringing = FALSE,
                              !.heard = IF request.queued THEN pidfile ELSE @]
        BY <2>2, <3>1 DEF Ring, Alive
      <4>2. request' \in Asked /\ request'.heard \in {pidfile, request.heard}
        BY <1>0, <4>1 DEF ServiceTypeOK, Asked
      <4>3. ServiceTypeOK'
        BY <1>0, <1>1, <2>2, <4>1, <4>2 DEF Ring, ServiceTypeOK, Asked, counts
      <4> QED BY <1>1, <4>1, <4>2, <4>3 DEF ServiceInv, BellsFit
    <3>2. CASE ~heard
      <4>1. bells' = bells /\ request' = [request EXCEPT !.ringing = FALSE]
        BY <1>0, <2>2, <3>2 DEF Ring, ServiceTypeOK
      <4>2. request' \in Asked /\ request'.heard = request.heard
        BY <1>0, <4>1 DEF ServiceTypeOK, Asked
      <4>3. ServiceTypeOK'
        BY <1>0, <1>1, <2>2, <4>1, <4>2 DEF Ring, ServiceTypeOK, Asked, counts
      <4> QED BY <1>1, <4>1, <4>2, <4>3 DEF ServiceInv, BellsFit
    <3> QED BY <3>1, <3>2
  <2> QED BY <2>1, <2>2
<1> QED BY <1>2, <1>3 DEF ServiceInv

LEMMA LeavesFits ==
    ASSUME ServiceInv, Leaves PROVE ServiceInv'
<1>1. /\ launchd.label = "leaving"
      /\ launchd' = [launchd EXCEPT !.label = "absent", !.job = NoPid]
      /\ UNCHANGED <<processes, callers, request, downed, counts>>
  BY DEF Leaves
<1>2. launchd' \in Jobs
  BY <1>1 DEF ServiceInv, ServiceTypeOK, Jobs
<1>3. ServiceTypeOK'
  BY <1>1, <1>2 DEF ServiceInv, ServiceTypeOK, Jobs, processes, counts
<1>4. GuardFits' /\ BellsFit'
  BY <1>1 DEF ServiceInv, GuardFits, BellsFit, Living, processes
<1>5. JobFits'
  BY <1>1 DEF ServiceInv, JobFits, processes
<1>6. CallsFit' /\ DownFits'
  <2>1. Living' = Living
    BY <1>1 DEF Living, processes
  <2> QED BY <1>1, <2>1, CallsStand DEF ServiceInv, DownFits
<1> QED BY <1>3, <1>4, <1>5, <1>6 DEF ServiceInv

(* What SIGTERM does to whom it reaches.                                   *)
LEMMA TermFits ==
    ASSUME ServiceInv, NEW some \in SUBSET (Pids \cup {NoPid}), SendTerm(some)
    PROVE  /\ Living' \subseteq Living
           /\ at' \in [Pids -> Places] /\ terms' \subseteq Pids /\ terms \subseteq terms'
           /\ guardLock' \in Pids \cup {NoPid}
           /\ GuardFits'
           /\ UNCHANGED request => BellsFit'
           /\ \A q \in Pids : \/ at'[q] = at[q] /\ (q \in some /\ at[q] \in Armed => q \in terms')
                              \/ q \in some /\ at'[q] = "dead"
<1>0. ServiceTypeOK /\ NoPid \notin Pids
  BY ServiceAssumption DEF ServiceInv, ServiceAssumption
<1>1. /\ at' = [p \in Pids |-> IF p \in some /\ at[p] \in Unarmed THEN "dead" ELSE at[p]]
      /\ terms' = terms \cup {p \in some : p \in Pids /\ at[p] \in Armed}
      /\ guardLock' = IF guardLock \in some THEN NoPid ELSE guardLock
      /\ UNCHANGED <<bells, byHand, pidfile>>
  BY DEF SendTerm
<1>2. \A q \in Pids : at'[q] = IF q \in some /\ at[q] \in Unarmed THEN "dead" ELSE at[q]
  BY <1>1
<1>3. at' \in [Pids -> Places]
  BY <1>0, <1>1 DEF ServiceTypeOK, Places
<1>4. Living' \subseteq Living
  BY <1>2 DEF Living
<1>5. terms' \subseteq Pids /\ terms \subseteq terms' /\ guardLock' \in Pids \cup {NoPid}
  BY <1>0, <1>1 DEF ServiceTypeOK
<1>6. GuardFits'
  <2> SUFFICES ASSUME NEW p \in Pids
               PROVE  /\ at'[p] \in Acting => pidfile' = p
                      /\ at'[p] \in {"checked", "removed"} <=> guardLock' = p
                      /\ at'[p] = "checked" => pidfile' \notin Living'
                      /\ at'[p] = "removed" => pidfile' = NoPid
    BY DEF GuardFits
  <2>1. CASE p \in some /\ at[p] \in Unarmed
    <3>1. at'[p] = "dead"
      BY <1>2, <2>1
    <3>2. guardLock' # p
      BY <1>0, <1>1, <2>1
    <3> QED BY <3>1, <3>2 DEF Acting, Armed
  <2>2. CASE ~(p \in some /\ at[p] \in Unarmed)
    <3>1. at'[p] = at[p]
      BY <1>2, <2>2
    <3>2. guardLock = p => guardLock' = p
      BY <1>1, <2>2 DEF ServiceInv, GuardFits, Unarmed
    <3>3. guardLock' = p => guardLock = p
      BY <1>0, <1>1
    <3> QED BY <1>1, <1>4, <3>1, <3>2, <3>3 DEF ServiceInv, GuardFits
  <2> QED BY <2>1, <2>2
<1>7. UNCHANGED request => BellsFit'
  BY <1>1, <1>2 DEF ServiceInv, BellsFit
<1>8. ASSUME NEW q \in Pids
      PROVE  \/ at'[q] = at[q] /\ (q \in some /\ at[q] \in Armed => q \in terms')
             \/ q \in some /\ at'[q] = "dead"
  BY <1>1, <1>2
<1> QED BY <1>3, <1>4, <1>5, <1>6, <1>7, <1>8

(* A step of a command that leaves the processes and launchd alone.        *)
LEMMA Asks ==
    ASSUME ServiceInv, UNCHANGED <<processes, launchd, request>>,
           ServiceTypeOK', CallsFit', DownFits'
    PROVE  ServiceInv'
BY DEF ServiceInv, GuardFits, BellsFit, JobFits, Living, processes

LEMMA AskTypes ==
    ASSUME ServiceTypeOK, UNCHANGED <<processes, launchd, request>>,
           callers' \in [Callers -> Calls], downed' \in BOOLEAN, UNCHANGED counts \/ Mishap
    PROVE  ServiceTypeOK'
<1>1. {MaxCommands, MaxMishaps} \subseteq Nat
  BY ServiceAssumption DEF ServiceAssumption
<1>2. commands' \in 0 .. MaxCommands /\ mishaps' \in 0 .. MaxMishaps
  BY <1>1 DEF ServiceTypeOK, counts, Mishap
<1> QED BY <1>2 DEF ServiceTypeOK, processes, Calls

(* ... by a command that has begun: nothing is down for good.              *)
LEMMA AsksOn ==
    ASSUME ServiceInv, NEW c \in Callers, callers[c].at # "idle",
           UNCHANGED <<processes, launchd, request, downed>>, UNCHANGED counts \/ Mishap,
           \/ \E word \in Words : Says(c, word)
           \/ \E place \in CommandSteps \ {"idle"} :
                  /\ Turn(c, place)
                  /\ Fits([callers[c] EXCEPT !.at = place], launchd.label, Living)
    PROVE  ServiceInv'
<1>1. Living' = Living
  BY DEF Living, processes
<1>2. CallsFit' /\ callers' \in [Callers -> Calls]
  <2>1. CASE \E word \in Words : Says(c, word)
    BY <1>1, <2>1, Ends DEF ServiceInv
  <2>2. CASE \E place \in CommandSteps \ {"idle"} :
                  /\ Turn(c, place)
                  /\ Fits([callers[c] EXCEPT !.at = place], launchd.label, Living)
    BY <1>1, <2>2, GoesOn DEF ServiceInv
  <2> QED BY <2>1, <2>2
<1>3. ~downed'
  BY DEF ServiceInv, DownFits
<1>4. ServiceTypeOK'
  BY <1>2, AskTypes DEF ServiceInv, ServiceTypeOK
<1> QED BY <1>2, <1>3, <1>4, Asks DEF DownFits

(* ... and that learns something, or changes its mind.                     *)
LEMMA AsksMore ==
    ASSUME ServiceInv, NEW c \in Callers, callers[c].at # "idle",
           UNCHANGED <<processes, launchd, request, downed>>, UNCHANGED counts \/ Mishap,
           NEW k \in Calls,
           callers' = [callers EXCEPT ![c] = k], k.alone => callers[c].alone,
           Fits(k, launchd.label, Living)
    PROVE  ServiceInv'
<1>1. Living' = Living
  BY DEF Living, processes
<1>2. CallsFit' /\ callers' \in [Callers -> Calls]
  BY <1>1, CallTypes, OneTurns DEF ServiceInv
<1>3. ~downed'
  BY DEF ServiceInv, DownFits
<1>4. ServiceTypeOK'
  BY <1>2, AskTypes DEF ServiceInv, ServiceTypeOK
<1> QED BY <1>2, <1>3, <1>4, Asks DEF DownFits

LEMMA CallFacts ==
    ASSUME ServiceInv, NEW c \in Callers
    PROVE  /\ callers[c] \in Calls /\ callers \in [Callers -> Calls]
           /\ Fits(callers[c], launchd.label, Living)
           /\ NoPid \notin Living /\ NoPid \notin Pids
           /\ pidfile \in Pids \cup {NoPid} /\ launchd.job \in Pids \cup {NoPid}
BY CallTypes, ServiceAssumption
   DEF ServiceInv, CallsFit, Living, ServiceAssumption, ServiceTypeOK

LEMMA ProbeFits ==
    ASSUME ServiceInv, NEW c \in Callers, Probe(c) PROVE ServiceInv'
<1>1. /\ callers[c].at = "probe" /\ UNCHANGED <<processes, launchd, request, downed>>
      /\ UNCHANGED counts \/ Mishap
  BY DEF Probe, Doing
<1>2. PICK state \in {State, "unloaded"} : Chooses(c, state)
  BY DEF Probe
<1>3. /\ callers[c] \in Calls /\ callers[c].seen = NoPid /\ NoPid \notin Living
      /\ ~callers[c].gone /\ callers[c].said = ""
      /\ callers[c].cmd = "stop" => callers[c].first = NoPid
  BY <1>1, CallFacts DEF Fits
<1>4. ASSUME NEW place \in {"seen", "manual", "load", "first", "rewrite", "write"},
             Turn(c, place),
             place = "seen" \/ place = "manual" => callers[c].cmd = "stop",
             place = "first" => callers[c].cmd = "restart"
      PROVE  ServiceInv'
  <2> DEFINE k == [callers[c] EXCEPT !.at = place]
  <2>1. /\ k.at = place /\ k.seen = NoPid /\ ~k.gone /\ k.said = ""
        /\ k.cmd = callers[c].cmd /\ k.first = callers[c].first
    BY <1>3 DEF Calls
  <2>2. Fits(k, launchd.label, Living)
    BY <1>3, <1>4, <2>1 DEF Fits
  <2>3. place \in CommandSteps \ {"idle"}
    BY DEF CommandSteps
  <2> QED BY <1>1, <1>4, <2>2, <2>3, AsksOn
<1>5. ASSUME NEW word \in {"not installed", "already running", "left as is"}, Says(c, word)
      PROVE  ServiceInv'
  BY <1>1, <1>5, AsksOn DEF Words
<1>6. ASSUME callers' = [callers EXCEPT ![c].cmd = "start", ![c].at = "load"]
      PROVE  ServiceInv'
  <2> DEFINE k == [callers[c] EXCEPT !.cmd = "start", !.at = "load"]
  <2>1. /\ k.at = "load" /\ k.seen = NoPid /\ ~k.gone /\ k.said = "" /\ k.cmd = "start"
        /\ k \in Calls /\ (k.alone => callers[c].alone)
    BY <1>3 DEF Calls, CommandSteps, Orderable
  <2>2. Fits(k, launchd.label, Living)
    BY <1>3, <2>1 DEF Fits
  <2>3. callers' = [callers EXCEPT ![c] = k]
    BY <1>6, CallFacts
  <2> HIDE DEF k
  <2> QED BY <1>1, <1>6, <2>1, <2>2, <2>3, AsksMore
<1>7. CASE callers[c].cmd = "stop" /\ Turn(c, StopsBy(state))
  <2>1. StopsBy(state) \in {"seen", "manual"}
    BY DEF StopsBy
  <2> QED BY <1>4, <1>7, <2>1
<1>8. CASE callers[c].cmd = "restart" /\ Turn(c, "first")
  BY <1>4, <1>8
<1>9. CASE Installs(c, state)
  <2>1. \/ Says(c, "left as is")
        \/ \E place \in {"rewrite", "write"} : Turn(c, place)
    BY <1>9 DEF Installs
  <2> QED BY <1>4, <1>5, <2>1
<1>10. \/ callers[c].cmd = "stop" /\ Turn(c, StopsBy(state))
       \/ Says(c, "not installed") \/ Says(c, "already running")
       \/ callers' = [callers EXCEPT ![c].cmd = "start", ![c].at = "load"]
       \/ callers[c].cmd = "restart" /\ Turn(c, "first")
       \/ Installs(c, state)
  BY <1>2, Zenon DEF Chooses
<1> QED BY <1>5, <1>6, <1>7, <1>8, <1>9, <1>10

LEMMA ReadsFits ==
    ASSUME ServiceInv, NEW c \in Callers, ReadsFirst(c) \/ ReadsSeen(c) \/ ReadsManual(c)
    PROVE  ServiceInv'
<1>0. /\ callers[c] \in Calls /\ callers \in [Callers -> Calls] /\ pidfile \in Pids \cup {NoPid}
      /\ Fits(callers[c], launchd.label, Living)
  BY CallFacts
<1>1. CASE ReadsFirst(c)
  <2> DEFINE k == [callers[c] EXCEPT !.at = "seen", !.first = pidfile]
  <2>1. k \in Calls /\ Fits(k, launchd.label, Living) /\ (k.alone => callers[c].alone)
    BY <1>0, <1>1 DEF ReadsFirst, Doing, Fits, Calls, CommandSteps
  <2>2. /\ callers' = [callers EXCEPT ![c] = k] /\ callers[c].at # "idle"
        /\ UNCHANGED <<processes, launchd, request, downed, counts>>
    BY <1>0, <1>1 DEF ReadsFirst, Doing
  <2> HIDE DEF k
  <2> QED BY <2>1, <2>2, AsksMore
<1>2. CASE ReadsSeen(c)
  <2> DEFINE k == [callers[c] EXCEPT !.at = "teardown", !.seen = pidfile]
  <2>1. k \in Calls /\ Fits(k, launchd.label, Living) /\ (k.alone => callers[c].alone)
    BY <1>0, <1>2 DEF ReadsSeen, Doing, Fits, Calls, CommandSteps
  <2>2. /\ callers' = [callers EXCEPT ![c] = k] /\ callers[c].at # "idle"
        /\ UNCHANGED <<processes, launchd, request, downed, counts>>
    BY <1>0, <1>2 DEF ReadsSeen, Doing
  <2> HIDE DEF k
  <2> QED BY <2>1, <2>2, AsksMore
<1>3. CASE ReadsManual(c)
  <2>1. callers[c].at = "manual" /\ UNCHANGED <<processes, launchd, request, downed, counts>>
    BY <1>3 DEF ReadsManual, Doing
  <2>2. CASE Says(c, "not running")
    BY <2>1, <2>2, AsksOn DEF Words
  <2>3. CASE callers' = [callers EXCEPT ![c].at = "signal", ![c].seen = pidfile]
    <3> DEFINE k == [callers[c] EXCEPT !.at = "signal", !.seen = pidfile]
    <3>1. k \in Calls /\ Fits(k, launchd.label, Living) /\ (k.alone => callers[c].alone)
      BY <1>0, <2>1 DEF Fits, Calls, CommandSteps
    <3>2. callers' = [callers EXCEPT ![c] = k]
      BY <1>0, <2>3
    <3> HIDE DEF k
    <3> QED BY <2>1, <3>1, <3>2, AsksMore
  <2> QED BY <1>3, <2>2, <2>3 DEF ReadsManual
<1> QED BY <1>1, <1>2, <1>3

(* The waits, and what confirms or verifies.                               *)
LEMMA SettleFits ==
    ASSUME ServiceInv, NEW c \in Callers, Settle(c) PROVE ServiceInv'
<1>0. /\ callers[c] \in Calls /\ callers \in [Callers -> Calls] /\ NoPid \notin Living
      /\ Fits(callers[c], launchd.label, Living)
  BY CallFacts
<1>1. /\ callers[c].at = "settle" /\ UNCHANGED <<processes, launchd, request, downed, counts>>
  BY DEF Settle, Doing
<1>2. ASSUME callers[c].cmd = "install", Turn(c, "load") PROVE ServiceInv'
  <2>1. Fits([callers[c] EXCEPT !.at = "load"], launchd.label, Living)
    BY <1>0, <1>1, <1>2 DEF Fits, Calls
  <2>2. "load" \in CommandSteps \ {"idle"}
    BY DEF CommandSteps
  <2> QED BY <1>1, <1>2, <2>1, <2>2, AsksOn
<1>3. ASSUME Turn(c, "await") PROVE ServiceInv'
  <2>1. Fits([callers[c] EXCEPT !.at = "await"], launchd.label, Living)
    BY <1>0, <1>1 DEF Fits, Calls
  <2>2. "await" \in CommandSteps \ {"idle"}
    BY DEF CommandSteps
  <2> QED BY <1>1, <1>3, <2>1, <2>2, AsksOn
<1>4. ASSUME launchd.label = "absent",
             callers' = [callers EXCEPT ![c].at = "await", ![c].gone = TRUE]
      PROVE  ServiceInv'
  <2> DEFINE k == [callers[c] EXCEPT !.at = "await", !.gone = TRUE]
  <2>1. k \in Calls /\ Fits(k, launchd.label, Living) /\ (k.alone => callers[c].alone)
    BY <1>0, <1>1, <1>4 DEF Fits, Calls, CommandSteps
  <2>2. callers' = [callers EXCEPT ![c] = k]
    BY <1>0, <1>4
  <2> HIDE DEF k
  <2> QED BY <1>1, <2>1, <2>2, AsksMore
<1>5. ASSUME Says(c, "error") PROVE ServiceInv'
  BY <1>1, <1>5, AsksOn DEF Words
<1>6. \/ callers[c].cmd = "install" /\ Turn(c, "load")
      \/ Turn(c, "await") \/ Says(c, "error")
      \/ /\ launchd.label = "absent"
         /\ callers' = [callers EXCEPT ![c].at = "await", ![c].gone = TRUE]
  BY DEF Settle
<1> QED BY <1>2, <1>3, <1>4, <1>5, <1>6

LEMMA AwaitFits ==
    ASSUME ServiceInv, ~SlowProbes, NEW c \in Callers, Await(c) PROVE ServiceInv'
<1>0. /\ callers[c] \in Calls /\ callers \in [Callers -> Calls] /\ NoPid \notin Pids
      /\ Fits(callers[c], launchd.label, Living) /\ ServiceTypeOK
  BY CallFacts DEF ServiceInv
<1>1. callers[c].at = "await" /\ UNCHANGED <<processes, launchd, request, counts>>
  BY DEF Await, Doing
<1>2. ASSUME Stopped(c), Says(c, "stopped"), downed' = callers[c].alone PROVE ServiceInv'
  <2>1. Living' = Living
    BY <1>1 DEF Living, processes
  <2>2. CallsFit' /\ callers' \in [Callers -> Calls]
    BY <1>0, <1>1, <1>2, <2>1, Ends DEF ServiceInv, Words
  <2>3. downed' => launchd'.label = "absent"
    BY <1>0, <1>1, <1>2 DEF Stopped, Fits
  <2>4. downed' => \A d \in Callers : callers'[d].at = "idle"
    BY <1>0, <1>2 DEF ServiceInv, CallsFit, Alone, Says, Ended
  <2>5. downed' \in BOOLEAN
    BY <1>0, <1>2 DEF Calls
  <2>6. ServiceTypeOK'
    BY <1>0, <1>1, <2>2, <2>5, AskTypes
  <2> QED BY <1>1, <2>2, <2>3, <2>4, <2>6, Asks DEF DownFits
<1>3. ASSUME Stopped(c), Turn(c, "load"), UNCHANGED downed PROVE ServiceInv'
  <2>1. callers[c].seen \notin Living
    BY <1>0, <1>3 DEF Stopped, Alive, Living
  <2>2. Fits([callers[c] EXCEPT !.at = "load"], launchd.label, Living)
    BY <1>0, <1>1, <2>1 DEF Fits, Calls
  <2>3. "load" \in CommandSteps \ {"idle"}
    BY DEF CommandSteps
  <2> QED BY <1>1, <1>3, <2>2, <2>3, AsksOn
<1>4. ASSUME NEW word \in Words, Says(c, word), UNCHANGED downed PROVE ServiceInv'
  BY <1>1, <1>4, AsksOn
<1>5. \/ Stopped(c) /\ Says(c, "stopped") /\ downed' = callers[c].alone
      \/ Stopped(c) /\ Turn(c, "load") /\ UNCHANGED downed
      \/ \E word \in Words : Says(c, word) /\ UNCHANGED downed
  BY DEF Await, Words
<1> QED BY <1>2, <1>3, <1>4, <1>5

LEMMA ConfirmsFits ==
    ASSUME ServiceInv, NEW c \in Callers,
           Confirms(c) \/ Verify(c) \/ WatchesPid(c) \/ FailsToRun(c)
    PROVE  ServiceInv'
<1>0. /\ callers[c] \in Calls /\ Fits(callers[c], launchd.label, Living)
  BY CallFacts
<1>1. /\ callers[c].at # "idle" /\ UNCHANGED <<processes, launchd, request, downed>>
      /\ UNCHANGED counts \/ Mishap
  BY DEF Confirms, Verify, WatchesPid, FailsToRun, Doing
<1>2. ASSUME NEW word \in Words, Says(c, word) PROVE ServiceInv'
  BY <1>1, <1>2, AsksOn
<1>3. ASSUME callers[c].at = "confirm", Turn(c, "verify") PROVE ServiceInv'
  <2>1. Fits([callers[c] EXCEPT !.at = "verify"], launchd.label, Living)
    BY <1>0, <1>3 DEF Fits, Calls
  <2>2. "verify" \in CommandSteps \ {"idle"}
    BY DEF CommandSteps
  <2> QED BY <1>1, <1>3, <2>1, <2>2, AsksOn
<1>4. \/ \E word \in Words : Says(c, word)
      \/ callers[c].at = "confirm" /\ Turn(c, "verify")
  <2>1. CASE Confirms(c)
    BY <2>1 DEF Confirms, Words, Doing
  <2>2. CASE Verify(c)
    BY <2>2 DEF Verify, Words
  <2>3. CASE WatchesPid(c)
    BY <2>3 DEF WatchesPid, Words
  <2>4. CASE FailsToRun(c)
    BY <2>4 DEF FailsToRun, Words
  <2> QED BY <2>1, <2>2, <2>3, <2>4
<1> QED BY <1>2, <1>3, <1>4

(* The steps on launchd, and those that send SIGTERM.                      *)
LEMMA LoadsFits ==
    ASSUME ServiceInv, NEW c \in Callers, WritesPlist(c) \/ Bootstraps(c) PROVE ServiceInv'
<1>0. /\ callers[c] \in Calls /\ Fits(callers[c], launchd.label, Living) /\ ServiceTypeOK
      /\ NoPid \notin Living
  BY CallFacts DEF ServiceInv
<1>1. /\ callers[c].at \in {"write", "rewrite", "load"}
      /\ UNCHANGED <<processes, request, downed, counts>>
  BY DEF WritesPlist, Bootstraps, Doing
<1>2. Living' = Living
  BY <1>1 DEF Living, processes
<1>3. /\ launchd' \in Jobs
      /\ \/ launchd'.label = launchd.label /\ launchd'.job = launchd.job
         \/ launchd.label = "absent"
  BY <1>0 DEF WritesPlist, Bootstraps, ServiceTypeOK, Jobs
<1>4. CallsFit' /\ callers' \in [Callers -> Calls]
  <2>1. ASSUME NEW word \in Words, Says(c, word)
        PROVE  CallsFit' /\ callers' \in [Callers -> Calls]
    BY <1>0, <1>1, <1>2, <2>1, Ends DEF ServiceInv
  <2>2. ASSUME NEW place \in {"load", "teardown", "confirm"}, Turn(c, place),
               place = "confirm" <=> callers[c].at = "load"
        PROVE  CallsFit' /\ callers' \in [Callers -> Calls]
    <3>1. Fits([callers[c] EXCEPT !.at = place], launchd'.label, Living')
      BY <1>0, <1>1, <1>2, <2>2 DEF Fits, Calls
    <3>2. place \in CommandSteps \ {"idle"}
      BY DEF CommandSteps
    <3> QED BY <1>0, <1>1, <1>2, <2>2, <3>1, <3>2, GoesOn DEF ServiceInv
  <2>3. CASE WritesPlist(c)
    <3>1. Executes(c) /\ callers[c].at # "load"
      BY <2>3 DEF WritesPlist, Doing
    <3>2. \/ Says(c, "written") \/ Turn(c, "load") \/ Turn(c, "teardown")
      BY <3>1 DEF Executes
    <3> QED BY <2>1, <2>2, <3>1, <3>2 DEF Words
  <2>4. CASE Bootstraps(c)
    <3>1. \/ Says(c, "error")
          \/ Turn(c, "confirm") /\ callers[c].at = "load"
      BY <2>4 DEF Bootstraps, Doing
    <3> QED BY <2>1, <2>2, <3>1 DEF Words
  <2> QED BY <2>3, <2>4
<1>5. ~downed'
  BY <1>1 DEF ServiceInv, DownFits
<1>6. ServiceTypeOK'
  BY <1>0, <1>1, <1>3, <1>4 DEF ServiceTypeOK, Jobs, Calls, processes, counts
<1>7. GuardFits' /\ BellsFit'
  BY <1>1, <1>2 DEF ServiceInv, GuardFits, BellsFit, processes
<1>8. JobFits'
  BY <1>1, <1>3 DEF ServiceInv, JobFits, processes
<1> QED BY <1>4, <1>5, <1>6, <1>7, <1>8 DEF ServiceInv, DownFits

LEMMA TeardownFits ==
    ASSUME ServiceInv, NEW c \in Callers, Teardown(c) PROVE ServiceInv'
<1>0. /\ callers[c] \in Calls /\ Fits(callers[c], launchd.label, Living) /\ ServiceTypeOK
      /\ launchd.job \in Pids \cup {NoPid}
  BY CallFacts DEF ServiceInv
<1>1. /\ callers[c].at = "teardown" /\ UNCHANGED <<request, downed, counts>> /\ Turn(c, "settle")
  BY DEF Teardown, Doing
<1>2. "settle" \in CommandSteps \ {"idle"}
  BY DEF CommandSteps
<1>3. CASE launchd.label = "loaded"
  <2>1. SendTerm({launchd.job}) /\ launchd' = [launchd EXCEPT !.label = "leaving"]
    BY <1>3 DEF Teardown
  <2>2. {launchd.job} \in SUBSET (Pids \cup {NoPid})
    BY <1>0
  <2>3. UNCHANGED <<bells, byHand, pidfile>>
    BY <2>1 DEF SendTerm
  <2>4. /\ Living' \subseteq Living
        /\ at' \in [Pids -> Places] /\ terms' \subseteq Pids /\ terms \subseteq terms'
        /\ guardLock' \in Pids \cup {NoPid} /\ GuardFits' /\ BellsFit'
    BY <1>1, <2>1, <2>2, TermFits
  <2>5. Fits([callers[c] EXCEPT !.at = "settle"], launchd'.label, Living')
    BY <1>0, <1>1 DEF Fits, Calls
  <2>6. CallsFit' /\ callers' \in [Callers -> Calls]
    BY <1>0, <1>1, <1>2, <2>4, <2>5, GoesOn DEF ServiceInv
  <2>7. launchd' \in Jobs
    BY <1>0, <2>1 DEF ServiceTypeOK, Jobs
  <2>8. ServiceTypeOK'
    BY <1>0, <1>1, <2>3, <2>4, <2>6, <2>7 DEF ServiceTypeOK, Jobs, Calls, counts
  <2>9. JobFits'
    <3> SUFFICES ASSUME NEW q \in Pids, at'[q] \notin {"dead", "exiting", "closing"},
                        q \notin byHand', q \notin terms'
                 PROVE  FALSE
      BY DEF JobFits
    <3>1. at'[q] = at[q] /\ (q \in {launchd.job} /\ at[q] \in Armed => q \in terms')
      BY <2>1, <2>2, TermFits
    <3>2. launchd.job = q
      BY <2>3, <2>4, <3>1 DEF ServiceInv, JobFits
    <3>3. at[q] \in Unarmed \cup Armed
      BY <1>0, <3>1 DEF ServiceTypeOK, Places, Unarmed, Acting, Armed
    <3>4. at[q] \in Unarmed => at'[q] = "dead"
      BY <2>1, <3>2 DEF SendTerm
    <3> QED BY <3>1, <3>2, <3>3, <3>4
  <2>10. ~downed'
    BY <1>1 DEF ServiceInv, DownFits
  <2> QED BY <2>4, <2>6, <2>8, <2>9, <2>10 DEF ServiceInv, DownFits
<1>4. CASE launchd.label # "loaded"
  <2>1. UNCHANGED <<processes, launchd>>
    BY <1>4 DEF Teardown
  <2>2. Fits([callers[c] EXCEPT !.at = "settle"], launchd.label, Living)
    BY <1>0, <1>1 DEF Fits, Calls
  <2> QED BY <1>1, <1>2, <2>1, <2>2, AsksOn
<1> QED BY <1>3, <1>4

LEMMA SignalFits ==
    ASSUME ServiceInv, NEW c \in Callers, Signal(c) PROVE ServiceInv'
<1>0. /\ callers[c] \in Calls /\ Fits(callers[c], launchd.label, Living) /\ ServiceTypeOK
  BY CallFacts DEF ServiceInv
<1>1. callers[c].at = "signal" /\ UNCHANGED <<launchd, request, downed, counts>>
  BY DEF Signal, Doing
<1>2. CASE SendTerm({callers[c].seen}) /\ Turn(c, "watch")
  <2>1. {callers[c].seen} \in SUBSET (Pids \cup {NoPid})
    BY <1>0 DEF Calls
  <2>2. UNCHANGED <<bells, byHand, pidfile>>
    BY <1>2 DEF SendTerm
  <2>3. /\ Living' \subseteq Living
        /\ at' \in [Pids -> Places] /\ terms' \subseteq Pids /\ terms \subseteq terms'
        /\ guardLock' \in Pids \cup {NoPid} /\ GuardFits' /\ BellsFit'
    BY <1>1, <1>2, <2>1, TermFits
  <2>4. Fits([callers[c] EXCEPT !.at = "watch"], launchd'.label, Living')
    BY <1>0, <1>1 DEF Fits, Calls
  <2>5. "watch" \in CommandSteps \ {"idle"}
    BY DEF CommandSteps
  <2>6. CallsFit' /\ callers' \in [Callers -> Calls]
    BY <1>0, <1>1, <1>2, <2>3, <2>4, <2>5, GoesOn DEF ServiceInv
  <2>7. ServiceTypeOK'
    BY <1>0, <1>1, <2>2, <2>3, <2>6 DEF ServiceTypeOK, Calls, counts
  <2>8. JobFits'
    <3>1. \A q \in Pids : at'[q] = at[q] \/ at'[q] = "dead"
      BY <1>2, <2>1, TermFits
    <3> QED BY <1>1, <2>2, <2>3, <3>1 DEF ServiceInv, JobFits
  <2>9. ~downed'
    BY <1>1 DEF ServiceInv, DownFits
  <2> QED BY <2>3, <2>6, <2>7, <2>8, <2>9 DEF ServiceInv, DownFits
<1>3. CASE Says(c, "error") /\ UNCHANGED processes
  BY <1>1, <1>3, AsksOn DEF Words
<1> QED BY <1>2, <1>3 DEF Signal

LEMMA OrdersFits ==
    ASSUME ServiceInv, NEW c \in Callers, NEW cmd \in Orderable, Orders(c, cmd) PROVE ServiceInv'
<1>0. /\ callers \in [Callers -> Calls] /\ ServiceTypeOK /\ {MaxCommands, MaxMishaps} \subseteq Nat
  BY CallTypes, ServiceAssumption DEF ServiceInv, ServiceAssumption
<1> DEFINE lone == \A e \in Callers \ {c} : callers[e].at = "idle"
           k == [Ended("") EXCEPT !.cmd = cmd, !.at = "probe", !.alone = lone]
<1>1. /\ callers[c].at = "idle" /\ Costs /\ downed' = FALSE
      /\ UNCHANGED <<processes, launchd, request>>
      /\ callers' = [d \in Callers |-> IF d = c THEN k ELSE [callers[d] EXCEPT !.alone = FALSE]]
  BY DEF Orders
<1>2. Living' = Living
  BY <1>1 DEF Living, processes
<1>3. lone \in BOOLEAN
  OBVIOUS
<1>4. /\ k \in Calls /\ k.alone = lone /\ k.at = "probe" /\ ~k.gone /\ k.said = ""
      /\ k.cmd = cmd /\ k.first = NoPid /\ k.seen = NoPid
  <2> HIDE DEF lone
  <2> QED BY <1>3 DEF Ended, Calls, CommandSteps, Words
<1>5. k.alone => lone
  BY <1>4
<1>6. Fits(k, launchd'.label, Living')
  <2> HIDE DEF k, lone
  <2> QED BY <1>4 DEF Fits
<1>7. callers'[c] = k /\ \A d \in Callers \ {c} : callers'[d] = [callers[d] EXCEPT !.alone = FALSE]
  BY <1>1
<1> HIDE DEF k
<1>8. \A d \in Callers \ {c} : /\ callers'[d] \in Calls /\ ~callers'[d].alone
                                /\ callers'[d].at = callers[d].at
  BY <1>0, <1>7 DEF Calls
<1>9. \A d \in Callers \ {c} : Fits(callers'[d], launchd'.label, Living')
  <2> TAKE d \in Callers \ {c}
  <2>1. Fits(callers[d], launchd.label, Living) /\ callers[d] \in Calls
    BY CallFacts
  <2> QED BY <1>1, <1>2, <1>7, <2>1 DEF Fits, Calls
<1>10. CallsFit'
  BY <1>5, <1>6, <1>7, <1>8, <1>9 DEF CallsFit, Alone
<1>11. callers' \in [Callers -> Calls]
  BY <1>1, <1>4, <1>7, <1>8
<1>12. ServiceTypeOK'
  <2>1. commands' \in 0 .. MaxCommands /\ mishaps' \in 0 .. MaxMishaps
    BY <1>0, <1>1 DEF ServiceTypeOK, Costs
  <2> QED BY <1>0, <1>1, <1>11, <2>1 DEF ServiceTypeOK, processes, Calls
<1>13. DownFits'
  BY <1>1 DEF DownFits
<1> QED BY <1>1, <1>10, <1>12, <1>13, Asks

-----------------------------------------------------------------------------
(* The invariant, and what follows                                         *)

LEMMA ServiceBegins == ServiceInit => ServiceInv
<1> SUFFICES ASSUME ServiceInit PROVE ServiceInv
  OBVIOUS
<1>0. NoPid \notin Pids /\ {MaxCommands, MaxMishaps} \subseteq Nat
  BY ServiceAssumption DEF ServiceAssumption
<1> DEFINE k == Ended("")
<1>1. /\ k \in Calls /\ ~k.alone /\ ~k.gone /\ k.at = "idle" /\ k.cmd = "none"
  BY DEF Ended, Calls, CommandSteps, Words
<1>2. callers = [c \in Callers |-> k]
  BY DEF ServiceInit
<1> HIDE DEF k
<1>3. \A c \in Callers : callers[c] = k
  BY <1>2
<1>4. CallsFit
  BY <1>1, <1>3 DEF CallsFit, Fits, Alone
<1>5. callers \in [Callers -> Calls]
  BY <1>1, <1>2
<1>6. ServiceTypeOK
  <2>1. launchd \in Jobs
    BY DEF ServiceInit, Jobs
  <2>2. at \in [Pids -> Places]
    BY DEF ServiceInit, Places
  <2>3. request \in Asked
    BY DEF ServiceInit, Asked
  <2>4. /\ terms = {} /\ bells = {} /\ byHand = {} /\ pidfile = NoPid /\ guardLock = NoPid
        /\ downed = FALSE /\ commands = 0 /\ mishaps = 0
    BY DEF ServiceInit
  <2>5. downed \in BOOLEAN /\ commands \in 0 .. MaxCommands /\ mishaps \in 0 .. MaxMishaps
    <3>1. downed \in BOOLEAN
      BY <2>4
    <3>2. MaxCommands \in Nat /\ MaxMishaps \in Nat
      BY <1>0
    <3>3. commands \in 0 .. MaxCommands
      <4>1. commands = 0
        BY <2>4
      <4> QED BY <3>2, <4>1
    <3>4. mishaps \in 0 .. MaxMishaps
      <4>1. mishaps = 0
        BY <2>4
      <4> QED BY <3>2, <4>1
    <3> QED BY <3>1, <3>3, <3>4
  <2>6. /\ terms \subseteq Pids /\ bells \subseteq Pids /\ byHand \subseteq Pids
        /\ pidfile \in Pids \cup {NoPid} /\ guardLock \in Pids \cup {NoPid}
    BY <2>4
  <2> QED BY <1>5, <2>1, <2>2, <2>3, <2>5, <2>6, Zenon DEF ServiceTypeOK, Calls, Jobs, Asked
<1>7. GuardFits /\ BellsFit /\ JobFits /\ DownFits
  <2>1. /\ guardLock = NoPid /\ request.heard = NoPid /\ launchd.job = NoPid /\ ~downed
        /\ bells = {} /\ terms = {} /\ byHand = {} /\ pidfile = NoPid
    BY DEF ServiceInit
  <2>2. \A p \in Pids : at[p] = "dead"
    BY DEF ServiceInit
  <2> QED BY <1>0, <2>1, <2>2 DEF GuardFits, BellsFit, JobFits, DownFits, Acting, Armed
<1> QED BY <1>4, <1>6, <1>7 DEF ServiceInv

LEMMA ServiceKeeps ==
    ASSUME ServiceInv, ~SlowProbes, [ServiceStep]_serviceVars PROVE ServiceInv'
<1>1. ASSUME NEW p \in Pids, Runs(p) \/ Shutdown(p) PROVE ServiceInv'
  BY <1>1, AcquireFits, RemovesFits, WritesFits, WithinFits, DropGuardFits, DiesFits
     DEF Runs, Exits
<1>2. ASSUME NEW p \in Pids, Respawn(p) \/ RunByHand(p) PROVE ServiceInv'
  BY <1>2, StartsFits
<1>3. ASSUME NEW p \in Pids, Killed(p) PROVE ServiceInv'
  BY <1>3, DiesFits DEF Killed, Alive
<1>4. ASSUME NEW c \in Callers, Advances(c) PROVE ServiceInv'
  BY <1>4, ProbeFits, ReadsFits, SettleFits, AwaitFits, ConfirmsFits, LoadsFits,
     TeardownFits, SignalFits DEF Advances
<1>5. CASE UNCHANGED serviceVars
  BY <1>5 DEF ServiceInv, ServiceTypeOK, GuardFits, BellsFit, JobFits, CallsFit, Alone, DownFits,
              Living, serviceVars, processes, counts
<1> QED BY <1>1, <1>2, <1>3, <1>4, <1>5, OrdersFits, RequestFits, LeavesFits DEF ServiceStep

LEMMA OwnersNamed == ASSUME ServiceInv, NEW p \in Owners PROVE pidfile = p
BY DEF ServiceInv, GuardFits, Owners

LEMMA DownMeans == ServiceInv => StaysDown
<1> SUFFICES ASSUME ServiceInv, downed, NEW p \in Owners, p \notin terms, p \notin byHand
             PROVE  launchd.label = "absent" /\ at[p] = "closing"
  BY DEF StaysDown, ServiceInv, DownFits
<1>1. launchd.label = "absent"
  BY DEF ServiceInv, DownFits
<1>2. p \in Pids /\ at[p] \in Acting
  BY DEF Owners
<1> QED BY <1>1, <1>2 DEF ServiceInv, JobFits, Acting, Armed

(* What ends well is stopped or restarted.                                 *)
LEMMA SaysTrue ==
    ASSUME ServiceInv, ~SlowProbes, [ServiceStep]_serviceVars, NEW c \in Callers,
           callers'[c].said \in {"stopped", "restarted"}, callers[c].at # "idle"
    PROVE  {callers[c].first, callers[c].seen} \cap Owners' = {}
<1>0. /\ callers[c] \in Calls /\ callers \in [Callers -> Calls]
      /\ Fits(callers[c], launchd.label, Living) /\ NoPid \notin Pids
      /\ callers[c].said = ""
  BY CallFacts DEF Fits
<1>1. callers'[c] # callers[c]
  BY <1>0
<1>2. ASSUME NEW place \in CommandSteps, Turn(c, place) PROVE FALSE
  BY <1>0, <1>2 DEF Turn, Calls
<1>3. ASSUME NEW word \in Words \ {"stopped", "restarted"}, Says(c, word) PROVE FALSE
  BY <1>0, <1>3 DEF Says, Ended
<1>4. callers' # callers
  BY <1>1
<1>5. ASSUME NEW p \in Pids,
             Respawn(p) \/ RunByHand(p) \/ Runs(p) \/ Shutdown(p) \/ Killed(p)
      PROVE  callers' = callers
  BY <1>5 DEF Respawn, RunByHand, Runs, Acquire, Removes, Writes, SetsUp, Drains, EndsPass, Waits,
              HoldsOff, DropGuard, Exits, Shutdown, Killed, Dies
<1>6. ASSUME NEW d \in Callers, NEW cmd \in Orderable, Orders(d, cmd) PROVE FALSE
  <2>1. d # c
    BY <1>6 DEF Orders
  <2>2. callers'[c] = [callers[c] EXCEPT !.alone = FALSE]
    BY <1>6, <2>1 DEF Orders
  <2> QED BY <1>0, <2>2 DEF Calls
<1>7. PICK d \in Callers : Advances(d)
  BY <1>4, <1>5, <1>6 DEF ServiceStep, Enqueue, Ring, Leaves, serviceVars
<1>8. d = c
  <2> SUFFICES ASSUME d # c PROVE callers'[c] = callers[c]
    BY <1>1
  <2>1. \E k : callers' = [callers EXCEPT ![d] = k]
    BY <1>7 DEF Advances, Probe, Chooses, Installs, ReadsFirst, ReadsSeen, Teardown, Settle, Await,
                WritesPlist, Executes, Bootstraps, Confirms, Verify, ReadsManual, Signal, WatchesPid,
                FailsToRun, Turn, Says
  <2> QED BY <1>0, <2>1
<1>9. ASSUME Await(c) PROVE {callers[c].first, callers[c].seen} \cap Owners' = {}
  <2>1. callers'[c].said = "stopped" /\ callers[c].cmd = "stop" /\ ~Alive(callers[c].seen)
    BY <1>0, <1>2, <1>3, <1>9 DEF Await, Stopped, Words, CommandSteps, Says, Ended
  <2>2. callers[c].first = NoPid
    BY <1>0, <2>1 DEF Fits
  <2>3. at' = at
    BY <1>9 DEF Await, processes
  <2> QED BY <1>0, <2>1, <2>2, <2>3 DEF Owners, Alive, Acting, Armed
<1>10. ASSUME WatchesPid(c) PROVE {callers[c].first, callers[c].seen} \cap Owners' = {}
  <2>1. callers[c].cmd = "stop" /\ ~Alive(callers[c].seen)
    BY <1>0, <1>3, <1>10 DEF WatchesPid, Words, Doing, Fits
  <2>2. callers[c].first = NoPid
    BY <1>0, <2>1 DEF Fits
  <2>3. at' = at
    BY <1>10 DEF WatchesPid, processes
  <2> QED BY <1>0, <2>1, <2>2, <2>3 DEF Owners, Alive, Acting, Armed
<1>11. ASSUME Verify(c) PROVE {callers[c].first, callers[c].seen} \cap Owners' = {}
  <2>1. pidfile # callers[c].first /\ callers[c].at = "verify"
    BY <1>0, <1>3, <1>11 DEF Verify, Renewed, Words, Doing
  <2>2. callers[c].seen \notin Living
    BY <1>0, <2>1 DEF Fits
  <2>3. Owners' = Owners
    BY <1>11 DEF Verify, processes, Owners
  <2>4. callers[c].first \notin Owners
    BY <2>1, OwnersNamed
  <2>5. Owners \subseteq Living
    BY DEF Owners, Living, Acting, Armed
  <2> QED BY <2>2, <2>3, <2>4, <2>5
<1>12. ASSUME ~Await(c), ~WatchesPid(c), ~Verify(c) PROVE FALSE
  <2>1. \/ \E place \in CommandSteps : Turn(c, place)
        \/ \E word \in Words \ {"stopped", "restarted"} : Says(c, word)
        \/ callers'[c].said = callers[c].said
    <3>1. CASE Probe(c)
      <4>1. PICK state : Chooses(c, state)
        BY <3>1 DEF Probe
      <4>2. \/ Turn(c, StopsBy(state)) \/ Turn(c, "first") \/ Installs(c, state)
            \/ Says(c, "not installed") \/ Says(c, "already running")
            \/ callers' = [callers EXCEPT ![c].cmd = "start", ![c].at = "load"]
        BY <4>1, Zenon DEF Chooses
      <4>3. CASE Turn(c, StopsBy(state)) \/ Turn(c, "first")
        BY <4>3 DEF StopsBy, CommandSteps
      <4>4. CASE Installs(c, state)
        BY <4>4 DEF Installs, CommandSteps, Words
      <4>5. CASE Says(c, "not installed") \/ Says(c, "already running")
        BY <4>5 DEF Words
      <4>6. CASE callers' = [callers EXCEPT ![c].cmd = "start", ![c].at = "load"]
        <5>1. callers'[c].said = callers[c].said
          BY <1>0, <4>6 DEF Calls
        <5> QED BY <5>1
      <4> QED BY <4>2, <4>3, <4>4, <4>5, <4>6
    <3>2. CASE ReadsFirst(c) \/ ReadsSeen(c) \/ ReadsManual(c)
      <4>1. ASSUME ReadsFirst(c) PROVE callers'[c].said = callers[c].said
        BY <1>0, <4>1 DEF ReadsFirst, Calls
      <4>2. ASSUME ReadsSeen(c) PROVE callers'[c].said = callers[c].said
        BY <1>0, <4>2 DEF ReadsSeen, Calls
      <4>3. ASSUME callers' = [callers EXCEPT ![c].at = "signal", ![c].seen = pidfile]
            PROVE  callers'[c].said = callers[c].said
        BY <1>0, <4>3 DEF Calls
      <4>4. ReadsManual(c) => \/ Says(c, "not running")
                             \/ callers' = [callers EXCEPT ![c].at = "signal", ![c].seen = pidfile]
        BY DEF ReadsManual
      <4> QED BY <3>2, <4>1, <4>2, <4>3, <4>4 DEF Words
    <3>3. CASE Teardown(c) \/ Signal(c)
      BY <3>3 DEF Teardown, Signal, CommandSteps, Words
    <3>4. CASE Settle(c)
      <4>1. \/ Turn(c, "load") \/ Turn(c, "await") \/ Says(c, "error")
            \/ callers' = [callers EXCEPT ![c].at = "await", ![c].gone = TRUE]
        BY <3>4 DEF Settle
      <4>2. ASSUME callers' = [callers EXCEPT ![c].at = "await", ![c].gone = TRUE]
            PROVE  callers'[c].said = callers[c].said
        BY <1>0, <4>2 DEF Calls
      <4> QED BY <4>1, <4>2 DEF CommandSteps, Words
    <3>5. CASE WritesPlist(c)
      BY <3>5 DEF WritesPlist, Executes, CommandSteps, Words
    <3>6. CASE Bootstraps(c) \/ FailsToRun(c)
      BY <3>6 DEF Bootstraps, FailsToRun, CommandSteps, Words
    <3>7. CASE Confirms(c)
      BY <3>7 DEF Confirms, CommandSteps, Words
    <3> QED BY <1>7, <1>8, <1>12, <3>1, <3>2, <3>3, <3>4, <3>5, <3>6, <3>7 DEF Advances
  <2> QED BY <1>0, <1>2, <1>3, <2>1
<1> QED BY <1>9, <1>10, <1>11, <1>12

(* With answers of kill -0 that come in time: two daemons never pass at    *)
(* once, whoever starts, stops, restarts, installs or kills them; what     *)
(* rang is heard; what was stopped for good stays down; and what a command *)
(* reports is so.                                                          *)
THEOREM ServiceIsSafe == ASSUME ~SlowProbes PROVE ServiceSpec => ServiceSafe
<1>1. ServiceInit => ServiceInv
  BY ServiceBegins
<1>2. ServiceInv /\ [ServiceStep]_serviceVars => ServiceInv'
  BY ServiceKeeps
<1>3. ServiceInv => OneDaemon /\ BellsAnswered /\ StaysDown
  <2> SUFFICES ASSUME ServiceInv PROVE OneDaemon /\ BellsAnswered
    BY DownMeans
  <2>1. OneDaemon
    BY OwnersNamed DEF OneDaemon
  <2>2. BellsAnswered
    BY DEF BellsAnswered, ServiceInv, BellsFit
  <2> QED BY <2>1, <2>2
<1>4. ServiceInv /\ [ServiceStep]_serviceVars
        => [\A c \in Callers :
              callers'[c].said \in {"stopped", "restarted"} /\ callers[c].at # "idle"
                => {callers[c].first, callers[c].seen} \cap Owners' = {}]_serviceVars
  <2> SUFFICES ASSUME ServiceInv, [ServiceStep]_serviceVars, NEW c \in Callers,
                      callers'[c].said \in {"stopped", "restarted"}, callers[c].at # "idle"
               PROVE  {callers[c].first, callers[c].seen} \cap Owners' = {}
    OBVIOUS
  <2> QED BY SaysTrue
<1> QED BY <1>1, <1>2, <1>3, <1>4, PTL DEF ServiceSpec, ServiceSafe, ReportsTrue

=============================================================================
