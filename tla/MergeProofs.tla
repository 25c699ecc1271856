------------------------------ MODULE MergeProofs ------------------------------
(***************************************************************************)
(* Proofs that the auto-merge pass has its types and keeps the promises of *)
(* MergeProperties.tla, that every merge is on an operator's word among    *)
(* them, and that it implements MergeContract.tla, for any number of       *)
(* entries, any budgets and any bounds.                                    *)
(*                                                                         *)
(* First the operators of MergeEntry.tla.  Each takes an entry to an       *)
(* entry, and none that a halted pass applies touches the operator's       *)
(* requests or calls a pull request merged; the one trace it may leave is  *)
(* the head of a handback, and only when it charged one (HaltKeeps).  Then *)
(* the types of the pass (TypeCorrect), and on them one inductive          *)
(* invariant for each property, stated where it is proved.                 *)
(***************************************************************************)
EXTENDS MergeProperties, FiniteSetTheorems, TLAPS

USE DEF NoHead

(* The part of an entry a merge is decided on, unchanged from e to f but   *)
(* for a handback that may have been forgotten.                            *)
SameRequest(e, f) ==
    /\ f.approval = e.approval
    /\ f.override = e.override
    /\ f.updateHead = e.updateHead
    /\ f.phase = "merged" => e.phase = "merged"
    /\ f.recovery.head \in {NoHead, e.recovery.head}

Keeps(e, f) == f \in EntryType /\ SameRequest(e, f)

-----------------------------------------------------------------------------
(* Fields                                                                  *)

(* Setting one field of a record to a value of its type.                   *)
LEMMA SetRecovery ==
  ASSUME NEW e \in EntryType, NEW r \in RecoveryType,
         r.head = NoHead \/ r.head = e.recovery.head
  PROVE  /\ Keeps(e, [e EXCEPT !.recovery = r])
         /\ [e EXCEPT !.recovery = r].recovery.head = r.head
  BY DEF EntryType, Keeps, SameRequest

(* Replacing an entry's recheck record by one of its type keeps the type.  *)
LEMMA SetRecheck ==
  \A e \in EntryType, r \in RecheckType : Keeps(e, [e EXCEPT !.recheck = r])
  BY DEF EntryType, Keeps, SameRequest

(* Replacing an entry's hold by one of its type keeps the type.            *)
LEMMA SetHold ==
  \A e \in EntryType, h \in HoldType : Keeps(e, [e EXCEPT !.hold = h])
  BY DEF EntryType, Keeps, SameRequest

(* The cleared hold, recheck, pending and recovery records have their      *)
(* types.                                                                  *)
LEMMA NoneType ==
  /\ NoHold \in HoldType
  /\ NoRecheck \in RecheckType
  /\ NoPending \in PendingType
  /\ NoRecovery \in RecoveryType
  BY ConfigAssumption
  DEF HoldType, RecheckType, RecoveryType, PendingType, NoHold, NoRecheck,
      NoRecovery, NoPending, Markers

(* The entry a new pull request starts with has its type.                  *)
LEMMA NewEntryType == NewEntry \in EntryType
  BY NoneType DEF NewEntry, EntryType, Phases

(* The fields of an entry have the types EntryType gives them.             *)
LEMMA FieldTypes ==
  ASSUME NEW e \in EntryType
  PROVE  /\ e.recovery \in RecoveryType
         /\ e.recovery.pending \in PendingType
         /\ e.recovery.charged \in 0..MaxRecoveries
         /\ e.recovery.undelivered \in 0..MaxRecoveries
         /\ e.recovery.head \in Nat
         /\ e.recovery.base \in Nat
         /\ e.recheck \in RecheckType
         /\ e.hold \in HoldType
<1>1. e.recovery \in RecoveryType /\ e.recheck \in RecheckType /\ e.hold \in HoldType
  BY DEF EntryType
<1> QED
  BY <1>1 DEF RecoveryType

(* What two changes in a row keep, both keep.                              *)
LEMMA KeepsTransitive ==
  \A e, f, g : Keeps(e, f) /\ Keeps(f, g) => Keeps(e, g)
  BY DEF Keeps, SameRequest

(* An entry keeps what it has of itself.                                   *)
LEMMA KeepsReflexive == \A e \in EntryType : Keeps(e, e)
  BY DEF Keeps, SameRequest

-----------------------------------------------------------------------------
(* Single operators                                                        *)

(* Escalation changes the phase alone.                                     *)
LEMMA EscalateKeeps == \A e \in EntryType : Keeps(e, Escalate(e))
  BY DEF Escalate, EntryType, Phases, Keeps, SameRequest

(* Charging a look (merge_hold_recheck::charge) changes the recheck record *)
(* alone.                                                                  *)
LEMMA RecheckChargeKeeps ==
  ASSUME NEW e \in EntryType, NEW reason \in Reasons, NEW head \in Nat
  PROVE  Keeps(e, RecheckCharge(e, reason, head))
<1> DEFINE spent == IF SameRecheck(e, reason, head)
                    THEN e.recheck.spent ELSE e.recheck.spent + 1
           charged == [capEscalated |-> TRUE, reason |-> reason,
                       head |-> head, spent |-> spent]
<1>1. spent \in Nat
  BY FieldTypes DEF RecheckType
<1>2. charged \in RecheckType
  BY <1>1 DEF RecheckType
<1>3. RecheckCharge(e, reason, head) = [e EXCEPT !.recheck = charged]
  BY DEF RecheckCharge
<1> QED
  BY <1>2, <1>3, SetRecheck

(* Dropping an undelivered handback touches the recovery record alone.     *)
LEMMA DiscardPendingKeeps ==
  ASSUME NEW e \in EntryType
  PROVE  Keeps(e, DiscardPending(e)) /\ DiscardPending(e).recovery.head = e.recovery.head
<1> DEFINE r == [e.recovery EXCEPT !.pending = NoPending]
<1>1. r \in RecoveryType /\ r.head = e.recovery.head
  BY NoneType, FieldTypes DEF RecoveryType
<1>2. DiscardPending(e) = [e EXCEPT !.recovery = r]
  BY DEF DiscardPending
<1> QED
  BY <1>1, <1>2, SetRecovery

(* A refund (merge_recovery::refund) touches the recovery record alone.    *)
LEMMA RefundKeeps ==
  ASSUME NEW e \in EntryType
  PROVE  Keeps(e, Refund(e)) /\ Refund(e).recovery.head = NoHead
<1> DEFINE left == IF e.recovery.charged > 0
                   THEN e.recovery.charged - 1 ELSE 0
           r == [e.recovery EXCEPT !.charged = left, !.head = NoHead,
                                   !.base = 0]
<1>1. left \in 0..MaxRecoveries
  BY FieldTypes, ConfigAssumption
<1>2. r \in RecoveryType /\ r.head = NoHead
  BY <1>1, FieldTypes DEF RecoveryType
<1>3. Refund(e) = [e EXCEPT !.recovery = r]
  BY DEF Refund
<1> HIDE DEF r
<1> QED
  BY <1>2, <1>3, SetRecovery

(* A confirmed handback never makes an entry merged.                       *)
LEMMA DeliveredKeeps == \A e \in EntryType : Keeps(e, Delivered(e))
<1> SUFFICES ASSUME NEW e \in EntryType
             PROVE  Keeps(e, Delivered(e))
  OBVIOUS
<1> DEFINE r == [e.recovery EXCEPT !.pending = NoPending,
                                   !.undeliveredHead = NoHead,
                                   !.undelivered = 0]
<1> 0 \in 0..MaxRecoveries
  BY ConfigAssumption
<1>1. r \in RecoveryType /\ r.head = e.recovery.head
  BY NoneType, FieldTypes DEF RecoveryType
<1>2. Delivered(e) = [[e EXCEPT !.recovery = r] EXCEPT !.phase = "pr_opened"]
  BY DEF Delivered
<1>3. Keeps(e, [e EXCEPT !.recovery = r])
  BY <1>1, SetRecovery
<1>4. \A f \in EntryType : Keeps(f, [f EXCEPT !.phase = "pr_opened"])
  BY DEF EntryType, Phases, Keeps, SameRequest
<1> DEFINE f == [e EXCEPT !.recovery = r]
<1>5. Keeps(f, [f EXCEPT !.phase = "pr_opened"])
  BY <1>3, <1>4 DEF Keeps
<1> HIDE DEF f
<1> QED
  BY <1>2, <1>3, <1>5, KeepsTransitive DEF f

-----------------------------------------------------------------------------
(* A handback                                                              *)

(* A withheld handback keeps the counters in range                         *)
(* (merge_recovery_pending::withhold).                                     *)
LEMMA WithholdKeeps ==
  ASSUME NEW e \in EntryType, NEW reason \in Reasons
  PROVE  Keeps(e, Withhold(e, reason))
<1> DEFINE was == e.recovery.pending
           same == /\ was.attempts > 0
                   /\ was.reason = reason
                   /\ was.head = e.recovery.head
                   /\ was.base = e.recovery.base
           attempts == IF same THEN was.attempts + 1 ELSE 1
           owed == [reason |-> reason, head |-> e.recovery.head,
                    base |-> e.recovery.base, attempts |-> attempts]
           f == Refund(e)
           r == [f.recovery EXCEPT !.pending = owed]
<1>1. Keeps(e, f) /\ f \in EntryType
  BY RefundKeeps DEF Keeps
<1>2. Withhold(e, reason) =
        IF attempts >= MaxRecoveries THEN Escalate(DiscardPending(f))
        ELSE [f EXCEPT !.recovery = r]
  BY DEF Withhold
<1>3. was.attempts \in Nat
  BY FieldTypes DEF PendingType
<1> HIDE DEF f
<1>4. CASE attempts >= MaxRecoveries
  <2>1. Keeps(f, DiscardPending(f)) /\ DiscardPending(f) \in EntryType
    BY <1>1, DiscardPendingKeeps DEF Keeps
  <2>2. Keeps(f, Escalate(DiscardPending(f)))
    BY <2>1, EscalateKeeps, KeepsTransitive
  <2> QED
    BY <1>1, <1>2, <1>4, <2>2, KeepsTransitive
<1>5. CASE ~(attempts >= MaxRecoveries)
  <2>1. attempts \in 0..MaxRecoveries
    BY <1>3, <1>5, ConfigAssumption
  <2>2. owed \in PendingType
    BY <2>1, FieldTypes DEF PendingType
  <2> HIDE DEF owed
  <2>3. r \in RecoveryType /\ r.head = f.recovery.head
    BY <1>1, <2>2, FieldTypes DEF RecoveryType
  <2> HIDE DEF r
  <2>4. Keeps(f, [f EXCEPT !.recovery = r])
    BY <1>1, <2>3, SetRecovery
  <2> QED
    BY <1>1, <1>2, <1>5, <2>4, KeepsTransitive
<1> QED
  BY <1>4, <1>5

(* An undelivered handback keeps the counters in range                     *)
(* (undelivered_cap_reached).                                              *)
LEMMA UndeliveredKeeps ==
  ASSUME NEW e \in EntryType
  PROVE  Keeps(e, Undelivered(e))
<1> DEFINE before == IF e.recovery.undeliveredHead = e.recovery.head
                     THEN e.recovery.undelivered ELSE 0
           count == IF before < MaxRecoveries THEN before + 1 ELSE before
           d == DiscardPending(e)
           f == Refund(d)
           r == [f.recovery EXCEPT !.undeliveredHead = e.recovery.head,
                                   !.undelivered = count]
           g == [f EXCEPT !.recovery = r]
<1>1. Keeps(e, f) /\ f \in EntryType
  <2>1. Keeps(e, d) /\ d \in EntryType
    BY DiscardPendingKeeps DEF Keeps
  <2> HIDE DEF d
  <2>2. Keeps(d, f) /\ f \in EntryType
    BY <2>1, RefundKeeps DEF Keeps
  <2> QED
    BY <2>1, <2>2, KeepsTransitive
<1>2. Undelivered(e) = IF count >= MaxRecoveries THEN Escalate(g) ELSE g
  BY DEF Undelivered
<1>3. count \in 0..MaxRecoveries
  BY FieldTypes, ConfigAssumption
<1> HIDE DEF f, count
<1>4. r \in RecoveryType /\ r.head = f.recovery.head
  BY <1>1, <1>3, FieldTypes DEF RecoveryType
<1> HIDE DEF r
<1>5. Keeps(f, g) /\ g \in EntryType
  BY <1>1, <1>4, SetRecovery DEF Keeps
<1> HIDE DEF g
<1>6. Keeps(e, g) /\ Keeps(g, Escalate(g))
  BY <1>1, <1>5, EscalateKeeps, KeepsTransitive
<1> QED
  BY <1>2, <1>6, KeepsTransitive

(* Whatever the session answers, a dispatch keeps type, requests and       *)
(* history of moves.                                                       *)
LEMMA DispatchKeeps ==
  ASSUME NEW e \in EntryType, NEW reason \in Reasons, NEW session \in Sessions
  PROVE  Keeps(e, Dispatch(e, reason, session))
<1>1. CASE session = "gone"
  <2>1. Keeps(e, DiscardPending(e)) /\ DiscardPending(e) \in EntryType
    BY DiscardPendingKeeps DEF Keeps
  <2>2. Keeps(e, Escalate(DiscardPending(e)))
    BY <2>1, EscalateKeeps, KeepsTransitive
  <2> QED
    BY <1>1, <2>2 DEF Dispatch
<1>2. CASE session = "busy"
  BY <1>2, WithholdKeeps DEF Dispatch
<1>3. CASE session = "send_fails"
  BY <1>3, DiscardPendingKeeps DEF Dispatch
<1>4. CASE session = "silent"
  BY <1>4, UndeliveredKeeps DEF Dispatch
<1>5. CASE session = "confirms"
  BY <1>5, DeliveredKeeps DEF Dispatch
<1> QED
  BY <1>1, <1>2, <1>3, <1>4, <1>5 DEF Sessions

(* What a halt may change: as SameRequest, but for a handback charged for  *)
(* `head`.                                                                 *)
HaltsTo(e, f, head) ==
    /\ f \in EntryType
    /\ f.approval = e.approval
    /\ f.override = e.override
    /\ f.updateHead = e.updateHead
    /\ f.phase = "merged" => e.phase = "merged"
    /\ f.recovery.head \in {NoHead, e.recovery.head, head}

(* Charging a handback the plan allows stays within the budget.            *)
LEMMA ChargeRecoveryHalts ==
  ASSUME NEW e \in EntryType, NEW head \in Nat, NEW tip \in Nat,
         e.recovery.charged < MaxRecoveries
  PROVE  HaltsTo(e, ChargeRecovery(e, head, tip), head)
<1> DEFINE r == [e.recovery EXCEPT !.charged = e.recovery.charged + 1,
                                   !.head = head, !.base = tip]
<1>1. e.recovery.charged + 1 \in 0..MaxRecoveries
  BY FieldTypes, ConfigAssumption
<1>2. r \in RecoveryType /\ r.head = head
  BY <1>1, FieldTypes DEF RecoveryType
<1>3. ChargeRecovery(e, head, tip) = [e EXCEPT !.recovery = r]
  BY DEF ChargeRecovery
<1> HIDE DEF r
<1> QED
  BY <1>2, <1>3 DEF EntryType, HaltsTo

(* merge_recovery::consider keeps the type, and names the head it charged. *)
LEMMA ConsiderHalts ==
  ASSUME NEW e \in EntryType, NEW reason \in Reasons, NEW head \in Nat,
         NEW tip \in Nat, NEW session \in Sessions
  PROVE  LET f == Consider(e, reason, head, tip, session)
         IN IF PlanDispatches(e, reason, head, tip)
            THEN HaltsTo(e, f, head) ELSE Keeps(e, f)
<1> DEFINE f == Consider(e, reason, head, tip, session)
           c == ChargeRecovery(e, head, tip)
<1>1. CASE PlanDispatches(e, reason, head, tip)
  <2>1. f = Dispatch(c, reason, session)
    BY <1>1 DEF Consider, PlanDispatches
  <2>2. HaltsTo(e, c, head)
    BY <1>1, ChargeRecoveryHalts DEF PlanDispatches
  <2> HIDE DEF f, c
  <2>3. Keeps(c, f)
    BY <2>1, <2>2, DispatchKeeps DEF HaltsTo
  <2>4. HaltsTo(e, f, head)
    BY <2>2, <2>3 DEF HaltsTo, Keeps, SameRequest
  <2> QED
    BY <1>1, <2>4 DEF f
<1>2. CASE ~PlanDispatches(e, reason, head, tip)
  <2>1. f = e \/ f = Escalate(e)
    BY <1>2 DEF Consider
  <2> QED
    BY <1>2, <2>1, EscalateKeeps, KeepsReflexive
<1> QED
  BY <1>1, <1>2

-----------------------------------------------------------------------------
(* A halt                                                                  *)

(* The hold a reason and a head start from has its type.                   *)
LEMMA FreshHoldType ==
  ASSUME NEW e \in EntryType, NEW reason \in Reasons, NEW head \in Nat
  PROVE  FreshHold(e, reason, head) \in HoldType
<1>1. 0 \in 0..MaxHolds
  BY ConfigAssumption
<1> QED
  BY <1>1, FieldTypes DEF FreshHold, HoldType

(* merge_hold::charge never counts past the cap, so the hold keeps its     *)
(* type.                                                                   *)
LEMMA HoldChargeKeeps ==
  ASSUME NEW e \in EntryType, NEW reason \in Reasons, NEW head \in Nat
  PROVE  Keeps(e, HoldCharge(e, reason, head))
<1> DEFINE fresh == FreshHold(e, reason, head)
<1>1. fresh \in HoldType /\ Keeps(e, e)
  BY FreshHoldType, KeepsReflexive
<1>2. CASE ~Bounded(reason)
  BY <1>1, <1>2 DEF HoldCharge
<1>3. CASE Bounded(reason) /\ HoldSpent(e, reason, head)
  BY <1>1, <1>3, SetHold DEF HoldCharge
<1>4. CASE HoldCapReached(e, reason, head)
  <2> DEFINE hold == [fresh EXCEPT !.escalated = TRUE]
             recheck == [capEscalated |-> TRUE, spent |-> 0,
                         reason |-> reason, head |-> head]
             f == [e EXCEPT !.hold = hold]
             g == [f EXCEPT !.recheck = recheck]
  <2>1. hold \in HoldType /\ recheck \in RecheckType
    BY <1>1 DEF HoldType, RecheckType
  <2>2. HoldCharge(e, reason, head) = DiscardPending(Escalate(g))
    BY <1>4 DEF HoldCharge, HoldCapReached, Escalate, DiscardPending
  <2> HIDE DEF hold, recheck
  <2>3. Keeps(e, f) /\ f \in EntryType
    BY <2>1, SetHold DEF Keeps
  <2> HIDE DEF f
  <2>4. Keeps(f, g) /\ g \in EntryType
    BY <2>1, <2>3, SetRecheck DEF Keeps
  <2> HIDE DEF g
  <2>5. Keeps(g, Escalate(g)) /\ Escalate(g) \in EntryType
    BY <2>4, EscalateKeeps DEF Keeps
  <2>6. Keeps(Escalate(g), DiscardPending(Escalate(g)))
    BY <2>5, DiscardPendingKeeps
  <2> QED
    BY <2>2, <2>3, <2>4, <2>5, <2>6, KeepsTransitive
<1>5. CASE Bounded(reason) /\ HoldRecorded(e, reason, head)
  <2> DEFINE hold == [fresh EXCEPT !.passes = fresh.passes + 1]
  <2>1. fresh.passes + 1 \in 0..MaxHolds
    BY <1>1, <1>5, ConfigAssumption
    DEF HoldRecorded, HoldCapReached, HoldType
  <2>2. hold \in HoldType
    BY <1>1, <2>1 DEF HoldType
  <2>3. HoldCharge(e, reason, head) = [e EXCEPT !.hold = hold]
    BY <1>5 DEF HoldCharge, HoldRecorded
  <2> HIDE DEF hold
  <2> QED
    BY <2>2, <2>3, SetHold
<1> QED
  BY <1>2, <1>3, <1>4, <1>5 DEF HoldRecorded

(* merge_repo_pass::hold keeps the type, and names the head it charged.    *)
LEMMA HoldHalts ==
  ASSUME NEW e \in EntryType, NEW reason \in Reasons, NEW head \in Nat,
         NEW tip \in Nat, NEW session \in Sessions
  PROVE  LET f == Hold(e, reason, head, tip, session)
             charged == HoldCharge(e, reason, head)
         IN IF /\ HoldRecorded(e, reason, head)
               /\ PlanDispatches(charged, reason, head, tip)
            THEN HaltsTo(e, f, head) ELSE Keeps(e, f)
<1> DEFINE f == Hold(e, reason, head, tip, session)
           charged == HoldCharge(e, reason, head)
<1>1. Keeps(e, charged) /\ charged \in EntryType
  BY HoldChargeKeeps DEF Keeps
<1>2. CASE ~HoldRecorded(e, reason, head)
  BY <1>1, <1>2 DEF Hold
<1>3. CASE HoldRecorded(e, reason, head)
  <2>1. f = Consider(charged, reason, head, tip, session)
    BY <1>3 DEF Hold
  <2> HIDE DEF f, charged
  <2>2. IF PlanDispatches(charged, reason, head, tip)
        THEN HaltsTo(charged, f, head) ELSE Keeps(charged, f)
    BY <1>1, <2>1, ConsiderHalts
  <2>3. IF PlanDispatches(charged, reason, head, tip)
        THEN HaltsTo(e, f, head) ELSE Keeps(e, f)
    BY <1>1, <2>2 DEF HaltsTo, Keeps, SameRequest
  <2> QED
    BY <1>3, <2>3 DEF f, charged
<1> QED
  BY <1>2, <1>3

(* A halted pass leaves an operator's request alone, and marks no pull     *)
(* request merged (merge_repo_pass::hold).                                 *)
THEOREM HaltKeeps ==
  ASSUME NEW e \in EntryType, NEW recheck \in BOOLEAN, NEW reason \in Reasons,
         NEW head \in Nat, NEW tip \in Nat, NEW session \in Sessions
  PROVE  LET f == Halt(e, recheck, reason, head, tip, session)
         IN IF HandsBack(e, recheck, reason, head, tip)
            THEN HaltsTo(e, f, head) ELSE Keeps(e, f)
<1> DEFINE f == Halt(e, recheck, reason, head, tip, session)
           g == IF recheck THEN RecheckCharge(e, reason, head) ELSE e
<1>1. Keeps(e, g) /\ g \in EntryType
  BY RecheckChargeKeeps, KeepsReflexive DEF Keeps
<1>2. f = Hold(g, reason, head, tip, session)
  BY DEF Halt
<1>3. HandsBack(e, recheck, reason, head, tip)
        <=> /\ HoldRecorded(g, reason, head)
            /\ PlanDispatches(HoldCharge(g, reason, head), reason, head, tip)
  BY DEF HandsBack
<1> HIDE DEF f, g
<1>4. IF HandsBack(e, recheck, reason, head, tip)
      THEN HaltsTo(g, f, head) ELSE Keeps(g, f)
  BY <1>1, <1>2, <1>3, HoldHalts
<1>5. IF HandsBack(e, recheck, reason, head, tip)
      THEN HaltsTo(e, f, head) ELSE Keeps(e, f)
  BY <1>1, <1>4 DEF HaltsTo, Keeps, SameRequest
<1> QED
  BY <1>5 DEF f

-----------------------------------------------------------------------------
(* A merge, and the operator's requests                                    *)

(* A merged entry has its type and no request is lost by the merge itself. *)
LEMMA LandedEntry ==
  ASSUME NEW e \in EntryType
  PROVE  /\ Landed(e) \in EntryType
         /\ Landed(e).approval = e.approval
         /\ Landed(e).override = e.override
         /\ Landed(e).updateHead = e.updateHead
         /\ Landed(e).phase = "merged"
         /\ Landed(e).recovery.head = e.recovery.head
<1> DEFINE f == [e EXCEPT !.phase = "merged", !.hold = NoHold,
                          !.recheck = NoRecheck]
           r == [f.recovery EXCEPT !.pending = NoPending]
<1>1. /\ f \in EntryType
      /\ f.approval = e.approval
      /\ f.override = e.override
      /\ f.updateHead = e.updateHead
      /\ f.phase = "merged"
      /\ f.recovery.head = e.recovery.head
  BY NoneType DEF EntryType, Phases
<1>2. Landed(e) = [f EXCEPT !.recovery = r]
  BY DEF Landed, DiscardPending
<1> HIDE DEF f
<1>3. r \in RecoveryType /\ r.head = f.recovery.head
  BY <1>1, NoneType, FieldTypes DEF RecoveryType
<1> HIDE DEF r
<1> QED
  BY <1>1, <1>2, <1>3 DEF EntryType

(* An operator's revival keeps type and requests                           *)
(* (ledger::landable::ensure_landable).                                    *)
LEMMA EnsureLandableKeeps ==
  ASSUME NEW e \in EntryType
  PROVE  Keeps(e, EnsureLandable(e))
  BY NoneType
  DEF EnsureLandable, Revive, EntryType, Phases, Keeps, SameRequest, NoRecovery

(* A granted reconsideration touches the recheck record alone.             *)
LEMMA GrantReconsiderationKeeps ==
  \A e \in EntryType : Keeps(e, GrantReconsideration(e))
<1>1. [capEscalated |-> TRUE, spent |-> 0, reason |-> "operator_approval",
       head |-> NoHead] \in RecheckType
  BY DEF RecheckType, Markers
<1> QED
  BY <1>1, SetRecheck DEF GrantReconsideration

(* A recorded approval keeps the type (ledger_requests::record_approval).  *)
LEMMA RecordApprovalType ==
  ASSUME NEW e \in EntryType, NEW head \in Nat
  PROVE  LET f == RecordApproval(e, head)
         IN /\ f \in EntryType
            /\ f.approval = head
            /\ f.override = e.override
            /\ f.updateHead = e.updateHead
            /\ f.phase = "merged" => e.phase = "merged"
            /\ f.recovery.head \in {NoHead, e.recovery.head}
<1> DEFINE g == [e EXCEPT !.approval = head]
<1>1. /\ g \in EntryType
      /\ g.approval = head
      /\ g.override = e.override
      /\ g.updateHead = e.updateHead
      /\ g.phase = e.phase
      /\ g.recovery = e.recovery
  BY DEF EntryType
<1>2. RecordApproval(e, head) =
        IF e.approval = head THEN e ELSE GrantReconsideration(g)
  BY DEF RecordApproval
<1> HIDE DEF g
<1>3. Keeps(g, GrantReconsideration(g))
  BY <1>1, GrantReconsiderationKeeps
<1> QED
  BY <1>1, <1>2, <1>3 DEF Keeps, SameRequest

(* A branch updated by hand keeps type and requests                        *)
(* (reset_branch_updates).                                                 *)
LEMMA ResetBranchUpdatesKeeps ==
  \A e \in EntryType : Keeps(e, ResetBranchUpdates(e))
  BY DEF ResetBranchUpdates, EntryType, Phases, Keeps, SameRequest

-----------------------------------------------------------------------------
(* The pass                                                                *)

USE DEF NoHead, Settled, NoAgent, Agents, Commits

-----------------------------------------------------------------------------
(* Types                                                                   *)

(* History fields set one at a time.                                       *)
LEMMA HistSet ==
  ASSUME NEW h \in HistType, NEW a \in Agents, NEW S \in SUBSET Commits,
         NEW F \in SUBSET (Commits \X Nat), NEW b \in BOOLEAN,
         NEW U \in SUBSET Agents
  PROVE  /\ [h EXCEPT !.asked[a] = S] \in HistType
         /\ [h EXCEPT !.moved[a] = S] \in HistType
         /\ [h EXCEPT !.handed[a] = F] \in HistType
         /\ [h EXCEPT !.lifted = b] \in HistType
         /\ [h EXCEPT !.updated = U] \in HistType
         /\ [h EXCEPT !.asked[a] = S, !.handed[a] = F] \in HistType
         /\ [h EXCEPT !.moved[a] = S, !.handed[a] = F] \in HistType
         /\ [h EXCEPT !.moved[a] = S, !.updated = U] \in HistType
  BY DEF HistType

(* Moving on to the next entry keeps the types of ledger and pass.         *)
LEMMA ProceedType ==
  ASSUME TypeOK, cur \in Agents, NEW after \in EntryType,
         NEW slot \in {NoAgent} \cup Agents, Proceed(after, slot)
  PROVE  /\ entry' \in [Agents -> EntryType]
         /\ holder' \in {NoAgent} \cup Agents
         /\ pc' = "look"
         /\ cur' \in 0..(N + 1)
         /\ snap' \in SnapType
<1>1. entry' \in [Agents -> EntryType]
  BY DEF TypeOK, Proceed
<1>2. holder' \in {NoAgent} \cup Agents /\ pc' = "look"
  BY DEF Proceed
<1>3. cur' \in 0..(N + 1)
  BY PassAssumption DEF Proceed
<1>4. snap' \in SnapType
  BY PassAssumption DEF Proceed, SnapType, NoSnap
<1> QED
  BY <1>1, <1>2, <1>3, <1>4

(* What a halt leaves in memory is typed.                                  *)
LEMMA HaltWithType ==
  ASSUME TypeOK, cur \in Agents, NEW e \in EntryType,
         NEW slot \in {NoAgent} \cup Agents, NEW reason \in Reasons,
         NEW head \in 0..MaxCommits, NEW onBase \in Nat, NEW past \in HistType,
         HaltWith(e, slot, reason, head, onBase, past)
  PROVE  /\ entry' \in [Agents -> EntryType]
         /\ holder' \in {NoAgent} \cup Agents
         /\ pc' = "look"
         /\ cur' \in 0..(N + 1)
         /\ snap' \in SnapType
         /\ hist' \in HistType
<1> DEFINE recheck == Due(entry[cur])
<1>1. recheck \in BOOLEAN /\ head \in Nat
  BY PassAssumption DEF Due
<1>2. PICK session \in SessionFacts :
         /\ Proceed(Halt(e, recheck, reason, head, onBase, session), slot)
         /\ hist' =
              IF ~HandsBack(e, recheck, reason, head, onBase) THEN past
              ELSE [past EXCEPT
                      !.moved[cur] = @ \cup {head},
                      !.handed[cur] = IF session = "confirms"
                                      THEN @ \cup {<<head, onBase>>} ELSE @]
  BY DEF HaltWith
<1>3. session \in Sessions
  BY PassAssumption
<1>4. Halt(e, recheck, reason, head, onBase, session) \in EntryType
  BY <1>1, <1>3, HaltKeeps DEF HaltsTo, Keeps
<1> HIDE DEF recheck
<1>5. hist' \in HistType
  <2>1. CASE ~HandsBack(e, recheck, reason, head, onBase)
    BY <1>2, <2>1
  <2>2. CASE HandsBack(e, recheck, reason, head, onBase)
    <3>1. head \in Commits
      BY <2>2, PassAssumption DEF HandsBack, PlanDispatches, PlanIdle
    <3>2. past.moved[cur] \cup {head} \in SUBSET Commits
      BY <3>1 DEF HistType
    <3>3. /\ past.handed[cur] \in SUBSET (Commits \X Nat)
          /\ past.handed[cur] \cup {<<head, onBase>>} \in SUBSET (Commits \X Nat)
      <4>1. past.handed[cur] \in SUBSET (Commits \X Nat)
        BY DEF HistType
      <4>2. <<head, onBase>> \in Commits \X Nat
        BY <3>1
      <4> QED
        BY <4>1, <4>2
    <3> DEFINE F == IF session = "confirms"
                    THEN past.handed[cur] \cup {<<head, onBase>>}
                    ELSE past.handed[cur]
    <3>4. F \in SUBSET (Commits \X Nat)
      BY <3>3
    <3>5. hist' = [past EXCEPT !.moved[cur] = past.moved[cur] \cup {head},
                               !.handed[cur] = F]
      BY <1>2, <2>2
    <3> HIDE DEF F
    <3> QED
      BY <3>2, <3>4, <3>5, HistSet
  <2> QED
    BY <2>1, <2>2
<1> QED
  BY <1>2, <1>4, <1>5, ProceedType

(* A look that lifts the barrier keeps the history's type.                 *)
LEMMA HistAtLookType == ASSUME TypeOK PROVE HistAtLook \in HistType
<1> DEFINE lifted == hist.lifted \/ Lifts
<1>1. lifted \in BOOLEAN
  BY DEF Lifts, BarrierHeld
<1>2. HistAtLook = [hist EXCEPT !.lifted = lifted]
  BY DEF HistAtLook
<1> HIDE DEF lifted
<1> QED
  BY <1>1, <1>2 DEF HistType, TypeOK

(* A look, whatever it concludes, is typed.                                *)
LEMMA LookType == TypeOK /\ Look => TypeOK'
<1> SUFFICES ASSUME TypeOK, Look PROVE TypeOK'
  OBVIOUS
<1>1. /\ cur \in Agents
      /\ settling' \in {Settled} \cup 0..MaxSettle
      /\ UNCHANGED <<saved, githubVars, checkoutVars, boundVars>>
  BY DEF Look, LookFails, LookConcluded, LookHeld, LookWaitsTurn, LookCapped,
         LookUpdates, LookSettling, LookReady, Readable, Open, Clear, Heads,
         Ready, Looking, At, TypeOK
<1>2. /\ entry[cur] \in EntryType
      /\ holder \in {NoAgent} \cup Agents
      /\ pr[cur].head \in 0..MaxCommits
      /\ base \in Nat
      /\ hist \in HistType
      /\ HistAtLook \in HistType
  BY <1>1, HistAtLookType, PassAssumption DEF TypeOK, PrType
<1>3. /\ GateReasons \subseteq Reasons
      /\ {"unreadable", "already_merged", "closed_unmerged",
          "behind_waiting_turn", "behind_update_cap"} \subseteq Reasons
  BY DEF Reasons
<1> DEFINE Memory == /\ entry' \in [Agents -> EntryType]
                     /\ holder' \in {NoAgent} \cup Agents
                     /\ pc' \in {"look", "update", "merge"}
                     /\ cur' \in 0..(N + 1)
                     /\ snap' \in SnapType
                     /\ pc' # "look" => snap'.head \in Commits
                     /\ hist' \in HistType
<1>4. CASE LookFails
  <2>1. 0 \in 0..MaxCommits /\ 0 \in Nat
    BY PassAssumption
  <2>2. Memory
    BY <1>1, <1>2, <1>3, <1>4, <2>1, HaltWithType DEF LookFails, LookHalts
  <2> QED
    BY <1>1, <2>2 DEF TypeOK, githubVars, checkoutVars, boundVars
<1>5. CASE LookConcluded
  <2>1. /\ [entry[cur] EXCEPT !.phase = "merged"] \in EntryType
        /\ Escalate(entry[cur]) \in EntryType
    BY <1>2, EscalateKeeps DEF EntryType, Phases, Keeps
  <2>2. Memory
    BY <1>1, <1>2, <1>3, <1>5, <2>1, HaltWithType DEF LookConcluded, LookHalts
  <2> QED
    BY <1>1, <2>2 DEF TypeOK, githubVars, checkoutVars, boundVars
<1>6. CASE LookHeld
  <2>1. Memory
    BY <1>1, <1>2, <1>3, <1>6, HaltWithType DEF LookHeld, LookHalts
  <2> QED
    BY <1>1, <2>1 DEF TypeOK, githubVars, checkoutVars, boundVars
<1>7. CASE LookWaitsTurn
  <2>1. Memory
    BY <1>1, <1>2, <1>3, <1>7, HaltWithType DEF LookWaitsTurn, LookHalts
  <2> QED
    BY <1>1, <2>1 DEF TypeOK, githubVars, checkoutVars, boundVars
<1>8. CASE LookCapped
  <2>1. Escalate(entry[cur]) \in EntryType
    BY <1>2, EscalateKeeps DEF Keeps
  <2>2. Memory
    BY <1>1, <1>2, <1>3, <1>8, <2>1, HaltWithType DEF LookCapped, LookHalts
  <2> QED
    BY <1>1, <2>2 DEF TypeOK, githubVars, checkoutVars, boundVars
<1>9. Snap \in SnapType /\ Snap.head \in Commits
  BY <1>1, <1>2 DEF Snap, SnapType, TypeOK, PrType
<1>10. CASE LookUpdates
  <2>1. [entry EXCEPT ![cur].branchUpdates = @ + 1] \in [Agents -> EntryType]
    <3>1. entry[cur].branchUpdates + 1 \in Nat
      BY <1>2 DEF EntryType
    <3>2. [entry[cur] EXCEPT !.branchUpdates = entry[cur].branchUpdates + 1]
            \in EntryType
      BY <1>2, <3>1 DEF EntryType
    <3> QED
      BY <1>1, <3>2 DEF TypeOK
  <2>2. Memory
    BY <1>1, <1>2, <1>9, <1>10, <2>1 DEF LookUpdates, TypeOK
  <2> QED
    BY <1>1, <2>2 DEF TypeOK, githubVars, checkoutVars, boundVars
<1>11. CASE LookSettling
  <2>1. [entry[cur] EXCEPT !.hold = NoHold] \in EntryType
    BY <1>2, SetHold, NoneType DEF Keeps
  <2>2. ReadySlot \in {NoAgent} \cup Agents
    BY <1>1, <1>2 DEF ReadySlot
  <2>3. Memory
    BY <1>1, <1>2, <1>11, <2>1, <2>2, ProceedType DEF LookSettling
  <2> QED
    BY <1>1, <2>3 DEF TypeOK, githubVars, checkoutVars, boundVars
<1>12. CASE LookReady
  <2>1. ReadySlot \in {NoAgent} \cup Agents
    BY <1>1, <1>2 DEF ReadySlot
  <2>2. Memory
    BY <1>1, <1>2, <1>9, <1>12, <2>1 DEF LookReady, TypeOK
  <2> QED
    BY <1>1, <2>2 DEF TypeOK, githubVars, checkoutVars, boundVars
<1> QED
  BY <1>4, <1>5, <1>6, <1>7, <1>8, <1>10, <1>11, <1>12 DEF Look

(* A pull request with one more commit still is one.                       *)
LEMMA AdvancedType ==
  ASSUME TypeOK, NEW a \in Agents, NEW rewrites \in BOOLEAN, NEW onto \in Nat,
         NEW g \in GateFacts, pr[a].head < MaxCommits
  PROVE  Advanced(a, rewrites, onto, g) \in PrType
<1>1. pr[a] \in PrType
  BY DEF TypeOK
<1>2. pr[a].head + 1 \in Commits
  BY <1>1, PassAssumption DEF PrType
<1> DEFINE forced == IF rewrites THEN pr[a].forced \cup {pr[a].head + 1}
                                 ELSE pr[a].forced
<1>3. forced \in SUBSET Commits
  BY <1>1, <1>2 DEF PrType
<1>4. Advanced(a, rewrites, onto, g) =
        [pr[a] EXCEPT !.head = pr[a].head + 1, !.forced = forced,
                      !.builtOn = onto, !.gate = g]
  BY DEF Advanced
<1> HIDE DEF forced
<1> QED
  BY <1>1, <1>2, <1>3, <1>4 DEF PrType

(* GitHub's side of an update is typed.                                    *)
LEMMA GitHubUpdatesType ==
  ASSUME TypeOK, GitHubUpdates
  PROVE  pr' \in [Agents -> PrType]
<1>1. cur \in Agents /\ pr[cur] \in PrType /\ base \in Nat
  BY DEF GitHubUpdates, At, TypeOK
<1>2. PICK g \in GateFacts :
        pr' = [pr EXCEPT ![cur] = Advanced(cur, UpdateRewrites, base, g)]
  BY DEF GitHubUpdates
<1>3. Advanced(cur, UpdateRewrites, base, g) \in PrType
  BY <1>1, AdvancedType, PassAssumption DEF GitHubUpdates
<1> QED
  BY <1>1, <1>2, <1>3 DEF TypeOK

(* GitHub's side of a merge is typed.                                      *)
LEMMA GitHubMergesType ==
  ASSUME TypeOK, GitHubMerges
  PROVE  /\ pr' \in [Agents -> PrType]
         /\ base' \in Nat
         /\ local \in 0..base'
<1>1. cur \in Agents /\ pr[cur] \in PrType
  BY DEF GitHubMerges, At, TypeOK
<1>2. [pr[cur] EXCEPT !.state = "merged"] \in PrType
  BY <1>1 DEF PrType
<1>3. pr' \in [Agents -> PrType]
  BY <1>1, <1>2 DEF GitHubMerges, TypeOK
<1>4. base' = base + 1
  BY DEF GitHubMerges
<1> QED
  BY <1>3, <1>4 DEF TypeOK

(* The history of a merge is typed.                                        *)
LEMMA LandingType ==
  ASSUME TypeOK, cur \in Agents, NEW fetched \in BOOLEAN
  PROVE  Landing(Confirming(fetched).word) \in HistType
<1> DEFINE land == [gated |-> snap.head, merged |-> pr[cur].head,
                    word |-> Confirming(fetched).word]
<1>1. snap.head \in 0..MaxCommits /\ hist \in HistType
  BY DEF TypeOK, SnapType
<1>2. Confirming(fetched).word \in {"none", "override", "approval"}
  BY DEF Confirming, Confirm
<1>3. pr[cur].head \in 0..MaxCommits
  BY PassAssumption DEF TypeOK, PrType
<1>4. land \in LandedType
  BY <1>1, <1>2, <1>3 DEF LandedType
<1>5. Landing(Confirming(fetched).word) = [hist EXCEPT !.landed[cur] = land]
  BY DEF Landing
<1> HIDE DEF land
<1>6. [hist.landed EXCEPT ![cur] = land] \in [Agents -> LandedType]
  BY <1>1, <1>4 DEF HistType
<1>7. [hist EXCEPT !.landed = [hist.landed EXCEPT ![cur] = land]] \in HistType
  BY <1>1, <1>6 DEF HistType
<1> QED
  BY <1>5, <1>7

(* The second half of an entry's step is typed.                            *)
LEMMA ActType ==
  ASSUME TypeOK, Act
  PROVE  TypeOK'
<1>1. cur \in Agents
  BY DEF Act, UpdateBranch, UpdateUnheard, UpdateFails, RequestStale, Merge,
         MergeUnheard, MergeFails, GitHubUpdates, GitHubMerges, At
<1>2. /\ entry[cur] \in EntryType
      /\ holder \in {NoAgent} \cup Agents
      /\ snap.head \in 0..MaxCommits
      /\ snap.head \in Nat
      /\ snap.base \in Nat
      /\ hist \in HistType
  BY <1>1, PassAssumption DEF TypeOK, SnapType
<1>3. {"behind_branch_updated", "behind_update_failed", "request_stale",
       "merge_failed", "merge_refused"} \subseteq Reasons
  BY DEF Reasons
<1>4. \A fetched \in BOOLEAN : Confirming(fetched).entry \in EntryType
  BY <1>2 DEF Confirming, Confirm, OverrideSpent, EntryType
<1>5. Fetches \subseteq BOOLEAN
  BY DEF Fetches
<1> DEFINE Memory == /\ entry' \in [Agents -> EntryType]
                     /\ holder' \in {NoAgent} \cup Agents
                     /\ pc' = "look"
                     /\ cur' \in 0..(N + 1)
                     /\ snap' \in SnapType
                     /\ hist' \in HistType
<1>6. CASE UpdateBranch
  <2> DEFINE e == [entry[cur] EXCEPT !.updateHead = snap.head]
             past == [hist EXCEPT !.moved[cur] = @ \cup {snap.head},
                                  !.updated = @ \cup {cur}]
  <2>1. e \in EntryType
    BY <1>2 DEF EntryType
  <2>2. past \in HistType
    <3>1. snap.head \in Commits
      BY <1>6 DEF UpdateBranch, GitHubUpdates, At, TypeOK
    <3>2. /\ hist.moved[cur] \cup {snap.head} \in SUBSET Commits
          /\ hist.updated \cup {cur} \in SUBSET Agents
      BY <1>1, <1>2, <3>1 DEF HistType
    <3> QED
      BY <1>1, <1>2, <3>2 DEF HistType
  <2>3. HaltWith(e, holder, "behind_branch_updated", snap.head, snap.base, past)
    BY <1>6 DEF UpdateBranch
  <2> HIDE DEF e, past
  <2>4. Memory
    BY <1>1, <1>2, <1>3, <2>1, <2>2, <2>3, HaltWithType
  <2> QED
    BY <1>6, <2>4, GitHubUpdatesType
    DEF UpdateBranch, GitHubUpdates, TypeOK, checkoutVars, boundVars
<1>7. CASE UpdateUnheard
  <2> DEFINE past == [hist EXCEPT !.updated = @ \cup {cur}]
  <2>1. past \in HistType
    <3>1. hist.updated \cup {cur} \in SUBSET Agents
      BY <1>1, <1>2 DEF HistType
    <3> QED
      BY <1>2, <3>1 DEF HistType
  <2>2. HaltWith(entry[cur], holder, "behind_update_failed",
                 snap.head, snap.base, past)
    BY <1>7 DEF UpdateUnheard
  <2> HIDE DEF past
  <2>3. Memory
    BY <1>1, <1>2, <1>3, <2>1, <2>2, HaltWithType
  <2> QED
    BY <1>7, <2>3, GitHubUpdatesType
    DEF UpdateUnheard, GitHubUpdates, TypeOK, checkoutVars, boundVars
<1>8. CASE UpdateFails
  <2>1. Memory
    BY <1>1, <1>2, <1>3, <1>8, HaltWithType DEF UpdateFails
  <2> QED
    BY <1>8, <2>1 DEF UpdateFails, TypeOK, githubVars, checkoutVars, boundVars
<1>9. CASE RequestStale
  <2>1. Memory
    BY <1>1, <1>2, <1>3, <1>4, <1>5, <1>9, HaltWithType DEF RequestStale
  <2> QED
    BY <1>9, <2>1 DEF RequestStale, TypeOK, githubVars, checkoutVars, boundVars
<1>10. CASE Merge
  <2>1. PICK fetched \in BOOLEAN :
          /\ Proceed(Landed(Confirming(fetched).entry), holder)
          /\ hist' = [Landing(Confirming(fetched).word) EXCEPT
                        !.lastMerge = base + 1, !.lifted = FALSE]
    BY <1>5, <1>10 DEF Merge
  <2>2. Landed(Confirming(fetched).entry) \in EntryType
    BY <1>4, LandedEntry
  <2>3. hist' \in HistType
    <3> DEFINE landing == Landing(Confirming(fetched).word)
    <3>1. landing \in HistType
      BY <1>1, LandingType
    <3>2. base + 1 \in Nat
      BY DEF TypeOK
    <3>3. hist' = [landing EXCEPT !.lastMerge = base + 1, !.lifted = FALSE]
      BY <2>1
    <3> HIDE DEF landing
    <3> QED
      BY <3>1, <3>2, <3>3 DEF HistType
  <2>4. Memory
    BY <1>1, <1>2, <2>1, <2>2, <2>3, ProceedType
  <2>5. settling' \in 0..MaxSettle
    <3>1. settling' = 0
      BY <1>10 DEF Merge
    <3> QED
      BY <3>1, PassAssumption
  <2> QED
    BY <1>10, <2>4, <2>5, GitHubMergesType
    DEF Merge, GitHubMerges, TypeOK, checkoutVars, boundVars
<1>11. CASE MergeUnheard
  <2>1. PICK fetched \in BOOLEAN :
          HaltWith(Confirming(fetched).entry, holder, "merge_failed",
                   snap.head, snap.base, Landing(Confirming(fetched).word))
    BY <1>5, <1>11 DEF MergeUnheard
  <2> DEFINE landing == Landing(Confirming(fetched).word)
             e == Confirming(fetched).entry
  <2>2. landing \in HistType /\ e \in EntryType
    BY <1>1, <1>4, LandingType
  <2>3. HaltWith(e, holder, "merge_failed", snap.head, snap.base, landing)
    BY <2>1
  <2> HIDE DEF landing, e
  <2>4. Memory
    BY <1>1, <1>2, <1>3, <2>2, <2>3, HaltWithType
  <2> QED
    BY <1>11, <2>4, GitHubMergesType
    DEF MergeUnheard, GitHubMerges, TypeOK, checkoutVars, boundVars
<1>12. CASE MergeFails
  <2>1. Memory
    BY <1>1, <1>2, <1>3, <1>4, <1>5, <1>12, HaltWithType DEF MergeFails
  <2> QED
    BY <1>12, <2>1 DEF MergeFails, TypeOK, githubVars, checkoutVars, boundVars
<1> QED
  BY <1>6, <1>7, <1>8, <1>9, <1>10, <1>11, <1>12 DEF Act

(* An operator's request is typed.                                         *)
LEMMA OperatorType == TypeOK /\ OperatorStep => TypeOK'
<1> SUFFICES ASSUME TypeOK, NEW a \in Agents,
                    \/ \E head \in Commits : RuntimeApproval(a, head)
                    \/ DiscordApproval(a)
                    \/ OperatorOverride(a)
                    \/ BranchUpdated(a)
             PROVE  TypeOK'
  BY DEF OperatorStep
<1>1. /\ pc = "idle"
      /\ requests' \in 0..MaxRequests
      /\ UNCHANGED <<settling, passVars, githubVars, checkoutVars, outside,
                     crashes>>
  <2>1. DrainRequest
    BY DEF RuntimeApproval, DiscordApproval, OperatorOverride, BranchUpdated
  <2>2. requests \in Nat
    BY DEF TypeOK
  <2> QED
    BY <2>1, <2>2, PassAssumption DEF DrainRequest
<1>2. /\ entry[a] \in EntryType
      /\ EnsureLandable(entry[a]) \in EntryType
      /\ pr[a].head \in Commits
      /\ pr[a].head \in Nat
      /\ hist.handed[a] \in SUBSET (Commits \X Nat)
      /\ hist.asked[a] \in SUBSET Commits
  <2>1. entry[a] \in EntryType /\ pr[a] \in PrType /\ hist \in HistType
    BY DEF TypeOK
  <2>2. EnsureLandable(entry[a]) \in EntryType
    BY <2>1, EnsureLandableKeeps DEF Keeps
  <2>3. pr[a].head \in Commits /\ pr[a].head \in Nat
    BY <2>1 DEF PrType
  <2> QED
    BY <2>1, <2>2, <2>3 DEF HistType
<1> DEFINE handed == IF Revives(a) THEN {} ELSE hist.handed[a]
<1>3. handed \in SUBSET (Commits \X Nat)
  BY <1>2
<1>4. /\ entry' \in [Agents -> EntryType]
      /\ hist' \in HistType
      /\ saved' = saved \/ saved' = [saved EXCEPT !.entry = entry']
  <2>1. ASSUME NEW head \in Commits, RuntimeApproval(a, head)
        PROVE  <1>4!:
    <3>1. RecordApproval(EnsureLandable(entry[a]), head) \in EntryType
      BY <1>2, RecordApprovalType
    <3>2. hist' = [hist EXCEPT !.asked[a] = hist.asked[a] \cup {head},
                               !.handed[a] = handed]
      BY <2>1 DEF RuntimeApproval
    <3> HIDE DEF handed
    <3>3. hist.asked[a] \cup {head} \in SUBSET Commits
      BY <1>2
    <3>4. hist' \in HistType
      BY <1>3, <3>2, <3>3 DEF HistType, TypeOK
    <3> QED
      BY <2>1, <3>1, <3>4 DEF RuntimeApproval, Checkpoint, TypeOK
  <2>2. CASE DiscordApproval(a)
    <3>1. RecordApproval(entry[a], pr[a].head) \in EntryType
      BY <1>2, RecordApprovalType
    <3>2. hist.asked[a] \cup {pr[a].head} \in SUBSET Commits
      BY <1>2
    <3>3. hist' \in HistType
      BY <2>2, <3>2 DEF DiscordApproval, HistType, TypeOK
    <3> QED
      BY <2>2, <3>1, <3>3 DEF DiscordApproval, TypeOK
  <2>3. CASE OperatorOverride(a)
    <3> DEFINE revived == EnsureLandable(entry[a])
               readable == pr[a].gate # "unreadable"
               after == IF readable
                        THEN [revived EXCEPT !.override = pr[a].head]
                        ELSE revived
               asked == IF readable THEN hist.asked[a] \cup {pr[a].head}
                        ELSE hist.asked[a]
    <3>1. after \in EntryType
      <4> HIDE DEF revived
      <4> QED
        BY <1>2 DEF EntryType, revived
    <3>2. asked \in SUBSET Commits
      BY <1>2
    <3>3. /\ entry' = [entry EXCEPT ![a] = after]
          /\ hist' = [hist EXCEPT !.asked[a] = asked, !.handed[a] = handed]
          /\ saved' = [saved EXCEPT !.entry = entry']
      BY <2>3 DEF OperatorOverride, Checkpoint
    <3> HIDE DEF after, asked, handed
    <3> QED
      BY <1>3, <3>1, <3>2, <3>3 DEF HistType, TypeOK
  <2>4. CASE BranchUpdated(a)
    <3>1. ResetBranchUpdates(entry[a]) \in EntryType
      BY <1>2, ResetBranchUpdatesKeeps DEF Keeps
    <3> QED
      BY <2>4, <3>1 DEF BranchUpdated, Checkpoint, TypeOK
  <2> QED
    BY <2>1, <2>2, <2>3, <2>4
<1>5. saved' \in SavedType
  BY <1>4 DEF TypeOK, SavedType
<1> QED
  BY <1>1, <1>4, <1>5 DEF TypeOK, passVars, githubVars, checkoutVars

(* What workers, people and GitHub do is typed.                            *)
LEMMA OutsideType == TypeOK /\ OutsideStep => TypeOK'
<1> SUFFICES ASSUME TypeOK, OutsideStep PROVE TypeOK'
  OBVIOUS
<1>1. OutsideRobco
  BY DEF OutsideStep, WorkerPushes, GateChanges, BaseMoves, PersonCloses
<1>2. outside' \in 0..MaxOutside
  BY <1>1, PassAssumption DEF OutsideRobco, TypeOK
<1>3. pr' \in [Agents -> PrType] /\ base' \in Nat /\ local \in 0..base'
  <2>1. ASSUME NEW a \in Agents, WorkerPushes(a) PROVE pr' \in [Agents -> PrType]
    <3>1. PICK force \in BOOLEAN, onto \in {pr[a].builtOn, base},
               g \in GateFacts :
                 pr' = [pr EXCEPT ![a] = Advanced(a, force, onto, g)]
      BY <2>1 DEF WorkerPushes
    <3>2. onto \in Nat
      BY DEF TypeOK, PrType
    <3>3. Advanced(a, force, onto, g) \in PrType
      BY <2>1, <3>2, AdvancedType DEF WorkerPushes
    <3> QED
      BY <3>1, <3>3 DEF TypeOK
  <2>2. ASSUME NEW a \in Agents, GateChanges(a) \/ PersonCloses(a)
        PROVE  pr' \in [Agents -> PrType]
    <3>1. \A g \in GateFacts : [pr[a] EXCEPT !.gate = g] \in PrType
      BY DEF TypeOK, PrType
    <3>2. [pr[a] EXCEPT !.state = "closed"] \in PrType
      BY DEF TypeOK, PrType
    <3> QED
      BY <2>2, <3>1, <3>2 DEF TypeOK, GateChanges, PersonCloses
  <2>3. (base' = base \/ base' = base + 1)
        /\ (BaseMoves => pr' = pr)
    BY DEF OutsideStep, WorkerPushes, GateChanges, PersonCloses, BaseMoves
  <2> QED
    BY <2>1, <2>2, <2>3 DEF OutsideStep, TypeOK
<1> QED
  BY <1>1, <1>2, <1>3
  DEF OutsideRobco, TypeOK, ledgerVars, passVars, checkoutVars

(* The steps around the entries are typed.                                 *)
LEMMA AroundType ==
  TypeOK /\ (BeginPass \/ Skip \/ WaitBehindBarrier \/ EndPass \/ Crash)
    => TypeOK'
<1> SUFFICES ASSUME TypeOK,
                    BeginPass \/ Skip \/ WaitBehindBarrier \/ EndPass \/ Crash
             PROVE  TypeOK'
  OBVIOUS
<1>1. CASE BeginPass
  <2>1. PICK seen \in SUBSET Agents, pulled \in BOOLEAN :
          /\ entry' = Reconciled(seen)
          /\ settling' = Aged(pulled)
          /\ local' = IF pulled THEN base ELSE local
          /\ rows' \subseteq rows
    BY <1>1 DEF BeginPass
  <2>2. entry' \in [Agents -> EntryType]
    <3>1. \A a \in Agents : [entry[a] EXCEPT !.phase = "merged"] \in EntryType
      BY DEF TypeOK, EntryType, Phases
    <3> QED
      BY <2>1, <3>1 DEF Reconciled, TypeOK
  <2>3. settling' \in {Settled} \cup 0..MaxSettle
    BY <2>1, PassAssumption DEF Aged, TypeOK
  <2>4. local' \in 0..base
    BY <2>1 DEF TypeOK
  <2>5. hist' \in HistType
    BY <1>1 DEF BeginPass, TypeOK, HistType
  <2>6. cur' \in 0..(N + 1)
    BY <1>1, PassAssumption DEF BeginPass
  <2> QED
    BY <1>1, <2>1, <2>2, <2>3, <2>4, <2>5, <2>6
    DEF BeginPass, TypeOK, githubVars, boundVars
<1>2. CASE Skip \/ WaitBehindBarrier
  <2>1. /\ cur \in Agents
        /\ entry[cur] \in EntryType
        /\ Proceed(entry[cur], holder)
        /\ UNCHANGED <<settling, saved, githubVars, checkoutVars, boundVars,
                       hist>>
    BY <1>2 DEF Skip, WaitBehindBarrier, At, TypeOK
  <2>2. holder \in {NoAgent} \cup Agents
    BY DEF TypeOK
  <2> QED
    BY <2>1, <2>2, ProceedType DEF TypeOK, githubVars, checkoutVars, boundVars
<1>3. CASE EndPass
  <2>1. saved' \in SavedType
    BY <1>3 DEF EndPass, TypeOK, SavedType
  <2>2. cur' \in 0..(N + 1)
    BY <1>3, PassAssumption DEF EndPass
  <2> QED
    BY <1>3, <2>1, <2>2
    DEF EndPass, TypeOK, ledgerVars, githubVars, checkoutVars, boundVars
<1>4. CASE Crash
  <2>1. entry' \in [Agents -> EntryType]
        /\ settling' \in {Settled} \cup 0..MaxSettle
    BY <1>4 DEF Crash, TypeOK, SavedType
  <2>2. cur' \in 0..(N + 1) /\ snap' \in SnapType
    BY <1>4, PassAssumption DEF Crash, SnapType, NoSnap
  <2>3. crashes' \in 0..MaxCrashes
    BY <1>4, PassAssumption DEF Crash, TypeOK
  <2>4. hist' \in HistType
    BY <1>4 DEF Crash, TypeOK, HistType
  <2> QED
    BY <1>4, <2>1, <2>2, <2>3, <2>4
    DEF Crash, TypeOK, githubVars, checkoutVars
<1> QED
  BY <1>1, <1>2, <1>3, <1>4

(* The initial states have their types.                                    *)
LEMMA InitType == Init => TypeOK
<1> SUFFICES ASSUME Init PROVE TypeOK
  OBVIOUS
<1>1. 1 \in Commits /\ 1 \in Agents /\ 0 \in 0..MaxCommits
  BY PassAssumption
<1>2. entry \in [Agents -> EntryType] /\ saved \in SavedType
  BY NewEntryType DEF Init, SavedType
<1>3. pr \in [Agents -> PrType]
  BY <1>1 DEF Init, PrType
<1>4. hist \in HistType
  BY <1>1 DEF Init, HistType, LandedType
<1>5. snap \in SnapType
  BY <1>1 DEF Init, SnapType, NoSnap
<1>6. /\ cur \in 0..(N + 1)
      /\ settling \in {Settled} \cup 0..MaxSettle
      /\ base \in Nat
      /\ local \in 0..base
      /\ requests \in 0..MaxRequests
      /\ outside \in 0..MaxOutside
      /\ crashes \in 0..MaxCrashes
  BY PassAssumption DEF Init
<1>7. /\ pc = "idle"
      /\ holder \in {NoAgent} \cup Agents
      /\ rows \subseteq Agents
  BY DEF Init
<1> QED
  BY <1>2, <1>3, <1>4, <1>5, <1>6, <1>7 DEF TypeOK

(* Every variable keeps its type, whatever happens.                        *)
THEOREM TypeCorrect == Spec => []TypeOK
<1>1. TypeOK /\ [Next]_vars => TypeOK'
  <2>1. TypeOK /\ UNCHANGED vars => TypeOK'
    BY DEF TypeOK, vars, ledgerVars, passVars, githubVars, checkoutVars,
           boundVars
  <2> QED
    BY <2>1, LookType, ActType, OperatorType, OutsideType, AroundType
    DEF Next, PassStep
<1> QED
  BY <1>1, InitType, PTL DEF Spec

-----------------------------------------------------------------------------
(* What a halt leaves behind                                               *)

(* What a halt does to the state: the entry changes as Halt says, the pass *)
(* moves on.                                                               *)
LEMMA HaltEffect ==
  ASSUME TypeOK, cur \in Agents, NEW e \in EntryType,
         NEW slot \in {NoAgent} \cup Agents, NEW reason \in Reasons,
         NEW head \in 0..MaxCommits, NEW onBase \in Nat, NEW past \in HistType,
         HaltWith(e, slot, reason, head, onBase, past)
  PROVE  /\ \A b \in Agents \ {cur} : entry'[b] = entry[b]
         /\ entry'[cur].approval = e.approval
         /\ entry'[cur].override = e.override
         /\ entry'[cur].updateHead = e.updateHead
         /\ entry'[cur].phase = "merged" => e.phase = "merged"
         /\ \/ entry'[cur].recovery.head \in {NoHead, e.recovery.head}
            \/ /\ entry'[cur].recovery.head = head
               /\ head \in hist'.moved[cur]
         /\ \A b \in Agents : past.moved[b] \subseteq hist'.moved[b]
         /\ \A b \in Agents \ {cur} : past.moved[b] = hist'.moved[b]
         /\ hist'.asked = past.asked
         /\ hist'.landed = past.landed
         /\ hist'.updated = past.updated
         /\ hist'.lastMerge = past.lastMerge
         /\ hist'.lifted = past.lifted
<1> DEFINE recheck == Due(entry[cur])
<1>1. recheck \in BOOLEAN /\ head \in Nat
  BY PassAssumption DEF Due
<1>2. PICK session \in SessionFacts :
         /\ Proceed(Halt(e, recheck, reason, head, onBase, session), slot)
         /\ hist' =
              IF ~HandsBack(e, recheck, reason, head, onBase) THEN past
              ELSE [past EXCEPT
                      !.moved[cur] = @ \cup {head},
                      !.handed[cur] = IF session = "confirms"
                                      THEN @ \cup {<<head, onBase>>} ELSE @]
  BY DEF HaltWith
<1>3. session \in Sessions
  BY PassAssumption
<1> DEFINE f == Halt(e, recheck, reason, head, onBase, session)
<1>4. IF HandsBack(e, recheck, reason, head, onBase)
      THEN HaltsTo(e, f, head) ELSE Keeps(e, f)
  BY <1>1, <1>3, HaltKeeps
<1> HIDE DEF recheck, f
<1>5. /\ \A b \in Agents \ {cur} : entry'[b] = entry[b]
      /\ entry'[cur] = f
  BY <1>2 DEF Proceed, TypeOK, f, recheck
<1>6. CASE HandsBack(e, recheck, reason, head, onBase)
  <2>1. /\ hist'.moved = [past.moved EXCEPT ![cur] = @ \cup {head}]
        /\ hist'.asked = past.asked
        /\ hist'.landed = past.landed
        /\ hist'.updated = past.updated
        /\ hist'.lastMerge = past.lastMerge
        /\ hist'.lifted = past.lifted
    BY <1>2, <1>6 DEF HistType
  <2>2. past.moved \in [Agents -> SUBSET Commits]
    BY DEF HistType
  <2> QED
    BY <1>4, <1>5, <1>6, <2>1, <2>2 DEF HaltsTo
<1>7. CASE ~HandsBack(e, recheck, reason, head, onBase)
  BY <1>2, <1>4, <1>5, <1>7 DEF Keeps, SameRequest
<1> QED
  BY <1>6, <1>7

(* Every evaluation of an entry either halts it or moves on to its second  *)
(* half; a case of LookHalts names the entry and the slot it halts with.   *)
LookHalted(e, slot) ==
    \E reason \in Reasons, head \in 0..MaxCommits, onBase \in Nat :
        LookHalts(e, slot, reason, head, onBase)

(* A look either halts at the current entry or goes on to update or to     *)
(* merge.                                                                  *)
LEMMA LookCases ==
  ASSUME TypeOK, Look
  PROVE  /\ Looking
         /\ \/ LookHalted(entry[cur], holder)
            \/ /\ pr[cur].state = "merged"
               /\ LookHalted([entry[cur] EXCEPT !.phase = "merged"], holder)
            \/ LookHalted(Escalate(entry[cur]), holder)
            \/ /\ holder = NoAgent
               /\ LookHalted(Escalate(entry[cur]), cur)
            \/ LookUpdates
            \/ LookSettling
            \/ LookReady
<1>1. cur \in Agents /\ Looking
  BY DEF Look, LookFails, LookConcluded, LookHeld, LookWaitsTurn, LookCapped,
         LookUpdates, LookSettling, LookReady, Readable, Open, Clear, Heads,
         Ready, Looking, At
<1>2. pr[cur].head \in 0..MaxCommits /\ base \in Nat /\ 0 \in 0..MaxCommits /\ 0 \in Nat
  BY <1>1, PassAssumption DEF TypeOK, PrType
<1>3. /\ GateReasons \subseteq Reasons
      /\ {"unreadable", "already_merged", "closed_unmerged",
          "behind_waiting_turn", "behind_update_cap"} \subseteq Reasons
  BY DEF Reasons
<1>4. CASE LookFails
  BY <1>1, <1>2, <1>3, <1>4 DEF LookFails, LookHalted
<1>5. CASE LookConcluded
  BY <1>1, <1>2, <1>3, <1>5 DEF LookConcluded, LookHalted
<1>6. CASE LookHeld
  BY <1>1, <1>2, <1>3, <1>6 DEF LookHeld, LookHalted
<1>7. CASE LookWaitsTurn
  BY <1>1, <1>2, <1>3, <1>7 DEF LookWaitsTurn, LookHalted
<1>8. CASE LookCapped
  BY <1>1, <1>2, <1>3, <1>8 DEF LookCapped, LookHalted, Heads
<1> QED
  BY <1>1, <1>4, <1>5, <1>6, <1>7, <1>8 DEF Look

(* What a look that halts does: it lifts the barrier at most, and touches  *)
(* nothing outside.                                                        *)
LEMMA LookHaltEffect ==
  ASSUME TypeOK, Looking, NEW e \in EntryType,
         NEW slot \in {NoAgent} \cup Agents, LookHalted(e, slot)
  PROVE  /\ \A b \in Agents \ {cur} : entry'[b] = entry[b]
         /\ entry'[cur].approval = e.approval
         /\ entry'[cur].override = e.override
         /\ entry'[cur].updateHead = e.updateHead
         /\ entry'[cur].phase = "merged" => e.phase = "merged"
         /\ \/ entry'[cur].recovery.head \in {NoHead, e.recovery.head}
            \/ entry'[cur].recovery.head \in hist'.moved[cur]
         /\ \A b \in Agents : hist.moved[b] \subseteq hist'.moved[b]
         /\ \A b \in Agents \ {cur} : hist'.moved[b] = hist.moved[b]
         /\ hist'.asked = hist.asked
         /\ hist'.landed = hist.landed
         /\ hist'.updated = hist.updated
         /\ hist'.lastMerge = hist.lastMerge
         /\ hist'.lifted = (hist.lifted \/ Lifts)
<1>1. PICK reason \in Reasons, head \in 0..MaxCommits, onBase \in Nat :
         HaltWith(e, slot, reason, head, onBase, HistAtLook)
  BY DEF LookHalted, LookHalts
<1>2. cur \in Agents
  BY DEF Looking, At
<1>3. /\ HistAtLook \in HistType
      /\ HistAtLook.moved = hist.moved
      /\ HistAtLook.asked = hist.asked
      /\ HistAtLook.landed = hist.landed
      /\ HistAtLook.updated = hist.updated
      /\ HistAtLook.lastMerge = hist.lastMerge
      /\ HistAtLook.lifted = (hist.lifted \/ Lifts)
  BY HistAtLookType DEF HistAtLook, TypeOK, HistType
<1> QED
  BY <1>1, <1>2, <1>3, HaltEffect

-----------------------------------------------------------------------------
(* What every step leaves of a pull request                                *)

(* The revisions of a pull request are only ever added to: what happened   *)
(* to those already there is settled, a merge included.                    *)
PrGrows ==
    \A a \in Agents :
        /\ pr[a].head <= pr'[a].head
        /\ \A c \in Commits :
             c \in pr'[a].forced => c \in pr[a].forced \/ c > pr[a].head
        /\ pr[a].state = "merged" => pr'[a].state = "merged"

(* A commit on top of a branch, whoever pushes it.                         *)
LEMMA AdvancedGrows ==
  ASSUME TypeOK, NEW a \in Agents, NEW rewrites \in BOOLEAN, NEW onto \in Nat,
         NEW g \in GateFacts, pr[a].state = "open",
         pr' = [pr EXCEPT ![a] = Advanced(a, rewrites, onto, g)]
  PROVE  PrGrows /\ \A b \in Agents : pr'[b].state = pr[b].state
<1>1. pr \in [Agents -> PrType] /\ pr[a].head \in Nat
  BY DEF TypeOK, PrType
<1>2. /\ Advanced(a, rewrites, onto, g).head = pr[a].head + 1
      /\ Advanced(a, rewrites, onto, g).state = "open"
      /\ Advanced(a, rewrites, onto, g).forced
           \subseteq pr[a].forced \cup {pr[a].head + 1}
  BY <1>1 DEF Advanced, PrType
<1>3. \A b \in Agents \ {a} : pr'[b] = pr[b]
  BY <1>1
<1>4. \A b \in Agents : pr[b].head \in Nat
  BY <1>1 DEF PrType
<1> QED
  BY <1>1, <1>2, <1>3, <1>4 DEF PrGrows

(* Every step keeps what GitHub has, and only GitHubMerges merges.         *)
LEMMA StepPr ==
  ASSUME TypeOK, [Next]_vars
  PROVE  /\ PrGrows
         /\ ~GitHubMerges =>
              \A a \in Agents :
                pr'[a].state = "merged" => pr[a].state = "merged"
<1>0. \A a \in Agents : pr[a] \in PrType /\ pr[a].head \in Nat
  BY DEF TypeOK, PrType
<1>1. CASE UNCHANGED pr
  BY <1>0, <1>1 DEF PrGrows
<1>2. CASE \E a \in Agents : WorkerPushes(a)
  <2>1. PICK a \in Agents : WorkerPushes(a)
    BY <1>2
  <2>2. PICK force \in BOOLEAN, onto \in {pr[a].builtOn, base}, g \in GateFacts :
          pr' = [pr EXCEPT ![a] = Advanced(a, force, onto, g)]
    BY <2>1 DEF WorkerPushes
  <2>3. onto \in Nat /\ pr[a].state = "open"
    BY <1>0, <2>1 DEF WorkerPushes, TypeOK, PrType
  <2>4. PrGrows /\ \A b \in Agents : pr'[b].state = pr[b].state
    BY <2>2, <2>3, AdvancedGrows
  <2> QED
    BY <2>4
<1>3. CASE \E a \in Agents : GateChanges(a) \/ PersonCloses(a)
  <2>1. PICK a \in Agents : GateChanges(a) \/ PersonCloses(a)
    BY <1>3
  <2>2. /\ pr[a].state = "open"
        /\ \/ \E g \in GateFacts : pr' = [pr EXCEPT ![a].gate = g]
           \/ pr' = [pr EXCEPT ![a].state = "closed"]
    BY <2>1 DEF GateChanges, PersonCloses
  <2>3. \A b \in Agents : /\ pr'[b].head = pr[b].head
                          /\ pr'[b].forced = pr[b].forced
                          /\ b # a => pr'[b].state = pr[b].state
                          /\ pr'[a].state \in {"open", "closed"}
    <3>1. pr \in [Agents -> PrType]
      BY DEF TypeOK
    <3>2. CASE \E g \in GateFacts : pr' = [pr EXCEPT ![a].gate = g]
      BY <1>0, <2>2, <3>1, <3>2 DEF PrType
    <3>3. CASE pr' = [pr EXCEPT ![a].state = "closed"]
      BY <1>0, <3>1, <3>3 DEF PrType
    <3> QED
      BY <2>2, <3>2, <3>3
  <2> QED
    BY <1>0, <2>2, <2>3 DEF PrGrows
<1>4. CASE GitHubUpdates
  <2>1. PICK g \in GateFacts :
          pr' = [pr EXCEPT ![cur] = Advanced(cur, UpdateRewrites, base, g)]
    BY <1>4 DEF GitHubUpdates
  <2>2. cur \in Agents /\ base \in Nat /\ pr[cur].state = "open"
    BY <1>4 DEF GitHubUpdates, At, TypeOK
  <2>3. PrGrows /\ \A b \in Agents : pr'[b].state = pr[b].state
    BY <2>1, <2>2, AdvancedGrows, PassAssumption
  <2> QED
    BY <2>3
<1>5. CASE GitHubMerges
  <2>1. cur \in Agents /\ pr' = [pr EXCEPT ![cur].state = "merged"]
    BY <1>5 DEF GitHubMerges, At
  <2> QED
    BY <1>0, <1>5, <2>1 DEF PrGrows, TypeOK, PrType
<1> QED
  BY <1>1, <1>2, <1>3, <1>4, <1>5
  DEF Next, PassStep, Act, OperatorStep, OutsideStep, vars, githubVars,
      BeginPass, Skip, WaitBehindBarrier, Look, LookFails, LookConcluded,
      LookHeld, LookWaitsTurn, LookCapped, LookUpdates, LookSettling, LookReady,
      Readable, Open, Clear, Heads, Ready, Looking, UpdateBranch, UpdateUnheard,
      UpdateFails, RequestStale, Merge, MergeUnheard, MergeFails, EndPass, Crash,
      RuntimeApproval, DiscordApproval, OperatorOverride, BranchUpdated,
      DrainRequest, BaseMoves

-----------------------------------------------------------------------------
(* Worktrees outlive their pull requests                                   *)

(* An updated branch has a new head.                                       *)
LEMMA GitHubUpdatesMoves ==
  ASSUME TypeOK, GitHubUpdates
  PROVE  pr' # pr
<1>1. PICK g \in GateFacts :
        pr' = [pr EXCEPT ![cur] = Advanced(cur, UpdateRewrites, base, g)]
  BY DEF GitHubUpdates
<1>2. cur \in Agents /\ pr[cur] \in PrType
  BY DEF GitHubUpdates, At, TypeOK
<1>3. Advanced(cur, UpdateRewrites, base, g).head = pr[cur].head + 1
  BY <1>2 DEF Advanced, PrType
<1>4. pr[cur].head \in Nat
  BY <1>2 DEF PrType
<1>5. pr'[cur] = Advanced(cur, UpdateRewrites, base, g)
  BY <1>1, <1>2 DEF TypeOK
<1> QED
  BY <1>3, <1>4, <1>5

(* The second half of an entry's step, unless robco hears of a merge,      *)
(* halts the entry with nothing decided about it but the request it spent. *)
LEMMA ActCases ==
  ASSUME TypeOK, Act, ~Merge
  PROVE  /\ cur \in Agents
         /\ \E e \in EntryType, reason \in Reasons, past \in HistType :
              /\ e.phase = entry[cur].phase
              /\ e.recovery = entry[cur].recovery
              /\ past.asked = hist.asked
              /\ past.handed = hist.handed
              /\ \A b \in Agents : hist.moved[b] \subseteq past.moved[b]
              /\ \A b \in Agents \ {cur} : past.moved[b] = hist.moved[b]
              /\ ~MergeUnheard => past.landed = hist.landed
              /\ past.lastMerge = hist.lastMerge
              /\ past.lifted = hist.lifted
              /\ ~GitHubUpdates => past.updated = hist.updated
              /\ GitHubUpdates =>
                    /\ past.updated = hist.updated \cup {cur}
                    /\ reason \in {"behind_branch_updated",
                                   "behind_update_failed"}
              /\ HaltWith(e, holder, reason, snap.head, snap.base, past)
<1>1. cur \in Agents /\ entry[cur] \in EntryType /\ hist \in HistType
  BY DEF Act, UpdateBranch, UpdateUnheard, UpdateFails, RequestStale,
         MergeUnheard, MergeFails, GitHubUpdates, GitHubMerges, At, TypeOK
<1>2. {"behind_branch_updated", "behind_update_failed", "request_stale",
       "merge_failed", "merge_refused"} \subseteq Reasons
  BY DEF Reasons
<1>3. snap.head \in 0..MaxCommits /\ snap.head \in Nat
  BY PassAssumption DEF TypeOK, SnapType
<1>4. \A fetched \in BOOLEAN :
        /\ Confirming(fetched).entry \in EntryType
        /\ Confirming(fetched).entry.phase = entry[cur].phase
        /\ Confirming(fetched).entry.recovery = entry[cur].recovery
  BY <1>1, <1>3 DEF Confirming, Confirm, OverrideSpent, EntryType
<1>5. Fetches \subseteq BOOLEAN
  BY DEF Fetches
<1>6. CASE UpdateBranch
  <2> DEFINE e == [entry[cur] EXCEPT !.updateHead = snap.head]
             past == [hist EXCEPT !.moved[cur] = @ \cup {snap.head},
                                  !.updated = @ \cup {cur}]
  <2>1. /\ e \in EntryType
        /\ e.phase = entry[cur].phase
        /\ e.recovery = entry[cur].recovery
    BY <1>1, <1>3 DEF EntryType
  <2>2. /\ past \in HistType
        /\ past.asked = hist.asked
        /\ past.handed = hist.handed
        /\ \A b \in Agents : hist.moved[b] \subseteq past.moved[b]
        /\ \A b \in Agents \ {cur} : past.moved[b] = hist.moved[b]
        /\ past.landed = hist.landed
        /\ past.lastMerge = hist.lastMerge
        /\ past.lifted = hist.lifted
        /\ past.updated = hist.updated \cup {cur}
    <3>1. snap.head \in Commits
      BY <1>6 DEF UpdateBranch, GitHubUpdates, At, TypeOK
    <3>2. /\ hist.moved[cur] \cup {snap.head} \in SUBSET Commits
          /\ hist.updated \cup {cur} \in SUBSET Agents
      BY <1>1, <3>1 DEF HistType
    <3> QED
      BY <1>1, <3>2 DEF HistType
  <2>3. HaltWith(e, holder, "behind_branch_updated", snap.head, snap.base, past)
    BY <1>6 DEF UpdateBranch
  <2>4. GitHubUpdates /\ ~MergeUnheard
    BY <1>6 DEF UpdateBranch, MergeUnheard, GitHubUpdates, GitHubMerges, At
  <2> HIDE DEF e, past
  <2> QED
    BY <1>1, <1>2, <2>1, <2>2, <2>3, <2>4
<1>7. CASE UpdateUnheard
  <2> DEFINE past == [hist EXCEPT !.updated = @ \cup {cur}]
  <2>1. /\ past \in HistType
        /\ past.asked = hist.asked
        /\ past.handed = hist.handed
        /\ past.moved = hist.moved
        /\ past.landed = hist.landed
        /\ past.lastMerge = hist.lastMerge
        /\ past.lifted = hist.lifted
        /\ past.updated = hist.updated \cup {cur}
    <3>1. hist.updated \cup {cur} \in SUBSET Agents
      BY <1>1 DEF HistType
    <3> QED
      BY <1>1, <3>1 DEF HistType
  <2>2. HaltWith(entry[cur], holder, "behind_update_failed",
                 snap.head, snap.base, past)
    BY <1>7 DEF UpdateUnheard
  <2>3. GitHubUpdates /\ ~MergeUnheard
    BY <1>7 DEF UpdateUnheard, MergeUnheard, GitHubUpdates, GitHubMerges, At
  <2> HIDE DEF past
  <2> QED
    BY <1>1, <1>2, <2>1, <2>2, <2>3
<1>8. CASE UpdateFails
  <2>1. ~GitHubUpdates
    BY <1>8, GitHubUpdatesMoves DEF UpdateFails, githubVars
  <2> QED
    BY <1>1, <1>2, <1>8, <2>1 DEF UpdateFails
<1>9. CASE RequestStale
  <2>1. ~GitHubUpdates
    BY <1>9 DEF RequestStale, GitHubUpdates, At
  <2> QED
    BY <1>1, <1>2, <1>4, <1>5, <1>9, <2>1 DEF RequestStale
<1>10. CASE MergeUnheard
  <2>1. PICK fetched \in BOOLEAN :
          HaltWith(Confirming(fetched).entry, holder, "merge_failed",
                   snap.head, snap.base, Landing(Confirming(fetched).word))
    BY <1>5, <1>10 DEF MergeUnheard
  <2> DEFINE past == Landing(Confirming(fetched).word)
  <2>2. /\ past.asked = hist.asked
        /\ past.handed = hist.handed
        /\ past.moved = hist.moved
        /\ past.lastMerge = hist.lastMerge
        /\ past.lifted = hist.lifted
        /\ past.updated = hist.updated
    BY <1>1 DEF Landing, HistType
  <2>3. past \in HistType
    BY <1>1, LandingType
  <2>4. HaltWith(Confirming(fetched).entry, holder, "merge_failed",
                 snap.head, snap.base, past)
    BY <2>1
  <2>5. ~GitHubUpdates
    BY <1>10 DEF MergeUnheard, GitHubMerges, GitHubUpdates, At
  <2> HIDE DEF past
  <2> QED
    BY <1>1, <1>2, <1>4, <1>10, <2>2, <2>3, <2>4, <2>5
<1>11. CASE MergeFails
  <2>1. ~GitHubUpdates
    BY <1>11 DEF MergeFails, GitHubUpdates, At
  <2> QED
    BY <1>1, <1>2, <1>4, <1>5, <1>11, <2>1 DEF MergeFails
<1> QED
  BY <1>6, <1>7, <1>8, <1>9, <1>10, <1>11 DEF Act

(* An entry a step calls merged was called so before, or GitHub has merged *)
(* its pull request.                                                       *)
LEMMA StepMerged ==
  ASSUME TypeOK, [Next]_vars, ~Crash, NEW a \in Agents,
         entry'[a].phase = "merged"
  PROVE  entry[a].phase = "merged" \/ pr'[a].state = "merged"
<1>0. \A b \in Agents : entry[b] \in EntryType /\ pr[b] \in PrType
  BY DEF TypeOK
<1>1. CASE UNCHANGED entry
  BY <1>1
<1>2. CASE OperatorStep
  <2>1. PICK b \in Agents :
          \/ \E head \in Commits : RuntimeApproval(b, head)
          \/ DiscordApproval(b)
          \/ OperatorOverride(b)
          \/ BranchUpdated(b)
    BY <1>2 DEF OperatorStep
  <2>2. entry'[b].phase = "merged" => entry[b].phase = "merged"
    <3> DEFINE revived == EnsureLandable(entry[b])
    <3>1. /\ revived \in EntryType
          /\ revived.phase = "merged" => entry[b].phase = "merged"
      BY <1>0, EnsureLandableKeeps DEF Keeps, SameRequest
    <3>2. pr[b].head \in Nat
      BY <1>0 DEF PrType
    <3> HIDE DEF revived
    <3>3. CASE \E head \in Commits : RuntimeApproval(b, head)
      <4>1. PICK head \in Commits :
              entry'[b] = RecordApproval(revived, head)
        BY <3>3 DEF RuntimeApproval, TypeOK, revived
      <4> QED
        BY <3>1, <4>1, RecordApprovalType
    <3>4. CASE DiscordApproval(b)
      <4> DEFINE e == entry[b]
                 head == pr[b].head
      <4>1. entry'[b] = RecordApproval(e, head)
        BY <3>4 DEF DiscordApproval, TypeOK
      <4>2. e \in EntryType /\ head \in Nat
        BY <1>0, <3>2
      <4>3. RecordApproval(e, head).phase = "merged" => e.phase = "merged"
        <5> HIDE DEF e, head
        <5> QED
          BY <4>2, RecordApprovalType
      <4> QED
        BY <4>1, <4>3
    <3>5. CASE OperatorOverride(b)
      <4>1. \/ entry'[b] = [revived EXCEPT !.override = pr[b].head]
            \/ entry'[b] = revived
        BY <3>5 DEF OperatorOverride, TypeOK, revived
      <4> QED
        BY <3>1, <4>1 DEF EntryType
    <3>6. CASE BranchUpdated(b)
      <4>1. entry'[b] = ResetBranchUpdates(entry[b])
        BY <3>6 DEF BranchUpdated, TypeOK
      <4> QED
        BY <1>0, <4>1, ResetBranchUpdatesKeeps DEF Keeps, SameRequest
    <3> QED
      BY <2>1, <3>3, <3>4, <3>5, <3>6
  <2>3. \A c \in Agents \ {b} : entry'[c] = entry[c]
    BY <2>1 DEF RuntimeApproval, DiscordApproval, OperatorOverride,
                BranchUpdated, TypeOK
  <2> QED
    BY <2>2, <2>3
<1>3. CASE BeginPass
  <2>1. entry'[a] = entry[a] \/ pr[a].state = "merged"
    BY <1>3 DEF BeginPass, Reconciled
  <2> QED
    BY <1>3, <2>1 DEF BeginPass, githubVars
<1>4. CASE Skip \/ WaitBehindBarrier
  BY <1>0, <1>4 DEF Skip, WaitBehindBarrier, Proceed, TypeOK
<1>5. CASE Look
  <2>1. Looking /\ cur \in Agents /\ holder \in {NoAgent} \cup Agents
    BY <1>5, LookCases DEF Looking, At, TypeOK
  <2>2. pr' = pr
    BY <2>1 DEF Looking, githubVars
  <2>3. /\ Escalate(entry[cur]) \in EntryType
        /\ Escalate(entry[cur]).phase = "escalated"
    BY <1>0, <2>1, EscalateKeeps DEF Escalate, Keeps, EntryType
  <2>4. /\ [entry[cur] EXCEPT !.phase = "merged"] \in EntryType
        /\ [entry[cur] EXCEPT !.phase = "merged"].phase = "merged"
    BY <1>0, <2>1 DEF EntryType, Phases
  <2>5. CASE LookHalted(entry[cur], holder)
    BY <1>0, <2>1, <2>5, LookHaltEffect
  <2>6. CASE /\ pr[cur].state = "merged"
             /\ LookHalted([entry[cur] EXCEPT !.phase = "merged"], holder)
    BY <2>1, <2>2, <2>4, <2>6, LookHaltEffect
  <2>7. CASE \E slot \in {holder, cur} : LookHalted(Escalate(entry[cur]), slot)
    <3>1. PICK slot \in {NoAgent} \cup Agents :
            LookHalted(Escalate(entry[cur]), slot)
      BY <2>1, <2>7
    <3> DEFINE e == Escalate(entry[cur])
    <3>2. /\ \A b \in Agents \ {cur} : entry'[b] = entry[b]
          /\ entry'[cur].phase = "merged" => e.phase = "merged"
      BY <2>1, <2>3, <3>1, LookHaltEffect
    <3>3. e.phase # "merged"
      BY <2>3
    <3> QED
      <4> HIDE DEF e
      <4> QED
        BY <3>2, <3>3
  <2>8. CASE LookUpdates \/ LookSettling \/ LookReady
    <3>1. CASE LookUpdates
      BY <1>0, <2>1, <3>1 DEF LookUpdates, TypeOK, EntryType
    <3>2. CASE LookSettling
      BY <1>0, <2>1, <3>2 DEF LookSettling, Proceed, TypeOK, EntryType
    <3>3. CASE LookReady
      BY <3>3 DEF LookReady
    <3> QED
      BY <2>8, <3>1, <3>2, <3>3
  <2> QED
    BY <1>5, <2>5, <2>6, <2>7, <2>8, LookCases
<1>6. CASE Act /\ ~Merge
  <2>1. PICK e \in EntryType, reason \in Reasons, past \in HistType :
          /\ e.phase = entry[cur].phase
          /\ HaltWith(e, holder, reason, snap.head, snap.base, past)
    BY <1>6, ActCases
  <2>2. /\ cur \in Agents
        /\ snap.head \in 0..MaxCommits
        /\ snap.base \in Nat
        /\ holder \in {NoAgent} \cup Agents
    BY <1>6, ActCases DEF TypeOK, SnapType
  <2> QED
    BY <2>1, <2>2, HaltEffect
<1>7. CASE Merge
  <2>1. cur \in Agents /\ pr' = [pr EXCEPT ![cur].state = "merged"]
    BY <1>7 DEF Merge, GitHubMerges, At
  <2>2. pr'[cur].state = "merged"
    BY <1>0, <2>1 DEF TypeOK, PrType
  <2>3. \A b \in Agents \ {cur} : entry'[b] = entry[b]
    BY <1>7, <2>1 DEF Merge, Proceed, TypeOK
  <2> QED
    BY <2>2, <2>3
<1> QED
  BY <1>1, <1>2, <1>3, <1>4, <1>5, <1>6, <1>7
  DEF Next, PassStep, OutsideStep, vars, ledgerVars, WorkerPushes, GateChanges,
      PersonCloses, BaseMoves, OutsideRobco, EndPass

(* The ledger file is only ever written whole, from memory.                *)
LEMMA StepSaved ==
  ASSUME TypeOK, [Next]_vars
  PROVE  saved' = saved \/ saved'.entry = entry'
<1>1. CASE EndPass
  BY <1>1 DEF EndPass, ledgerVars
<1>2. CASE OperatorStep
  <2>1. saved' = saved \/ saved' = [saved EXCEPT !.entry = entry']
    BY <1>2 DEF OperatorStep, RuntimeApproval, DiscordApproval,
                OperatorOverride, BranchUpdated, Checkpoint
  <2> QED
    BY <2>1 DEF TypeOK, SavedType
<1>3. CASE ~EndPass /\ ~OperatorStep
  BY <1>3
  DEF Next, PassStep, OutsideStep, vars, WorkerPushes, GateChanges,
      PersonCloses, BaseMoves, OutsideRobco, BeginPass, Skip,
      WaitBehindBarrier, Look, LookFails, LookConcluded, LookHeld,
      LookWaitsTurn, LookCapped, LookUpdates, LookSettling, LookReady,
      Readable, Open, Clear, Heads, Ready, Looking, UpdateBranch,
      UpdateUnheard, UpdateFails, RequestStale, Merge, MergeUnheard, MergeFails,
      GitHubUpdates, GitHubMerges, Act, Crash
<1> QED
  BY <1>1, <1>2, <1>3

(* A worktree is removed, and a pull request called merged in the ledger,  *)
(* only after GitHub merged it: nothing a worker did is lost, whichever    *)
(* pass crashes and whatever is restored (exec::clean_up_agent,            *)
(* merge_repo_pass::run).                                                  *)
THEOREM WorktreesKept == Spec => []WorktreesKeptUntilMerged
<1>1. Init => WorktreesKeptUntilMerged
  BY DEF Init, WorktreesKeptUntilMerged, NewEntry
<1>2. TypeOK /\ WorktreesKeptUntilMerged /\ [Next]_vars
        => WorktreesKeptUntilMerged'
  <2> SUFFICES ASSUME TypeOK, WorktreesKeptUntilMerged, [Next]_vars,
                      NEW a \in Agents,
                      \/ entry'[a].phase = "merged"
                      \/ saved'.entry[a].phase = "merged"
                      \/ a \notin rows'
               PROVE  pr'[a].state = "merged"
    BY DEF WorktreesKeptUntilMerged
  <2>1. /\ entry[a].phase = "merged" => pr[a].state = "merged"
        /\ saved.entry[a].phase = "merged" => pr[a].state = "merged"
        /\ a \notin rows => pr[a].state = "merged"
    BY DEF WorktreesKeptUntilMerged
  <2>2. pr[a].state = "merged" => pr'[a].state = "merged"
    BY StepPr DEF PrGrows
  <2>3. CASE entry'[a].phase = "merged"
    <3>1. CASE Crash
      BY <2>1, <2>2, <2>3, <3>1 DEF Crash
    <3> QED
      BY <2>1, <2>2, <2>3, <3>1, StepMerged
  <2>4. CASE saved'.entry[a].phase = "merged"
    BY <2>1, <2>2, <2>3, <2>4, StepSaved
  <2>5. CASE a \notin rows'
    <3>1. rows' = rows \/ BeginPass
      BY DEF Next, PassStep, OperatorStep, OutsideStep, vars, WorkerPushes,
             GateChanges, PersonCloses, BaseMoves, OutsideRobco, Skip,
             WaitBehindBarrier, Look, LookFails, LookConcluded, LookHeld,
             LookWaitsTurn, LookCapped, LookUpdates, LookSettling, LookReady,
             Readable, Open, Clear, Heads, Ready, Looking, UpdateBranch,
             UpdateUnheard, UpdateFails, RequestStale, Merge, MergeUnheard,
             MergeFails, GitHubUpdates, GitHubMerges, Act, EndPass, Crash,
             RuntimeApproval, DiscordApproval, OperatorOverride,
             BranchUpdated, DrainRequest, checkoutVars
    <3>2. BeginPass => a \notin rows \/ entry'[a].phase = "merged"
      BY <2>5 DEF BeginPass
    <3> QED
      BY <2>1, <2>2, <2>3, <2>5, <3>1, <3>2
  <2> QED
    BY <2>3, <2>4, <2>5
<1> QED
  BY <1>1, <1>2, TypeCorrect, PTL DEF Spec

-----------------------------------------------------------------------------
(* Merges of a repository are serialised                                   *)

(* The barrier is dropped only when nothing is left to wait for, and the   *)
(* pass that reaches the merge has dropped it.                             *)
BarrierInv ==
    /\ hist.lastMerge <= base
    /\ settling = Settled => CaughtUp
    /\ pc = "merge" => settling = Settled

(* A halted entry is left for the next one, and only its own slot may be   *)
(* given back.                                                             *)
LEMMA HaltMovesOn ==
  ASSUME NEW e, NEW slot, NEW reason, NEW head, NEW onBase, NEW past,
         HaltWith(e, slot, reason, head, onBase, past)
  PROVE  /\ pc' = "look"
         /\ cur' = cur + 1
         /\ slot # cur => holder' = slot
  BY DEF HaltWith, Proceed

(* The second half of an entry's step leaves the barrier's history alone,  *)
(* unless robco hears of a merge.                                          *)
LEMMA ActHistory ==
  ASSUME TypeOK, Act, ~Merge
  PROVE  /\ cur \in Agents
         /\ hist'.asked = hist.asked
         /\ \A b \in Agents : hist.moved[b] \subseteq hist'.moved[b]
         /\ \A b \in Agents \ {cur} : hist'.moved[b] = hist.moved[b]
         /\ ~MergeUnheard => hist'.landed = hist.landed
         /\ hist'.lastMerge = hist.lastMerge
         /\ hist'.lifted = hist.lifted
         /\ ~GitHubUpdates => hist'.updated = hist.updated
         /\ \A b \in Agents \ {cur} : entry'[b] = entry[b]
         /\ pc' = "look"
         /\ cur' = cur + 1
         /\ holder # cur => holder' = holder
<1>1. PICK e \in EntryType, reason \in Reasons, past \in HistType :
        /\ past.asked = hist.asked
        /\ \A b \in Agents : hist.moved[b] \subseteq past.moved[b]
        /\ \A b \in Agents \ {cur} : past.moved[b] = hist.moved[b]
        /\ ~MergeUnheard => past.landed = hist.landed
        /\ past.lastMerge = hist.lastMerge
        /\ past.lifted = hist.lifted
        /\ ~GitHubUpdates => past.updated = hist.updated
        /\ HaltWith(e, holder, reason, snap.head, snap.base, past)
  BY ActCases
<1>2. /\ cur \in Agents
      /\ snap.head \in 0..MaxCommits
      /\ snap.base \in Nat
      /\ holder \in {NoAgent} \cup Agents
  BY ActCases DEF TypeOK, SnapType
<1> QED
  BY <1>1, <1>2, HaltEffect, HaltMovesOn

(* A look that ends in the merge to come has dropped the barrier.          *)
LEMMA LookHistory ==
  ASSUME TypeOK, Look
  PROVE  /\ hist'.asked = hist.asked
         /\ \A b \in Agents : hist.moved[b] \subseteq hist'.moved[b]
         /\ \A b \in Agents \ {cur} : hist'.moved[b] = hist.moved[b]
         /\ hist'.landed = hist.landed
         /\ hist'.updated = hist.updated
         /\ hist'.lastMerge = hist.lastMerge
         /\ hist'.lifted = (hist.lifted \/ Lifts)
         /\ pc' = "merge" => ~BarrierHeld
<1>1. Looking /\ cur \in Agents /\ holder \in {NoAgent} \cup Agents
  BY LookCases DEF Looking, At, TypeOK
<1>2. entry[cur] \in EntryType /\ hist \in HistType
  BY <1>1 DEF TypeOK
<1>3. ASSUME NEW e \in EntryType, NEW slot \in {NoAgent} \cup Agents,
             LookHalted(e, slot)
      PROVE  /\ hist'.asked = hist.asked
             /\ \A b \in Agents : hist.moved[b] \subseteq hist'.moved[b]
             /\ \A b \in Agents \ {cur} : hist'.moved[b] = hist.moved[b]
             /\ hist'.landed = hist.landed
             /\ hist'.updated = hist.updated
             /\ hist'.lastMerge = hist.lastMerge
             /\ hist'.lifted = (hist.lifted \/ Lifts)
             /\ pc' = "look"
  BY <1>1, <1>3, LookHaltEffect, HaltMovesOn DEF LookHalted, LookHalts
<1>4. CASE LookUpdates \/ LookSettling \/ LookReady
  <2>1. hist' = HistAtLook /\ (pc' = "merge" => ~BarrierHeld)
    BY <1>4 DEF LookUpdates, LookSettling, LookReady, Proceed
  <2> QED
    BY <1>2, <2>1 DEF HistAtLook, HistType
<1>5. /\ [entry[cur] EXCEPT !.phase = "merged"] \in EntryType
      /\ Escalate(entry[cur]) \in EntryType
  BY <1>2, EscalateKeeps DEF EntryType, Phases, Keeps
<1>6. CASE LookHalted(entry[cur], holder)
  BY <1>1, <1>2, <1>3, <1>6
<1>7. CASE LookHalted([entry[cur] EXCEPT !.phase = "merged"], holder)
  BY <1>1, <1>3, <1>5, <1>7
<1>8. CASE \/ LookHalted(Escalate(entry[cur]), holder)
           \/ LookHalted(Escalate(entry[cur]), cur)
  BY <1>1, <1>3, <1>5, <1>8
<1> QED
  BY <1>4, <1>6, <1>7, <1>8, LookCases

(* Every step keeps the barrier's invariant, and merges only when it       *)
(* allows.                                                                 *)
LEMMA StepBarrier ==
  ASSUME TypeOK, BarrierInv, [Next]_vars
  PROVE  BarrierInv'
<1>1. /\ base \in Nat
      /\ local \in Nat
      /\ local <= base
      /\ hist \in HistType
      /\ hist.lastMerge \in Nat
      /\ hist.lastMerge <= base
      /\ settling = Settled => local >= hist.lastMerge \/ hist.lifted
      /\ pc = "merge" => settling = Settled
  BY DEF TypeOK, HistType, BarrierInv, CaughtUp
<1> SUFFICES /\ hist'.lastMerge <= base'
             /\ settling' = Settled => local' >= hist'.lastMerge \/ hist'.lifted
             /\ pc' = "merge" => settling' = Settled
  BY DEF BarrierInv, CaughtUp
<1>2. CASE UNCHANGED vars
  BY <1>1, <1>2 DEF vars, ledgerVars, passVars, githubVars, checkoutVars
<1>3. CASE OutsideStep
  <2>1. UNCHANGED <<ledgerVars, passVars, checkoutVars, hist>>
    BY <1>3 DEF OutsideStep, WorkerPushes, GateChanges, PersonCloses,
                BaseMoves, OutsideRobco
  <2>2. base' = base \/ base' = base + 1
    BY <1>3 DEF OutsideStep, WorkerPushes, GateChanges, PersonCloses, BaseMoves
  <2> QED
    BY <1>1, <2>1, <2>2 DEF ledgerVars, passVars, checkoutVars
<1>4. CASE OperatorStep
  <2>1. PICK a \in Agents :
          \/ \E head \in Commits : RuntimeApproval(a, head)
          \/ DiscordApproval(a)
          \/ OperatorOverride(a)
          \/ BranchUpdated(a)
    BY <1>4 DEF OperatorStep
  <2>2. UNCHANGED <<settling, pc, base, local>>
    BY <2>1 DEF RuntimeApproval, DiscordApproval, OperatorOverride,
                BranchUpdated, DrainRequest, passVars, githubVars, checkoutVars
  <2>3. hist'.lastMerge = hist.lastMerge /\ hist'.lifted = hist.lifted
    BY <1>1, <2>1 DEF RuntimeApproval, DiscordApproval, OperatorOverride,
                      BranchUpdated, HistType
  <2> QED
    BY <1>1, <2>2, <2>3
<1>5. CASE BeginPass
  <2>1. /\ base' = base
        /\ pc' = "look"
        /\ local' = local \/ local' = base
        /\ settling' = Settled => settling = Settled \/ local' = base
    BY <1>5 DEF BeginPass, Aged, githubVars, TypeOK
  <2>2. hist'.lastMerge = hist.lastMerge /\ hist'.lifted = hist.lifted
    BY <1>1, <1>5 DEF BeginPass, HistType
  <2> QED
    BY <1>1, <2>1, <2>2
<1>6. CASE Skip \/ WaitBehindBarrier \/ EndPass
  <2>1. UNCHANGED <<settling, base, local, hist>> /\ pc' # "merge"
    BY <1>6 DEF Skip, WaitBehindBarrier, EndPass, Proceed, githubVars,
                checkoutVars, ledgerVars
  <2> QED
    BY <1>1, <2>1
<1>7. CASE Look
  <2>1. /\ settling' = IF BarrierHeld THEN settling ELSE Settled
        /\ base' = base
        /\ local' = local
    BY <1>7, LookCases DEF Looking, githubVars, checkoutVars
  <2> QED
    BY <1>1, <1>7, <2>1, LookHistory DEF Lifts, BarrierHeld
<1>8. CASE Act /\ ~Merge
  <2>1. UNCHANGED <<settling, local>> /\ (base' = base \/ base' = base + 1)
    BY <1>8 DEF Act, UpdateBranch, UpdateUnheard, UpdateFails, RequestStale,
                MergeUnheard, MergeFails, GitHubUpdates, GitHubMerges,
                githubVars, checkoutVars
  <2> QED
    BY <1>1, <1>8, <2>1, ActHistory
<1>9. CASE Merge
  <2>1. base' = base + 1 /\ settling' = 0 /\ pc' = "look"
    BY <1>9 DEF Merge, GitHubMerges, Proceed
  <2>2. hist'.lastMerge = base + 1
    BY <1>1, <1>9 DEF Merge, Landing, HistType
  <2> QED
    BY <1>1, <2>1, <2>2
<1>10. CASE Crash
  <2>1. UNCHANGED <<base, local>> /\ pc' = "idle"
    BY <1>10 DEF Crash, githubVars, checkoutVars
  <2>2. hist'.lastMerge = hist.lastMerge /\ hist'.lifted
    BY <1>1, <1>10 DEF Crash, HistType
  <2> QED
    BY <1>1, <2>1, <2>2
<1> QED
  BY <1>2, <1>3, <1>4, <1>5, <1>6, <1>7, <1>8, <1>9, <1>10 DEF Next, PassStep

(* robco merges into a repository only when the primary checkout has its   *)
(* previous merge, or has given up waiting for it (merge_settle::barrier). *)
THEOREM MergesSerialised == Spec => SerialisedMerges
<1>1. Init => BarrierInv
  BY DEF Init, BarrierInv, CaughtUp
<1>2. TypeOK /\ BarrierInv /\ [Next]_vars => BarrierInv'
  BY StepBarrier
<1>3. TypeOK /\ BarrierInv /\ [Next]_vars
        => [\A a \in Agents : Merging(a) => CaughtUp]_vars
  <2> SUFFICES ASSUME TypeOK, BarrierInv, [Next]_vars, NEW a \in Agents,
                      Merging(a)
               PROVE  CaughtUp
    OBVIOUS
  <2>1. pr[a].state # "merged" /\ pr'[a].state = "merged"
    BY DEF Merging
  <2>2. GitHubMerges
    BY <2>1, StepPr
  <2> QED
    BY <2>2 DEF GitHubMerges, At, BarrierInv
<1> QED
  BY <1>1, <1>2, <1>3, TypeCorrect, PTL DEF Spec, SerialisedMerges

-----------------------------------------------------------------------------
(* One branch is updated per pass                                          *)

(* An entry being updated holds the slot and is the first of the pass; one *)
(* that was keeps it for the entries behind it.                            *)
SlotInv ==
    /\ OneUpdatePerPass
    /\ pc = "update" => holder = cur /\ hist.updated = {}
    /\ pc # "idle" => \A a \in hist.updated : holder = a /\ a < cur

(* A branch just updated, as robco sees it or not, is neither held nor     *)
(* handed back: its entry stays in the phase it was in                     *)
(* (merge_hold::bounded, remedy::classify).                                *)
LEMMA UpdatedKeepsPhase ==
  ASSUME NEW e \in EntryType, NEW recheck \in BOOLEAN, NEW head, NEW onBase,
         NEW session,
         NEW reason \in {"behind_branch_updated", "behind_update_failed"}
  PROVE  Halt(e, recheck, reason, head, onBase, session).phase = e.phase
<1> DEFINE f == IF recheck THEN RecheckCharge(e, reason, head) ELSE e
<1>1. f.phase = e.phase
  BY DEF RecheckCharge, EntryType
<1>2. Halt(e, recheck, reason, head, onBase, session)
        = Hold(f, reason, head, onBase, session)
  BY DEF Halt
<1>3. ~Bounded(reason) /\ ~Recoverable(reason)
  BY DEF Bounded, Recoverable
<1> HIDE DEF f
<1>4. HoldRecorded(f, reason, head) /\ HoldCharge(f, reason, head) = f
  BY <1>3 DEF HoldRecorded, HoldSpent, HoldCapReached, HoldCharge
<1>5. Consider(f, reason, head, onBase, session) = f
  BY <1>3 DEF Consider, PlanIdle
<1>6. Hold(f, reason, head, onBase, session) = f
  BY <1>4, <1>5 DEF Hold
<1> QED
  BY <1>1, <1>2, <1>6

(* Every step keeps the slot's invariant: one branch updated, and the slot *)
(* still taken.                                                            *)
LEMMA StepSlot ==
  ASSUME TypeOK, SlotInv, [Next]_vars
  PROVE  SlotInv'
<1>1. /\ hist \in HistType
      /\ hist.updated \subseteq Agents
      /\ cur \in 0..(N + 1)
      /\ \A a, b \in hist.updated : a = b
      /\ pc = "update" => holder = cur /\ hist.updated = {}
      /\ pc # "idle" => \A a \in hist.updated : holder = a /\ a < cur
  BY DEF TypeOK, HistType, SlotInv, OneUpdatePerPass
<1> SUFFICES /\ \A a, b \in hist'.updated : a = b
             /\ pc' = "update" => holder' = cur' /\ hist'.updated = {}
             /\ pc' # "idle" => \A a \in hist'.updated : holder' = a /\ a < cur'
  BY DEF SlotInv, OneUpdatePerPass
<1>2. CASE UNCHANGED <<passVars, hist>>
  BY <1>1, <1>2 DEF passVars
<1>3. CASE OperatorStep
  <2>1. PICK a \in Agents :
          \/ \E head \in Commits : RuntimeApproval(a, head)
          \/ DiscordApproval(a)
          \/ OperatorOverride(a)
          \/ BranchUpdated(a)
    BY <1>3 DEF OperatorStep
  <2>2. UNCHANGED <<pc, cur, holder>>
    BY <2>1 DEF RuntimeApproval, DiscordApproval, OperatorOverride,
                BranchUpdated, DrainRequest, passVars
  <2>3. hist'.updated = hist.updated
    BY <1>1, <2>1 DEF RuntimeApproval, DiscordApproval, OperatorOverride,
                      BranchUpdated, HistType
  <2> QED
    BY <1>1, <2>2, <2>3
<1>4. CASE BeginPass
  <2>1. hist'.updated = {} /\ pc' = "look"
    BY <1>1, <1>4 DEF BeginPass, HistType
  <2> QED
    BY <2>1
<1>5. CASE Skip \/ WaitBehindBarrier
  <2>1. /\ hist' = hist
        /\ pc = "look"
        /\ pc' = "look"
        /\ cur' = cur + 1
        /\ holder # cur => holder' = holder
    BY <1>5 DEF Skip, WaitBehindBarrier, Proceed, At
  <2> QED
    BY <1>1, <2>1
<1>6. CASE Look
  <2>1. /\ cur \in Agents
        /\ pc = "look"
        /\ hist'.updated = hist.updated
    BY <1>6, LookCases, LookHistory DEF Looking, At
  <2>2. \A a \in hist.updated : holder = a /\ a < cur /\ holder # cur /\ a # 0
    BY <1>1, <2>1
  <2>3. CASE LookHalted(entry[cur], holder)
             \/ LookHalted([entry[cur] EXCEPT !.phase = "merged"], holder)
             \/ LookHalted(Escalate(entry[cur]), holder)
    <3>1. pc' = "look" /\ cur' = cur + 1 /\ (holder # cur => holder' = holder)
      BY <2>3, HaltMovesOn DEF LookHalted, LookHalts
    <3> QED
      BY <1>1, <2>1, <2>2, <3>1
  <2>4. CASE holder = NoAgent /\ LookHalted(Escalate(entry[cur]), cur)
    <3>1. pc' = "look" /\ hist.updated = {}
      BY <2>2, <2>4, HaltMovesOn DEF LookHalted, LookHalts
    <3> QED
      BY <2>1, <3>1
  <2>5. CASE LookUpdates
    <3>1. pc' = "update" /\ cur' = cur /\ holder' = cur /\ holder = NoAgent
      BY <2>5 DEF LookUpdates, Heads
    <3>2. hist.updated = {}
      BY <2>2, <3>1
    <3> QED
      BY <2>1, <3>1, <3>2
  <2>6. CASE LookSettling
    <3>1. /\ pc' = "look"
          /\ cur' = cur + 1
          /\ holder # NoAgent /\ holder # cur => holder' = holder
      BY <2>6 DEF LookSettling, Proceed, ReadySlot
    <3> QED
      BY <1>1, <2>1, <2>2, <3>1
  <2>7. CASE LookReady
    <3>1. /\ pc' = "merge"
          /\ cur' = cur
          /\ holder # NoAgent => holder' = holder
      BY <2>7 DEF LookReady, ReadySlot
    <3> QED
      BY <1>1, <2>1, <2>2, <3>1
  <2> QED
    BY <1>6, <2>3, <2>4, <2>5, <2>6, <2>7, LookCases
<1>7. CASE Act /\ GitHubUpdates
  <2>1. /\ cur \in Agents
        /\ pc = "update"
        /\ ~Merge
        /\ snap.head \in 0..MaxCommits
        /\ snap.base \in Nat
        /\ holder \in {NoAgent} \cup Agents
    BY <1>7 DEF GitHubUpdates, Merge, GitHubMerges, At, TypeOK, SnapType
  <2>2. PICK e \in EntryType, reason \in Reasons, past \in HistType :
          /\ e.phase = entry[cur].phase
          /\ past.updated = hist.updated \cup {cur}
          /\ reason \in {"behind_branch_updated", "behind_update_failed"}
          /\ HaltWith(e, holder, reason, snap.head, snap.base, past)
    BY <1>7, <2>1, ActCases
  <2>3. hist'.updated = {cur}
    BY <1>1, <2>1, <2>2, HaltEffect
  <2>4. /\ pc' = "look"
        /\ cur' = cur + 1
        /\ holder' = cur
    <3>1. PICK session \in SessionFacts :
            Proceed(Halt(e, Due(entry[cur]), reason, snap.head, snap.base,
                         session), holder)
      BY <2>2 DEF HaltWith
    <3>2. Due(entry[cur]) \in BOOLEAN
      BY DEF Due
    <3>3. Halt(e, Due(entry[cur]), reason, snap.head, snap.base, session).phase
            = entry[cur].phase
      BY <2>2, <3>2, UpdatedKeepsPhase
    <3> QED
      BY <1>1, <2>1, <3>1, <3>3 DEF Proceed
  <2> QED
    BY <2>1, <2>3, <2>4
<1>8. CASE Act /\ ~GitHubUpdates /\ ~Merge
  <2>1. pc \in {"update", "merge"}
    BY <1>8 DEF Act, UpdateBranch, UpdateUnheard, UpdateFails, RequestStale,
                MergeUnheard, MergeFails, GitHubMerges, At
  <2>2. /\ hist'.updated = hist.updated
        /\ cur \in Agents
        /\ pc' = "look"
        /\ cur' = cur + 1
        /\ holder # cur => holder' = holder
    BY <1>8, ActHistory
  <2> QED
    BY <1>1, <2>1, <2>2
<1>9. CASE Merge
  <2>1. /\ pc = "merge"
        /\ pc' = "look"
        /\ cur' = cur + 1
        /\ holder # cur => holder' = holder
    BY <1>9 DEF Merge, GitHubMerges, Proceed, At
  <2>2. hist'.updated = hist.updated
    BY <1>1, <1>9 DEF Merge, Landing, HistType
  <2> QED
    BY <1>1, <2>1, <2>2
<1>10. CASE EndPass
  BY <1>1, <1>10 DEF EndPass
<1>11. CASE Crash
  <2>1. pc' = "idle" /\ hist'.updated = hist.updated
    BY <1>1, <1>11 DEF Crash, HistType
  <2> QED
    BY <1>1, <2>1
<1> QED
  BY <1>2, <1>3, <1>4, <1>5, <1>6, <1>7, <1>8, <1>9, <1>10, <1>11
  DEF Next, PassStep, OutsideStep, vars, WorkerPushes, GateChanges,
      PersonCloses, BaseMoves, OutsideRobco

(* A pass updates at most one branch of a repository: the slot stays with  *)
(* the entry that was updated until the pass ends (merge_queue::Heads).    *)
THEOREM OneUpdate == Spec => []OneUpdatePerPass
<1>1. Init => SlotInv
  BY DEF Init, SlotInv, OneUpdatePerPass
<1>2. TypeOK /\ SlotInv /\ [Next]_vars => SlotInv'
  BY StepSlot
<1>3. SlotInv => OneUpdatePerPass
  BY DEF SlotInv
<1> QED
  BY <1>1, <1>2, <1>3, TypeCorrect, PTL DEF Spec

-----------------------------------------------------------------------------
(* Every merge is on an operator's word                                    *)

(* Every request an entry carries names a revision an operator's word      *)
(* covers, and every mark a request is carried forward on names a head     *)
(* robco moved.                                                            *)
OnRequest(e, covered, moved) ==
    /\ e.approval # NoHead => e.approval \in covered
    /\ e.override # NoHead => e.override \in covered
    /\ e.updateHead # NoHead => e.updateHead \in moved
    /\ e.recovery.head # NoHead => e.recovery.head \in moved

RequestInv ==
    /\ \A a \in Agents :
         /\ OnRequest(entry[a], Covered(a), hist.moved[a])
         /\ OnRequest(saved.entry[a], Covered(a), hist.moved[a])
         /\ hist.asked[a] \subseteq Covered(a)
         /\ hist.landed[a].gated # NoHead => hist.landed[a].gated \in Covered(a)
    /\ pc \in {"update", "merge"} =>
         cur \in Agents /\ snap.head \in 1..pr[cur].head

(* Every revision spoken of is a commit of the pull request.               *)
LEMMA RevisionTypes ==
  ASSUME TypeOK, NEW a \in Agents
  PROVE  /\ pr[a].head \in Commits
         /\ hist.asked[a] \subseteq Commits
         /\ hist.moved[a] \subseteq Commits
         /\ entry[a] \in EntryType
         /\ hist \in HistType
<1>1. pr[a] \in PrType /\ hist \in HistType /\ entry[a] \in EntryType
  BY DEF TypeOK
<1> QED
  BY <1>1 DEF PrType, HistType

(* A request stays one as more comes to be covered.                        *)
LEMMA OnRequestGrows ==
  \A e, S, T, U, V :
    S \subseteq T /\ U \subseteq V /\ OnRequest(e, S, U) => OnRequest(e, T, V)
  BY DEF OnRequest

(* A request carried forward along the branch from a head robco moved.     *)
LEMMA CarriedIsCovered ==
  ASSUME TypeOK, NEW a \in Agents, NEW old \in Covered(a),
         NEW head \in 1..pr[a].head, old \in hist.moved[a],
         IsAncestor(a, old, head)
  PROVE  head \in Covered(a)
<1>1. PICK asked \in hist.asked[a] :
        /\ IsAncestor(a, asked, old)
        /\ asked = old \/ asked \in hist.moved[a]
  BY DEF Covered, Covers
<1>2. asked \in Nat /\ old \in Nat /\ head \in Nat /\ pr[a].head \in Nat
  BY RevisionTypes DEF Covered
<1>3. IsAncestor(a, asked, head)
  BY <1>1, <1>2 DEF IsAncestor
<1> QED
  BY <1>1, <1>3 DEF Covered, Covers

(* What a step asks for is covered after it.                               *)
LEMMA AskedIsCovered ==
  ASSUME TypeOK', NEW a \in Agents, NEW head \in hist'.asked[a],
         head <= pr'[a].head
  PROVE  head \in Covered(a)'
<1>1. /\ hist'.asked[a] \subseteq Commits
      /\ pr'[a].head \in Commits
  <2>1. pr'[a] \in PrType /\ hist' \in HistType
    BY DEF TypeOK
  <2> QED
    BY <2>1 DEF PrType, HistType
<1>2. head \in Nat /\ head >= 1
  BY <1>1
<1>3. IsAncestor(a, head, head)'
  BY <1>2 DEF IsAncestor
<1> QED
  BY <1>1, <1>2, <1>3 DEF Covered, Covers

-----------------------------------------------------------------------------
(* What is covered only grows                                              *)

(* What an operator asked for, and what robco moved, is never forgotten.   *)
HistGrows ==
    \A a \in Agents : /\ hist.asked[a] \subseteq hist'.asked[a]
                      /\ hist.moved[a] \subseteq hist'.moved[a]

(* What a request covers, it covers for good: no later step takes it back. *)
LEMMA CoveredGrows ==
  ASSUME TypeOK, PrGrows, HistGrows, TypeOK', NEW a \in Agents
  PROVE  Covered(a) \subseteq Covered(a)'
<1> SUFFICES ASSUME NEW head \in Covered(a)
             PROVE  head \in Covered(a)'
  OBVIOUS
<1>1. PICK asked \in hist.asked[a] :
        /\ IsAncestor(a, asked, head)
        /\ asked = head \/ asked \in hist.moved[a]
  BY DEF Covered, Covers
<1>2. /\ asked \in Commits
      /\ pr[a].head \in Commits
      /\ pr'[a].head \in Nat
      /\ head \in 1..pr[a].head
  <2>1. pr'[a].head \in Nat
    BY DEF TypeOK, PrType
  <2> QED
    BY <2>1, RevisionTypes DEF Covered
<1>3. /\ pr[a].head <= pr'[a].head
      /\ \A c \in Commits :
           c \in pr'[a].forced => c \in pr[a].forced \/ c > pr[a].head
  BY DEF PrGrows
<1>4. IsAncestor(a, asked, head)'
  BY <1>1, <1>2, <1>3, PassAssumption DEF IsAncestor
<1>5. asked \in hist'.asked[a] /\ (asked = head \/ asked \in hist'.moved[a])
  BY <1>1 DEF HistGrows
<1>6. head \in 1..pr'[a].head
  BY <1>2, <1>3
<1> QED
  BY <1>4, <1>5, <1>6 DEF Covered, Covers

(* No step forgets what was asked for or moved, and only a merge lands.    *)
LEMMA StepHist ==
  ASSUME TypeOK, [Next]_vars
  PROVE  HistGrows /\ (~Merge /\ ~MergeUnheard => hist'.landed = hist.landed)
<1>1. hist \in HistType
  BY DEF TypeOK
<1>2. CASE UNCHANGED hist
  BY <1>2 DEF HistGrows
<1>3. CASE OperatorStep
  <2>1. PICK a \in Agents :
          \/ \E head \in Commits : RuntimeApproval(a, head)
          \/ DiscordApproval(a)
          \/ OperatorOverride(a)
          \/ BranchUpdated(a)
    BY <1>3 DEF OperatorStep
  <2>2. /\ hist'.moved = hist.moved
        /\ hist'.landed = hist.landed
        /\ \A b \in Agents : hist.asked[b] \subseteq hist'.asked[b]
    <3>1. CASE \E head \in Commits : RuntimeApproval(a, head)
      BY <1>1, <3>1 DEF RuntimeApproval, HistType
    <3>2. CASE DiscordApproval(a)
      BY <1>1, <3>2 DEF DiscordApproval, HistType
    <3>3. CASE OperatorOverride(a)
      BY <1>1, <3>3 DEF OperatorOverride, HistType
    <3>4. CASE BranchUpdated(a)
      BY <3>4 DEF BranchUpdated
    <3> QED
      BY <2>1, <3>1, <3>2, <3>3, <3>4
  <2> QED
    BY <2>2 DEF HistGrows
<1>4. CASE BeginPass \/ Merge \/ Crash
  <2>1. /\ hist'.moved = hist.moved
        /\ hist'.asked = hist.asked
        /\ ~Merge => hist'.landed = hist.landed
    BY <1>1, <1>4 DEF BeginPass, Merge, Landing, Crash, HistType
  <2> QED
    BY <2>1 DEF HistGrows
<1>5. CASE Look
  BY <1>5, LookHistory DEF HistGrows
<1>6. CASE Act /\ ~Merge
  BY <1>6, ActHistory DEF HistGrows
<1> QED
  BY <1>2, <1>3, <1>4, <1>5, <1>6
  DEF Next, PassStep, OutsideStep, vars, WorkerPushes, GateChanges,
      PersonCloses, BaseMoves, OutsideRobco, Skip, WaitBehindBarrier, EndPass

(* A merge, heard of or not, lands the revision the look read, on a word.  *)
LEMMA MergeLands ==
  ASSUME TypeOK, Merge \/ MergeUnheard
  PROVE  /\ GitHubMerges
         /\ \E fetched \in BOOLEAN :
              /\ Confirming(fetched).word # "none"
              /\ hist'.landed = [hist.landed EXCEPT ![cur] =
                    [gated |-> snap.head, merged |-> pr[cur].head,
                     word |-> Confirming(fetched).word]]
<1>1. hist \in HistType
  BY DEF TypeOK
<1>2. \A fetched \in BOOLEAN :
        Landing(Confirming(fetched).word).landed =
          [hist.landed EXCEPT ![cur] =
             [gated |-> snap.head, merged |-> pr[cur].head,
              word |-> Confirming(fetched).word]]
  BY <1>1 DEF Landing, HistType
<1>3. CASE Merge
  <2>1. PICK fetched \in BOOLEAN :
          /\ Confirming(fetched).word # "none"
          /\ hist' = [Landing(Confirming(fetched).word) EXCEPT
                        !.lastMerge = base + 1, !.lifted = FALSE]
    BY <1>3 DEF Merge, Fetches
  <2>2. Landing(Confirming(fetched).word) \in HistType
    BY <1>3, LandingType DEF Merge, GitHubMerges, At
  <2>3. hist'.landed = Landing(Confirming(fetched).word).landed
    BY <2>1, <2>2 DEF HistType
  <2> QED
    BY <1>2, <1>3, <2>1, <2>3 DEF Merge
<1>4. CASE MergeUnheard
  <2>1. PICK fetched \in BOOLEAN :
          /\ Confirming(fetched).word # "none"
          /\ HaltWith(Confirming(fetched).entry, holder, "merge_failed",
                      snap.head, snap.base, Landing(Confirming(fetched).word))
    BY <1>4 DEF MergeUnheard, Fetches
  <2>2. hist'.landed = Landing(Confirming(fetched).word).landed
    <3>1. cur \in Agents
      BY <1>4 DEF MergeUnheard, GitHubMerges, At
    <3> DEFINE past == Landing(Confirming(fetched).word)
    <3>2. past \in HistType
      BY <3>1, LandingType
    <3>3. hist' = past \/ \E m, h : hist' = [past EXCEPT !.moved[cur] = m,
                                                       !.handed[cur] = h]
      BY <2>1 DEF HaltWith
    <3> HIDE DEF past
    <3>4. hist'.landed = past.landed
      BY <3>2, <3>3 DEF HistType
    <3> QED
      BY <3>4 DEF past
  <2> QED
    BY <1>2, <1>4, <2>1, <2>2 DEF MergeUnheard
<1> QED
  BY <1>3, <1>4

-----------------------------------------------------------------------------
(* Every step keeps requests on what was asked for                         *)

(* An entry that halts keeps to what it was asked, a handback's head apart *)
(* which robco then moved.                                                 *)
LEMMA HaltOnRequest ==
  ASSUME TypeOK, cur \in Agents, NEW e \in EntryType,
         NEW slot \in {NoAgent} \cup Agents, NEW reason \in Reasons,
         NEW head \in 0..MaxCommits, NEW onBase \in Nat, NEW past \in HistType,
         HaltWith(e, slot, reason, head, onBase, past),
         NEW S, OnRequest(e, S, past.moved[cur])
  PROVE  /\ OnRequest(entry'[cur], S, hist'.moved[cur])
         /\ \A b \in Agents \ {cur} : entry'[b] = entry[b]
<1>1. /\ \A b \in Agents \ {cur} : entry'[b] = entry[b]
      /\ entry'[cur].approval = e.approval
      /\ entry'[cur].override = e.override
      /\ entry'[cur].updateHead = e.updateHead
      /\ past.moved[cur] \subseteq hist'.moved[cur]
      /\ \/ entry'[cur].recovery.head \in {NoHead, e.recovery.head}
         \/ entry'[cur].recovery.head \in hist'.moved[cur]
  BY HaltEffect
<1> QED
  BY <1>1 DEF OnRequest

(* What confirm_requested leaves of a request, and what it lets through.   *)
LEMMA ConfirmOnRequest ==
  ASSUME TypeOK, RequestInv, At("merge"), NEW fetched \in BOOLEAN
  PROVE  /\ Confirming(fetched).entry \in EntryType
         /\ OnRequest(Confirming(fetched).entry, Covered(cur), hist.moved[cur])
         /\ Confirming(fetched).word # "none" => snap.head \in Covered(cur)
<1>1. /\ cur \in Agents
      /\ snap.head \in 1..pr[cur].head
      /\ OnRequest(entry[cur], Covered(cur), hist.moved[cur])
  BY DEF At, RequestInv
<1>2. snap.head \in Nat /\ snap.head # NoHead /\ entry[cur] \in EntryType
  BY <1>1, RevisionTypes
<1> DEFINE e == entry[cur]
           f == Confirming(fetched).entry
<1>3. /\ f \in EntryType
      /\ f.override = NoHead
      /\ f.updateHead = e.updateHead
      /\ f.recovery = e.recovery
  BY <1>2 DEF Confirming, Confirm, OverrideSpent, EntryType
<1>4. CASE OverrideAllows(e)
  <2>1. e.override = snap.head /\ f.approval = e.approval
    BY <1>2, <1>4 DEF Confirming, Confirm, OverrideSpent, OverrideAllows, EntryType
  <2> QED
    BY <1>1, <1>2, <1>3, <2>1 DEF OnRequest
<1>5. CASE ~OverrideAllows(e) /\ e.approval = NoHead
  <2>1. f.approval = NoHead /\ Confirming(fetched).word = "none"
    BY <1>2, <1>5 DEF Confirming, Confirm, OverrideSpent, EntryType
  <2> QED
    BY <1>1, <1>3, <2>1 DEF OnRequest
<1>6. CASE ~OverrideAllows(e) /\ e.approval # NoHead /\ e.approval = snap.head
  <2>1. f.approval = NoHead
    BY <1>2, <1>6 DEF Confirming, Confirm, OverrideSpent, EntryType
  <2> QED
    BY <1>1, <1>2, <1>3, <1>6, <2>1 DEF OnRequest
<1>7. CASE /\ ~OverrideAllows(e)
           /\ e.approval # NoHead
           /\ e.approval # snap.head
           /\ fetched /\ CarriesForward(e)
  <2>1. f.approval = snap.head
    BY <1>2, <1>7 DEF Confirming, Confirm, OverrideSpent, EntryType
  <2>2. e.approval \in Covered(cur) /\ e.approval \in hist.moved[cur]
    BY <1>1, <1>7 DEF OnRequest, CarriesForward
  <2>3. snap.head \in Covered(cur)
    BY <1>1, <1>7, <2>2, CarriedIsCovered DEF CarriesForward
  <2> QED
    BY <1>1, <1>3, <2>1, <2>3 DEF OnRequest
<1>8. CASE /\ ~OverrideAllows(e)
           /\ e.approval # NoHead
           /\ e.approval # snap.head
           /\ ~(fetched /\ CarriesForward(e))
  <2>1. f.approval = NoHead /\ Confirming(fetched).word = "none"
    BY <1>2, <1>8 DEF Confirming, Confirm, OverrideSpent, EntryType
  <2> QED
    BY <1>1, <1>3, <2>1 DEF OnRequest
<1> QED
  BY <1>4, <1>5, <1>6, <1>7, <1>8

(* An operator's request is for a revision it asked for.                   *)
LEMMA OperatorOnRequest ==
  ASSUME TypeOK, TypeOK', OperatorStep, NEW a \in Agents,
         OnRequest(entry[a], Covered(a)', hist'.moved[a])
  PROVE  /\ OnRequest(entry'[a], Covered(a)', hist'.moved[a])
         /\ hist'.asked[a] \subseteq hist.asked[a] \cup 1..pr'[a].head
<1>1. PICK b \in Agents :
        \/ \E head \in Commits : RuntimeApproval(b, head)
        \/ DiscordApproval(b)
        \/ OperatorOverride(b)
        \/ BranchUpdated(b)
  BY DEF OperatorStep
<1>2. /\ entry[b] \in EntryType
      /\ hist \in HistType
      /\ pr[b].head \in Commits
      /\ hist.asked[b] \subseteq Commits
      /\ pr' = pr
  BY <1>1, RevisionTypes
  DEF RuntimeApproval, DiscordApproval, OperatorOverride, BranchUpdated,
      DrainRequest, githubVars
<1>3. /\ a # b => entry'[a] = entry[a]
      /\ a # b => hist'.asked[a] = hist.asked[a]
  <2>1. CASE \E head \in Commits : RuntimeApproval(b, head)
    BY <1>2, <2>1 DEF RuntimeApproval, TypeOK, HistType
  <2>2. CASE DiscordApproval(b)
    BY <1>2, <2>2 DEF DiscordApproval, TypeOK, HistType
  <2>3. CASE OperatorOverride(b)
    BY <1>2, <2>3 DEF OperatorOverride, TypeOK, HistType
  <2>4. CASE BranchUpdated(b)
    BY <1>2, <2>4 DEF BranchUpdated, TypeOK
  <2> QED
    BY <1>1, <2>1, <2>2, <2>3, <2>4
<1>4. CASE a # b
  BY <1>3, <1>4
<1>5. CASE a = b
  <2> DEFINE revived == EnsureLandable(entry[a])
  <2>1. revived \in EntryType /\ OnRequest(revived, Covered(a)', hist'.moved[a])
    BY <1>2, <1>5, EnsureLandableKeeps DEF Keeps, SameRequest, OnRequest
  <2> HIDE DEF revived
  <2>2. ASSUME NEW e \in EntryType, OnRequest(e, Covered(a)', hist'.moved[a]),
               NEW head \in Commits, head <= pr[a].head,
               hist'.asked[a] = hist.asked[a] \cup {head}
        PROVE  /\ OnRequest(RecordApproval(e, head), Covered(a)', hist'.moved[a])
               /\ OnRequest([e EXCEPT !.override = head], Covered(a)',
                            hist'.moved[a])
               /\ hist'.asked[a] \subseteq hist.asked[a] \cup 1..pr'[a].head
    <3>1. head \in Covered(a)'
      BY <1>2, <2>2, AskedIsCovered
    <3>2. /\ RecordApproval(e, head).approval = head
          /\ RecordApproval(e, head).override = e.override
          /\ RecordApproval(e, head).updateHead = e.updateHead
          /\ RecordApproval(e, head).recovery.head \in {NoHead, e.recovery.head}
      BY <2>2, RecordApprovalType
    <3>3. OnRequest(RecordApproval(e, head), Covered(a)', hist'.moved[a])
      BY <2>2, <3>1, <3>2 DEF OnRequest
    <3>4. OnRequest([e EXCEPT !.override = head], Covered(a)', hist'.moved[a])
      BY <2>2, <3>1 DEF OnRequest, EntryType
    <3> QED
      BY <1>2, <1>5, <2>2, <3>3, <3>4
  <2>3. CASE \E head \in Commits : RuntimeApproval(a, head)
    <3>1. PICK head \in Commits : RuntimeApproval(a, head)
      BY <2>3
    <3>2. /\ head <= pr[a].head
          /\ entry'[a] = RecordApproval(revived, head)
      BY <3>1 DEF RuntimeApproval, TypeOK, revived
    <3>3. hist'.asked[a] = hist.asked[a] \cup {head}
      BY <1>2, <3>1 DEF RuntimeApproval, HistType
    <3> QED
      BY <2>1, <2>2, <3>2, <3>3
  <2>4. CASE DiscordApproval(a)
    <3>1. entry'[a] = RecordApproval(entry[a], pr[a].head)
      BY <2>4 DEF DiscordApproval, TypeOK
    <3>2. hist'.asked[a] = hist.asked[a] \cup {pr[a].head}
      BY <1>2, <2>4 DEF DiscordApproval, HistType
    <3>3. pr[a].head <= pr[a].head
      BY <1>2, <1>5
    <3> QED
      BY <1>2, <1>5, <2>2, <3>1, <3>2, <3>3
  <2>5. CASE OperatorOverride(a)
    <3>1. CASE pr[a].gate # "unreadable"
      <4>1. entry'[a] = [revived EXCEPT !.override = pr[a].head]
        BY <2>5, <3>1 DEF OperatorOverride, TypeOK, revived
      <4>2. hist'.asked[a] = hist.asked[a] \cup {pr[a].head}
        BY <1>2, <2>5, <3>1 DEF OperatorOverride, HistType
      <4>3. pr[a].head <= pr[a].head
        BY <1>2, <1>5
      <4> QED
        BY <1>2, <1>5, <2>1, <2>2, <4>1, <4>2, <4>3
    <3>2. CASE pr[a].gate = "unreadable"
      <4>1. entry'[a] = revived
        BY <2>5, <3>2 DEF OperatorOverride, TypeOK, revived
      <4>2. hist'.asked[a] = hist.asked[a]
        BY <1>2, <2>5, <3>2 DEF OperatorOverride, HistType
      <4> QED
        BY <2>1, <4>1, <4>2
    <3> QED
      BY <3>1, <3>2
  <2>6. CASE BranchUpdated(a)
    <3>1. entry'[a] = ResetBranchUpdates(entry[a]) /\ hist' = hist
      BY <2>6 DEF BranchUpdated, TypeOK
    <3>2. OnRequest(ResetBranchUpdates(entry[a]), Covered(a)', hist'.moved[a])
      BY <1>2, <1>5, ResetBranchUpdatesKeeps DEF Keeps, SameRequest, OnRequest
    <3> QED
      BY <3>1, <3>2
  <2> QED
    BY <1>1, <1>5, <2>3, <2>4, <2>5, <2>6
<1> QED
  BY <1>4, <1>5

(* An entry keeps to what it was asked when it is looked at.               *)
LEMMA LookOnRequest ==
  ASSUME TypeOK, Look, NEW a \in Agents, NEW S,
         OnRequest(entry[a], S, hist.moved[a])
  PROVE  OnRequest(entry'[a], S, hist'.moved[a])
<1>1. Looking /\ cur \in Agents /\ holder \in {NoAgent} \cup Agents
  BY LookCases DEF Looking, At, TypeOK
<1>2. /\ entry[cur] \in EntryType
      /\ OnRequest(entry[a], S, hist'.moved[a])
  BY <1>1, LookHistory, OnRequestGrows DEF TypeOK
<1>3. ASSUME NEW e \in EntryType, NEW slot \in {NoAgent} \cup Agents,
             e.approval = entry[cur].approval,
             e.override = entry[cur].override,
             e.updateHead = entry[cur].updateHead,
             e.recovery = entry[cur].recovery,
             LookHalted(e, slot)
      PROVE  OnRequest(entry'[a], S, hist'.moved[a])
  <2>1. /\ \A b \in Agents \ {cur} : entry'[b] = entry[b]
        /\ entry'[cur].approval = e.approval
        /\ entry'[cur].override = e.override
        /\ entry'[cur].updateHead = e.updateHead
        /\ \/ entry'[cur].recovery.head \in {NoHead, e.recovery.head}
           \/ entry'[cur].recovery.head \in hist'.moved[cur]
    BY <1>1, <1>3, LookHaltEffect
  <2> QED
    BY <1>2, <1>3, <2>1 DEF OnRequest
<1>4. CASE LookUpdates \/ LookSettling \/ LookReady
  <2>1. CASE LookUpdates
    <3>1. entry' = [entry EXCEPT ![cur].branchUpdates = @ + 1]
      BY <2>1 DEF LookUpdates
    <3>2. \/ entry'[a] = entry[a]
          \/ /\ a = cur
             /\ entry'[a] = [entry[cur] EXCEPT !.branchUpdates = @ + 1]
      BY <1>1, <3>1 DEF TypeOK
    <3> QED
      BY <1>2, <3>2 DEF OnRequest, EntryType
  <2>2. CASE LookSettling
    <3>1. \/ entry'[a] = entry[a]
          \/ /\ a = cur
             /\ entry'[a] = [entry[cur] EXCEPT !.hold = NoHold]
      BY <1>1, <2>2 DEF LookSettling, Proceed, TypeOK
    <3> QED
      BY <1>2, <3>1 DEF OnRequest, EntryType
  <2>3. CASE LookReady
    BY <1>2, <2>3 DEF LookReady
  <2> QED
    BY <1>4, <2>1, <2>2, <2>3
<1> DEFINE merged == [entry[cur] EXCEPT !.phase = "merged"]
           escalated == Escalate(entry[cur])
<1>5. /\ merged \in EntryType
      /\ merged.approval = entry[cur].approval
      /\ merged.override = entry[cur].override
      /\ merged.updateHead = entry[cur].updateHead
      /\ merged.recovery = entry[cur].recovery
  BY <1>2 DEF EntryType, Phases
<1>6. /\ escalated \in EntryType
      /\ escalated.approval = entry[cur].approval
      /\ escalated.override = entry[cur].override
      /\ escalated.updateHead = entry[cur].updateHead
      /\ escalated.recovery = entry[cur].recovery
  BY <1>2 DEF Escalate, EntryType, Phases
<1> HIDE DEF merged, escalated
<1>7. \/ LookHalted(entry[cur], holder)
      \/ LookHalted(merged, holder)
      \/ LookHalted(escalated, holder)
      \/ LookHalted(escalated, cur)
      \/ LookUpdates \/ LookSettling \/ LookReady
  BY LookCases DEF merged, escalated
<1> QED
  BY <1>1, <1>2, <1>3, <1>4, <1>5, <1>6, <1>7

(* An entry keeps to what it was asked when it is acted on.                *)
LEMMA ActOnRequest ==
  ASSUME TypeOK, RequestInv, NEW a \in Agents, Act
  PROVE  OnRequest(entry'[a], Covered(a), hist'.moved[a])
<1>1. /\ cur \in Agents
      /\ entry[cur] \in EntryType
      /\ snap.head \in 0..MaxCommits
      /\ snap.head \in Nat
      /\ snap.base \in Nat
      /\ holder \in {NoAgent} \cup Agents
      /\ hist \in HistType
      /\ OnRequest(entry[cur], Covered(cur), hist.moved[cur])
  <2>1. snap.head \in 0..MaxCommits /\ snap.base \in Nat
    BY DEF TypeOK, SnapType
  <2>2. snap.head \in Nat
    BY <2>1, PassAssumption
  <2>3. cur \in Agents
    BY DEF Act, UpdateBranch, UpdateUnheard, UpdateFails, RequestStale, Merge,
           MergeUnheard, MergeFails, GitHubUpdates, GitHubMerges, At
  <2>4. OnRequest(entry[cur], Covered(cur), hist.moved[cur])
    BY <2>3 DEF RequestInv
  <2> QED
    BY <2>1, <2>2, <2>3, <2>4 DEF TypeOK
<1>2. {"behind_branch_updated", "behind_update_failed", "request_stale",
       "merge_failed", "merge_refused"} \subseteq Reasons
  BY DEF Reasons
<1>3. OnRequest(entry[a], Covered(a), hist.moved[a])
  BY DEF RequestInv
<1>4. ASSUME NEW e \in EntryType, NEW reason \in Reasons, NEW past \in HistType,
             OnRequest(e, Covered(cur), past.moved[cur]),
             \A b \in Agents : hist.moved[b] \subseteq past.moved[b],
             HaltWith(e, holder, reason, snap.head, snap.base, past)
      PROVE  OnRequest(entry'[a], Covered(a), hist'.moved[a])
  <2>1. CASE a = cur
    BY <1>1, <1>4, <2>1, HaltOnRequest
  <2>2. CASE a # cur
    <3>1. /\ entry'[a] = entry[a]
          /\ hist.moved[a] \subseteq hist'.moved[a]
      BY <1>1, <1>4, <2>2, HaltEffect
    <3> QED
      BY <1>3, <3>1, OnRequestGrows
  <2> QED
    BY <2>1, <2>2
<1>5. CASE UpdateBranch
  <2> DEFINE e == [entry[cur] EXCEPT !.updateHead = snap.head]
             past == [hist EXCEPT !.moved[cur] = @ \cup {snap.head},
                                  !.updated = @ \cup {cur}]
  <2>1. /\ past \in HistType
        /\ \A b \in Agents : hist.moved[b] \subseteq past.moved[b]
        /\ snap.head \in past.moved[cur]
    <3>1. snap.head \in Commits
      BY <1>5 DEF UpdateBranch, GitHubUpdates, At, TypeOK
    <3>2. /\ hist.moved[cur] \cup {snap.head} \in SUBSET Commits
          /\ hist.updated \cup {cur} \in SUBSET Agents
      BY <1>1, <3>1 DEF HistType
    <3> QED
      BY <1>1, <3>2 DEF HistType
  <2>2. OnRequest(e, Covered(cur), past.moved[cur]) /\ e \in EntryType
    <3>1. /\ e \in EntryType
          /\ e.approval = entry[cur].approval
          /\ e.override = entry[cur].override
          /\ e.updateHead = snap.head
          /\ e.recovery = entry[cur].recovery
      BY <1>1 DEF EntryType
    <3> HIDE DEF e, past
    <3> QED
      BY <1>1, <2>1, <3>1 DEF OnRequest
  <2>3. HaltWith(e, holder, "behind_branch_updated", snap.head, snap.base, past)
    BY <1>5 DEF UpdateBranch
  <2> HIDE DEF e, past
  <2> QED
    BY <1>2, <1>4, <2>1, <2>2, <2>3
<1>6. CASE UpdateUnheard \/ UpdateFails
  <2>1. PICK past \in HistType :
          /\ past.moved = hist.moved
          /\ HaltWith(entry[cur], holder, "behind_update_failed", snap.head,
                      snap.base, past)
    <3>1. CASE UpdateUnheard
      <4> DEFINE past == [hist EXCEPT !.updated = @ \cup {cur}]
      <4>1. hist.updated \cup {cur} \in SUBSET Agents
        BY <1>1 DEF HistType
      <4>2. past \in HistType /\ past.moved = hist.moved
        BY <1>1, <4>1 DEF HistType
      <4>3. HaltWith(entry[cur], holder, "behind_update_failed", snap.head,
                     snap.base, past)
        BY <3>1 DEF UpdateUnheard
      <4> HIDE DEF past
      <4> QED
        BY <4>2, <4>3
    <3>2. CASE UpdateFails
      BY <1>1, <3>2 DEF UpdateFails
    <3> QED
      BY <1>6, <3>1, <3>2
  <2> QED
    BY <1>1, <1>2, <1>4, <2>1
<1>7. Fetches \subseteq BOOLEAN
  BY DEF Fetches
<1>8. CASE RequestStale \/ MergeFails
  <2>1. PICK fetched \in BOOLEAN, reason \in Reasons :
          HaltWith(Confirming(fetched).entry, holder, reason, snap.head,
                   snap.base, hist)
    BY <1>2, <1>7, <1>8 DEF RequestStale, MergeFails
  <2>2. /\ Confirming(fetched).entry \in EntryType
        /\ OnRequest(Confirming(fetched).entry, Covered(cur), hist.moved[cur])
    BY <1>8, ConfirmOnRequest DEF RequestStale, MergeFails
  <2> QED
    BY <1>1, <1>4, <2>1, <2>2
<1>9. CASE Merge
  <2>1. PICK fetched \in BOOLEAN : Proceed(Landed(Confirming(fetched).entry), holder)
    BY <1>7, <1>9 DEF Merge
  <2> DEFINE e == Confirming(fetched).entry
  <2>2. e \in EntryType /\ OnRequest(e, Covered(cur), hist.moved[cur])
    BY <1>9, ConfirmOnRequest DEF Merge, GitHubMerges
  <2> HIDE DEF e
  <2>3. OnRequest(Landed(e), Covered(cur), hist.moved[cur])
    BY <2>2, LandedEntry DEF OnRequest
  <2>4. /\ entry'[cur] = Landed(e)
        /\ a # cur => entry'[a] = entry[a]
    BY <1>1, <2>1 DEF Proceed, TypeOK, e
  <2>5. hist'.moved = hist.moved
    BY <1>1, <1>9 DEF Merge, Landing, HistType
  <2> QED
    BY <1>3, <2>3, <2>4, <2>5
<1>10. CASE MergeUnheard
  <2>1. PICK fetched \in BOOLEAN :
          HaltWith(Confirming(fetched).entry, holder, "merge_failed",
                   snap.head, snap.base, Landing(Confirming(fetched).word))
    BY <1>7, <1>10 DEF MergeUnheard
  <2> DEFINE past == Landing(Confirming(fetched).word)
             e == Confirming(fetched).entry
  <2>2. past \in HistType /\ past.moved = hist.moved
    BY <1>1, LandingType DEF Landing, HistType
  <2>3. e \in EntryType /\ OnRequest(e, Covered(cur), hist.moved[cur])
    BY <1>10, ConfirmOnRequest DEF MergeUnheard, GitHubMerges
  <2>4. HaltWith(e, holder, "merge_failed", snap.head, snap.base, past)
    BY <2>1
  <2> HIDE DEF past, e
  <2> QED
    BY <1>2, <1>4, <2>2, <2>3, <2>4
<1> QED
  BY <1>5, <1>6, <1>8, <1>9, <1>10 DEF Act

(* The invariant is kept by every step.                                    *)
LEMMA StepRequests ==
  ASSUME TypeOK, TypeOK', RequestInv, [Next]_vars
  PROVE  RequestInv'
<1>1. /\ PrGrows
      /\ HistGrows
      /\ ~Merge /\ ~MergeUnheard => hist'.landed = hist.landed
  BY StepPr, StepHist
<1>2. \A a \in Agents :
        /\ Covered(a) \subseteq Covered(a)'
        /\ hist.moved[a] \subseteq hist'.moved[a]
        /\ OnRequest(entry[a], Covered(a)', hist'.moved[a])
        /\ OnRequest(saved.entry[a], Covered(a)', hist'.moved[a])
  BY <1>1, CoveredGrows, OnRequestGrows DEF HistGrows, RequestInv
<1>3. ASSUME NEW a \in Agents
      PROVE  OnRequest(entry'[a], Covered(a)', hist'.moved[a])
  <2>1. CASE entry' = entry
    BY <1>2, <2>1
  <2>2. CASE OperatorStep
    BY <1>2, <2>2, OperatorOnRequest
  <2>3. CASE BeginPass
    <3>1. \/ entry'[a] = entry[a]
          \/ entry'[a] = [entry[a] EXCEPT !.phase = "merged"]
      BY <2>3 DEF BeginPass, Reconciled
    <3> QED
      BY <1>2, <3>1 DEF OnRequest, TypeOK, EntryType
  <2>4. CASE Skip \/ WaitBehindBarrier
    <3>1. entry'[a] = entry[a]
      BY <2>4 DEF Skip, WaitBehindBarrier, Proceed, At, TypeOK
    <3> QED
      BY <1>2, <3>1
  <2>5. CASE Look
    <3>1. OnRequest(entry[a], Covered(a), hist.moved[a])
      BY DEF RequestInv
    <3>2. OnRequest(entry'[a], Covered(a), hist'.moved[a])
      BY <2>5, <3>1, LookOnRequest
    <3> QED
      BY <1>2, <3>2, OnRequestGrows
  <2>6. CASE Act
    <3>1. OnRequest(entry'[a], Covered(a), hist'.moved[a])
      BY <2>6, ActOnRequest
    <3> QED
      BY <1>2, <3>1, OnRequestGrows
  <2>7. CASE Crash
    BY <1>2, <2>7 DEF Crash
  <2> QED
    BY <2>1, <2>2, <2>3, <2>4, <2>5, <2>6, <2>7
    DEF Next, PassStep, OutsideStep, vars, ledgerVars, WorkerPushes,
        GateChanges, PersonCloses, BaseMoves, OutsideRobco, EndPass
<1>4. \A a \in Agents : OnRequest(saved'.entry[a], Covered(a)', hist'.moved[a])
  BY <1>2, <1>3, StepSaved
<1>5. ASSUME NEW a \in Agents
      PROVE  hist'.asked[a] \subseteq Covered(a)'
  <2>1. hist'.asked[a] \subseteq hist.asked[a] \cup 1..pr'[a].head
    <3>1. CASE OperatorStep
      BY <1>2, <3>1, OperatorOnRequest
    <3>2. CASE BeginPass \/ Merge \/ Crash
      <4>1. hist'.asked = hist.asked
        BY <3>2 DEF BeginPass, Merge, Landing, Crash, TypeOK, HistType
      <4> QED
        BY <4>1
    <3>3. CASE Look
      BY <3>3, LookHistory
    <3>4. CASE Act /\ ~Merge
      BY <3>4, ActHistory
    <3>5. CASE hist' = hist
      BY <3>5
    <3> QED
      BY <3>1, <3>2, <3>3, <3>4, <3>5
      DEF Next, PassStep, OutsideStep, vars, WorkerPushes, GateChanges,
          PersonCloses, BaseMoves, OutsideRobco, Skip, WaitBehindBarrier,
          EndPass
  <2>2. hist.asked[a] \subseteq Covered(a)'
    BY <1>2 DEF RequestInv
  <2>3. \A head \in hist'.asked[a] : head \in 1..pr'[a].head
                                       => head \in Covered(a)'
    BY AskedIsCovered
  <2> QED
    BY <2>1, <2>2, <2>3
<1>6. ASSUME NEW a \in Agents, hist'.landed[a].gated # NoHead
      PROVE  hist'.landed[a].gated \in Covered(a)'
  <2>1. CASE hist'.landed = hist.landed
    BY <1>2, <1>6, <2>1 DEF RequestInv
  <2>2. CASE Merge \/ MergeUnheard
    <3>1. PICK fetched \in BOOLEAN :
            /\ Confirming(fetched).word # "none"
            /\ hist'.landed = [hist.landed EXCEPT ![cur] =
                  [gated |-> snap.head, merged |-> pr[cur].head,
                   word |-> Confirming(fetched).word]]
      BY <2>2, MergeLands
    <3>2. snap.head \in Covered(cur)
      BY <2>2, <3>1, MergeLands, ConfirmOnRequest DEF GitHubMerges
    <3>3. \/ hist'.landed[a] = hist.landed[a]
          \/ a = cur /\ hist'.landed[a].gated = snap.head
      BY <3>1 DEF TypeOK, HistType
    <3> QED
      BY <1>2, <1>6, <3>2, <3>3 DEF RequestInv
  <2> QED
    BY <1>1, <2>1, <2>2
<1>7. pc' \in {"update", "merge"}
        => cur' \in Agents /\ snap'.head \in 1..pr'[cur'].head
  <2>1. CASE UNCHANGED <<pc, cur, snap>>
    <3>1. cur \in Agents => pr[cur].head \in Nat /\ pr'[cur].head \in Nat
      <4>1. pr \in [Agents -> PrType] /\ pr' \in [Agents -> PrType]
        BY DEF TypeOK
      <4>2. \A rec \in PrType : rec.head \in Nat
        BY DEF PrType
      <4> QED
        BY <4>1, <4>2
    <3> QED
      BY <1>1, <2>1, <3>1 DEF RequestInv, PrGrows
  <2>2. CASE Look
    <3>1. /\ cur \in Agents
          /\ pr' = pr
          /\ pr[cur].head \in Commits
      BY <2>2, LookCases, RevisionTypes DEF Looking, At, githubVars
    <3>2. CASE LookUpdates \/ LookReady
      <4>1. cur' = cur /\ snap'.head = pr[cur].head
        BY <3>2 DEF LookUpdates, LookReady, Snap
      <4> QED
        BY <3>1, <4>1
    <3>3. CASE ~LookUpdates /\ ~LookReady
      <4>1. pc' = "look"
        BY <2>2, <3>3, LookCases, HaltMovesOn
        DEF LookHalted, LookHalts, LookSettling, Proceed
      <4> QED
        BY <4>1
    <3> QED
      BY <3>2, <3>3
  <2>3. CASE Act /\ ~Merge
    BY <2>3, ActHistory
  <2>4. CASE \/ BeginPass \/ Skip \/ WaitBehindBarrier \/ Merge \/ EndPass
             \/ Crash
    <3>1. pc' \in {"look", "idle"}
      BY <2>4 DEF BeginPass, Skip, WaitBehindBarrier, Merge, EndPass, Crash,
                  Proceed
    <3> QED
      BY <3>1
  <2> QED
    BY <2>1, <2>2, <2>3, <2>4
    DEF Next, PassStep, OperatorStep, OutsideStep, vars, passVars,
        WorkerPushes, GateChanges, PersonCloses, BaseMoves, OutsideRobco,
        RuntimeApproval, DiscordApproval, OperatorOverride, BranchUpdated,
        DrainRequest
<1> QED
  BY <1>3, <1>4, <1>5, <1>6, <1>7 DEF RequestInv

(* Nothing has been asked or merged initially.                             *)
LEMMA InitRequests == Init => RequestInv
  BY DEF Init, RequestInv, OnRequest, NewEntry, NoRecovery

(* No merge without an operator's word for the revision the gate cleared   *)
(* (merge_allow::confirm_requested).                                       *)
THEOREM MergesOnRequest == Spec => []MergedOnRequest
<1>1. TypeOK /\ TypeOK' /\ RequestInv /\ [Next]_vars => RequestInv'
  BY StepRequests
<1>2. RequestInv => MergedOnRequest
  BY DEF RequestInv, MergedOnRequest, Covered
<1> QED
  BY <1>1, <1>2, InitRequests, TypeCorrect, PTL DEF Spec

-----------------------------------------------------------------------------
(* The pass implements its contract                                        *)

(* What robco has landed, GitHub has merged.                               *)
LandedInv ==
    \A a \in Agents :
        hist.landed[a].gated # NoHead => pr[a].state = "merged"

(* Whatever robco merged, GitHub has merged: only a merge lands anything.  *)
LEMMA StepLanded ==
  ASSUME TypeOK, LandedInv, [Next]_vars
  PROVE  LandedInv'
<1> SUFFICES ASSUME NEW a \in Agents, hist'.landed[a].gated # NoHead
             PROVE  pr'[a].state = "merged"
  BY DEF LandedInv
<1>1. CASE hist'.landed[a] = hist.landed[a]
  BY <1>1, StepPr DEF LandedInv, PrGrows
<1>2. CASE (Merge \/ MergeUnheard) /\ a = cur
  BY <1>2, MergeLands DEF GitHubMerges, TypeOK, PrType
<1> QED
  <2>1. (Merge \/ MergeUnheard) /\ a # cur => hist'.landed[a] = hist.landed[a]
    BY MergeLands DEF TypeOK, HistType
  <2> QED
    BY <1>1, <1>2, <2>1, StepHist

(* The branches and words of the other entries are as they were.           *)
OthersKept(b) ==
    \A a \in Agents \ {b} :
        /\ pr'[a].head = pr[a].head
        /\ pr'[a].forced = pr[a].forced
        /\ hist'.asked[a] = hist.asked[a]
        /\ hist'.moved[a] = hist.moved[a]

(* A step that is not about an entry leaves what covers it alone.          *)
LEMMA OthersCovered ==
  ASSUME NEW b, OthersKept(b), NEW a \in Agents \ {b}
  PROVE  Covered(a)' = Covered(a)
  BY DEF OthersKept, Covered, Covers, IsAncestor

(* Every step is about one entry at most.                                  *)
LEMMA StepOthers ==
  ASSUME TypeOK, [Next]_vars
  PROVE  \E b \in Agents : /\ OthersKept(b)
                           /\ ~OperatorStep => hist'.asked[b] = hist.asked[b]
<1>0. /\ hist \in HistType
      /\ pr \in [Agents -> PrType]
      /\ 1 \in Agents
  BY PassAssumption DEF TypeOK
<1>1. CASE OperatorStep
  <2>1. PICK b \in Agents :
          \/ \E head \in Commits : RuntimeApproval(b, head)
          \/ DiscordApproval(b)
          \/ OperatorOverride(b)
          \/ BranchUpdated(b)
    BY <1>1 DEF OperatorStep
  <2>2. pr' = pr
    BY <2>1 DEF RuntimeApproval, DiscordApproval, OperatorOverride,
                BranchUpdated, DrainRequest, githubVars
  <2>3. CASE \E head \in Commits : RuntimeApproval(b, head)
    BY <1>0, <1>1, <2>2, <2>3 DEF RuntimeApproval, HistType, OthersKept
  <2>4. CASE DiscordApproval(b)
    BY <1>0, <1>1, <2>2, <2>4 DEF DiscordApproval, HistType, OthersKept
  <2>5. CASE OperatorOverride(b)
    BY <1>0, <1>1, <2>2, <2>5 DEF OperatorOverride, HistType, OthersKept
  <2>6. CASE BranchUpdated(b)
    BY <1>1, <2>2, <2>6 DEF BranchUpdated, OthersKept
  <2> QED
    BY <2>1, <2>3, <2>4, <2>5, <2>6
<1>2. CASE OutsideStep
  <2>1. hist' = hist
    BY <1>2 DEF OutsideStep, WorkerPushes, GateChanges, PersonCloses,
                BaseMoves, OutsideRobco
  <2>2. \E b \in Agents : \A a \in Agents \ {b} : pr'[a] = pr[a]
    <3>1. CASE BaseMoves
      BY <1>0, <3>1 DEF BaseMoves
    <3>2. ASSUME NEW b \in Agents,
                 WorkerPushes(b) \/ GateChanges(b) \/ PersonCloses(b)
          PROVE  \A a \in Agents \ {b} : pr'[a] = pr[a]
      BY <1>0, <3>2 DEF WorkerPushes, GateChanges, PersonCloses
    <3> QED
      BY <1>2, <3>1, <3>2 DEF OutsideStep
  <2> QED
    BY <2>1, <2>2 DEF OthersKept
<1>3. CASE BeginPass \/ Crash
  <2>1. pr' = pr /\ hist'.asked = hist.asked /\ hist'.moved = hist.moved
    BY <1>0, <1>3 DEF BeginPass, Crash, githubVars, HistType
  <2> QED
    BY <1>0, <2>1 DEF OthersKept
<1>4. CASE Look
  <2>1. cur \in Agents /\ pr' = pr
    BY <1>4, LookCases DEF Looking, At, githubVars
  <2> QED
    BY <1>4, <2>1, LookHistory DEF OthersKept
<1>5. CASE Act /\ ~Merge
  <2>1. cur \in Agents /\ \A a \in Agents \ {cur} : pr'[a] = pr[a]
    BY <1>0, <1>5 DEF Act, UpdateBranch, UpdateUnheard, UpdateFails,
                      RequestStale, MergeUnheard, MergeFails, GitHubUpdates,
                      GitHubMerges, At, githubVars
  <2> QED
    BY <1>5, <2>1, ActHistory DEF OthersKept
<1>6. CASE Merge
  <2>1. cur \in Agents /\ \A a \in Agents \ {cur} : pr'[a] = pr[a]
    BY <1>0, <1>6 DEF Merge, GitHubMerges, At
  <2>2. hist'.asked = hist.asked /\ hist'.moved = hist.moved
    BY <1>0, <1>6 DEF Merge, Landing, HistType
  <2> QED
    BY <2>1, <2>2 DEF OthersKept
<1>7. CASE UNCHANGED <<pr, hist>>
  BY <1>0, <1>7 DEF OthersKept
<1> QED
  BY <1>1, <1>2, <1>3, <1>4, <1>5, <1>6, <1>7
  DEF Next, PassStep, vars, githubVars, Skip, WaitBehindBarrier, EndPass

(* The barrier is given up by a look, a fast-forward or a crash, and only  *)
(* a merge robco hears of raises it.                                       *)
LEMMA StepCaughtUp ==
  ASSUME TypeOK, [Next]_vars, ~Merge
  PROVE  /\ CaughtUp => CaughtUp'
         /\ ~BeginPass /\ ~Look /\ ~Crash => CaughtUp' = CaughtUp
<1>0. /\ hist \in HistType
      /\ base \in Nat
      /\ local \in 0..base
      /\ hist.lastMerge \in Nat
  BY DEF TypeOK, HistType
<1>1. CASE BeginPass
  <2>1. hist'.lastMerge = hist.lastMerge /\ hist'.lifted = hist.lifted
    BY <1>0, <1>1 DEF BeginPass, HistType
  <2>2. local' = local \/ local' = base
    BY <1>1 DEF BeginPass
  <2> QED
    BY <1>0, <1>1, <2>1, <2>2 DEF CaughtUp
<1>2. CASE Look
  <2>1. local' = local
    BY <1>2, LookCases DEF Looking, checkoutVars
  <2> QED
    BY <1>2, <2>1, LookHistory DEF CaughtUp
<1>3. CASE Crash
  <2>1. hist'.lifted
    BY <1>0, <1>3 DEF Crash, HistType
  <2> QED
    BY <1>3, <2>1 DEF CaughtUp
<1>4. CASE Act /\ ~Merge
  <2>1. local' = local
    BY <1>4 DEF Act, UpdateBranch, UpdateUnheard, UpdateFails, RequestStale,
                MergeUnheard, MergeFails, GitHubUpdates, GitHubMerges,
                checkoutVars
  <2> QED
    BY <1>4, <2>1, ActHistory DEF CaughtUp
<1>5. CASE OperatorStep
  <2>1. PICK b \in Agents :
          \/ \E head \in Commits : RuntimeApproval(b, head)
          \/ DiscordApproval(b)
          \/ OperatorOverride(b)
          \/ BranchUpdated(b)
    BY <1>5 DEF OperatorStep
  <2>2. local' = local
    BY <2>1 DEF RuntimeApproval, DiscordApproval, OperatorOverride,
                BranchUpdated, DrainRequest, checkoutVars
  <2>3. hist'.lastMerge = hist.lastMerge /\ hist'.lifted = hist.lifted
    BY <1>0, <2>1 DEF RuntimeApproval, DiscordApproval, OperatorOverride,
                      BranchUpdated, HistType
  <2> QED
    BY <2>2, <2>3 DEF CaughtUp
<1>6. CASE UNCHANGED <<local, hist>>
  BY <1>6 DEF CaughtUp
<1> QED
  BY <1>1, <1>2, <1>3, <1>4, <1>5, <1>6
  DEF Next, PassStep, OutsideStep, vars, checkoutVars, WorkerPushes,
      GateChanges, PersonCloses, BaseMoves, OutsideRobco, Skip,
      WaitBehindBarrier, EndPass

(* A step of the pass is a step of the contract or changes nothing in it.  *)
LEMMA StepContract ==
  ASSUME TypeOK, TypeOK', RequestInv, RequestInv', BarrierInv, LandedInv,
         [Next]_vars
  PROVE  [Contract!ContractNext]_Contract!contractVars
<1> DEFINE covered == [a \in Agents |-> Covered(a)]
           landed == [a \in Agents |-> hist.landed[a].gated]
<1>1. PICK b \in Agents : /\ OthersKept(b)
                          /\ ~OperatorStep => hist'.asked[b] = hist.asked[b]
  BY StepOthers
<1>2. /\ \A a \in Agents : Covered(a) \subseteq Commits
      /\ \A a \in Agents : Covered(a)' \subseteq Commits
      /\ \A a \in Agents \ {b} : Covered(a)' = Covered(a)
      /\ Covered(b) \subseteq Covered(b)'
  <2>1. \A a \in Agents : pr[a].head \in Commits
    BY RevisionTypes
  <2>2. \A a \in Agents : Covered(a) \subseteq Commits
    BY <2>1, PassAssumption DEF Covered
  <2>3. \A a \in Agents : pr'[a].head \in Commits
    BY DEF TypeOK, PrType
  <2>4. \A a \in Agents : Covered(a)' \subseteq Commits
    BY <2>3, PassAssumption DEF Covered
  <2>5. Covered(b) \subseteq Covered(b)'
    BY StepPr, StepHist, CoveredGrows
  <2> QED
    BY <1>1, <2>2, <2>4, <2>5, OthersCovered
<1>3. /\ covered' = [covered EXCEPT ![b] = Covered(b)']
      /\ covered[b] = Covered(b)
      /\ Covered(b)' = Covered(b) => covered' = covered
  BY <1>2
<1>4. ASSUME NEW h \in Covered(b)'
      PROVE  \E more \in SUBSET Commits :
               /\ covered' = [covered EXCEPT ![b] = @ \cup {h} \cup more]
               /\ covered' = [covered EXCEPT ![b] = @ \cup more]
  <2>1. /\ Covered(b)' \in SUBSET Commits
        /\ Covered(b)' = covered[b] \cup {h} \cup Covered(b)'
        /\ Covered(b)' = covered[b] \cup Covered(b)'
    BY <1>2, <1>3
  <2> HIDE DEF covered
  <2> QED
    BY <1>3, <2>1
<1>5. ASSUME Merge \/ MergeUnheard
      PROVE  /\ cur \in Agents
             /\ snap.head \in Covered(cur)
             /\ snap.head \in Commits
             /\ pr' = [pr EXCEPT ![cur].state = "merged"]
             /\ local' = local
             /\ CaughtUp
             /\ landed[cur] = NoHead
             /\ landed' = [landed EXCEPT ![cur] = snap.head]
             /\ covered[cur] = Covered(cur)
  <2>1. PICK fetched \in BOOLEAN :
          /\ Confirming(fetched).word # "none"
          /\ hist'.landed = [hist.landed EXCEPT ![cur] =
                [gated |-> snap.head, merged |-> pr[cur].head,
                 word |-> Confirming(fetched).word]]
    BY <1>5, MergeLands
  <2>2. /\ cur \in Agents
        /\ snap.head \in Covered(cur)
        /\ snap.head \in Commits
        /\ pr[cur].state = "open"
        /\ pr' = [pr EXCEPT ![cur].state = "merged"]
        /\ local' = local
        /\ CaughtUp
    BY <1>2, <1>5, <2>1, MergeLands, ConfirmOnRequest
    DEF GitHubMerges, At, checkoutVars, BarrierInv
  <2>3. landed[cur] = NoHead
    BY <2>2 DEF LandedInv
  <2>4. landed' = [landed EXCEPT ![cur] = snap.head]
    <3>1. hist.landed \in [Agents -> LandedType]
      BY DEF TypeOK, HistType
    <3>2. \A a \in Agents :
            hist'.landed[a] = IF a = cur
                              THEN [gated |-> snap.head, merged |-> pr[cur].head,
                                    word |-> Confirming(fetched).word]
                              ELSE hist.landed[a]
      BY <2>1, <3>1
    <3>3. \A a \in Agents :
            hist'.landed[a].gated = IF a = cur THEN snap.head
                                               ELSE hist.landed[a].gated
      BY <3>2
    <3> QED
      BY <2>2, <3>3
  <2> QED
    BY <2>2, <2>3, <2>4
<1>6. CASE Merge
  <2>0. cur \in Agents /\ pr' = [pr EXCEPT ![cur].state = "merged"]
    BY <1>5, <1>6
  <2>1. /\ hist'.asked = hist.asked
        /\ hist'.moved = hist.moved
        /\ hist'.lastMerge = base + 1
        /\ ~hist'.lifted
    BY <1>6 DEF Merge, Landing, TypeOK, HistType
  <2>2. covered' = covered
    <3>0. pr \in [Agents -> PrType]
      BY DEF TypeOK
    <3>1. \A a \in Agents : /\ pr'[a].head = pr[a].head
                            /\ pr'[a].forced = pr[a].forced
      BY <2>0, <3>0 DEF PrType
    <3>2. \A a \in Agents : Covered(a)' = Covered(a)
      BY <2>1, <3>1 DEF Covered, Covers, IsAncestor
    <3> QED
      BY <3>2
  <2>3. CaughtUp' = FALSE
    <3>1. ~(local >= base + 1)
      BY DEF TypeOK
    <3> QED
      BY <1>5, <1>6, <2>1, <3>1 DEF CaughtUp
  <2>4. PICK a \in Agents, head \in Commits : a = cur /\ head = snap.head
    BY <1>5, <1>6
  <2>5. Contract!Land(a, head)
    BY <1>5, <1>6, <2>2, <2>3, <2>4 DEF Contract!Land
  <2> QED
    BY <2>5 DEF Contract!ContractNext
<1>7. CASE MergeUnheard /\ ~Merge
  <2>1. Act
    BY <1>7 DEF Act
  <2>2. PICK a \in Agents, head \in Commits : a = cur /\ head = snap.head
    BY <1>5, <1>7
  <2>3. OthersKept(a)
    <3>1. \A c \in Agents \ {a} : pr'[c] = pr[c]
      BY <1>5, <1>7, <2>2 DEF TypeOK
    <3> QED
      BY <1>7, <2>1, <2>2, <3>1, ActHistory DEF OthersKept
  <2>4. \A c \in Agents \ {a} : Covered(c)' = Covered(c)
    BY <2>3, OthersCovered
  <2>5. Covered(a) \subseteq Covered(a)'
    BY StepPr, StepHist, CoveredGrows
  <2>6. /\ covered' = [covered EXCEPT ![a] = Covered(a)']
        /\ Covered(a)' = covered[a] \cup Covered(a)'
        /\ Covered(a)' \in SUBSET Commits
    BY <1>2, <2>4, <2>5
  <2>7. \E more \in SUBSET Commits :
          covered' = [covered EXCEPT ![a] = @ \cup more]
    <3> HIDE DEF covered
    <3> QED
      BY <2>6
  <2>8. CaughtUp' = CaughtUp
    BY <1>5, <1>7, <2>1, ActHistory DEF CaughtUp
  <2>9. head \in covered[a]
    BY <1>5, <1>7, <2>2
  <2>10. landed[a] = NoHead /\ landed' = [landed EXCEPT ![a] = head] /\ CaughtUp
    BY <1>5, <1>7, <2>2
  <2>11. Contract!LandUnheard(a, head)
    BY <2>7, <2>8, <2>9, <2>10 DEF Contract!LandUnheard
  <2> QED
    BY <2>11 DEF Contract!ContractNext
<1>8. CASE ~Merge /\ ~MergeUnheard
  <2>1. landed' = landed
    BY <1>8, StepHist
  <2>2. /\ CaughtUp => CaughtUp'
        /\ ~BeginPass /\ ~Look /\ ~Crash => CaughtUp' = CaughtUp
        /\ CaughtUp \in BOOLEAN
        /\ CaughtUp' \in BOOLEAN
    <3>1. CaughtUp \in BOOLEAN /\ CaughtUp' \in BOOLEAN
      BY DEF CaughtUp, TypeOK, HistType
    <3> QED
      BY <1>8, <3>1, StepCaughtUp
  <2>3. CASE Covered(b)' = Covered(b)
    <3>1. covered' = covered
      BY <1>3, <2>3
    <3>2. CASE CaughtUp' = CaughtUp
      BY <2>1, <3>1, <3>2 DEF Contract!contractVars
    <3>3. CASE CaughtUp' = TRUE
      <4>1. Contract!CatchUp
        BY <2>1, <3>1, <3>3 DEF Contract!CatchUp
      <4> QED
        BY <4>1 DEF Contract!ContractNext
    <3> QED
      BY <2>2, <3>2, <3>3
  <2>4. CASE Covered(b)' # Covered(b)
    <3>1. PICK h : h \in Covered(b)'
      BY <1>2, <2>4
    <3>2. h \in Commits
      BY <1>2, <3>1
    <3>3. PICK more \in SUBSET Commits :
            /\ covered' = [covered EXCEPT ![b] = @ \cup {h} \cup more]
            /\ covered' = [covered EXCEPT ![b] = @ \cup more]
      BY <1>4, <3>1
    <3>4. CASE OperatorStep
      <4>1. CaughtUp' = CaughtUp
        <5>1. DrainRequest
          BY <3>4 DEF OperatorStep, RuntimeApproval, DiscordApproval,
                      OperatorOverride, BranchUpdated
        <5>2. pc = "idle" /\ pc' = "idle" /\ crashes' = crashes
          BY <5>1 DEF DrainRequest, passVars
        <5>3. ~BeginPass
          BY <5>2 DEF BeginPass
        <5>4. ~Look
          BY <5>2, LookCases DEF Looking, At
        <5>5. ~Crash
          BY <5>2 DEF Crash, TypeOK
        <5> QED
          BY <2>2, <5>3, <5>4, <5>5
      <4>2. Contract!Ask(b, h)
        BY <2>1, <3>3, <4>1 DEF Contract!Ask
      <4> QED
        BY <3>2, <4>2 DEF Contract!ContractNext
    <3>5. CASE ~OperatorStep
      <4>1. covered[b] # {}
        <5>1. hist'.asked[b] # {}
          BY <3>1 DEF Covered, Covers
        <5>2. hist.asked[b] \subseteq Covered(b)
          BY DEF RequestInv
        <5> QED
          BY <1>1, <1>3, <3>5, <5>1, <5>2
      <4>2. CaughtUp' \in {CaughtUp, TRUE}
        BY <2>2
      <4>3. Contract!Carry(b)
        BY <2>1, <3>3, <4>1, <4>2 DEF Contract!Carry
      <4> QED
        BY <4>3 DEF Contract!ContractNext
    <3> QED
      BY <3>4, <3>5
  <2> QED
    BY <2>3, <2>4
<1> QED
  BY <1>6, <1>7, <1>8

(* The pass starts where the contract does.                                *)
LEMMA InitContract == Init => Contract!ContractInit
<1> SUFFICES ASSUME Init PROVE Contract!ContractInit
  OBVIOUS
<1>1. \A a \in Agents : Covered(a) = {}
  BY DEF Init, Covered, Covers
<1>2. \A a \in Agents : hist.landed[a].gated = NoHead
  BY DEF Init
<1>3. CaughtUp = TRUE
  BY DEF Init, CaughtUp
<1> QED
  BY <1>1, <1>2, <1>3 DEF Contract!ContractInit

(* The auto-merge pass implements what robco promises an operator: each    *)
(* pull request merges once, at a revision an operator's word covers, and  *)
(* not on a base the primary checkout has yet to catch up with.            *)
THEOREM PassKeepsContract == Spec => KeepsContract
<1>1. Init => RequestInv /\ BarrierInv /\ LandedInv
  BY InitRequests DEF Init, BarrierInv, CaughtUp, LandedInv
<1>2. TypeOK /\ TypeOK' /\ RequestInv /\ [Next]_vars => RequestInv'
  BY StepRequests
<1>3. TypeOK /\ BarrierInv /\ [Next]_vars => BarrierInv'
  BY StepBarrier
<1>4. TypeOK /\ LandedInv /\ [Next]_vars => LandedInv'
  BY StepLanded
<1>5. TypeOK /\ TypeOK' /\ RequestInv /\ RequestInv' /\ BarrierInv
        /\ LandedInv /\ [Next]_vars
        => [Contract!ContractNext]_Contract!contractVars
  BY StepContract
<1> QED
  BY <1>1, <1>2, <1>3, <1>4, <1>5, InitContract, TypeCorrect, PTL
  DEF Spec, KeepsContract, Contract!ContractSpec

-----------------------------------------------------------------------------
(* Handbacks                                                               *)

(* A halt that hands nothing back leaves the failure last charged for.     *)
SameFailure(e, f) ==
    /\ f.recovery.charged = e.recovery.charged
    /\ f.recovery.head = e.recovery.head
    /\ f.recovery.base = e.recovery.base

(* What a halt that hands (head, onBase) back remembers of it: the charge, *)
(* or nothing, when the charge is given back.                              *)
Recharged(e, f, head, onBase, session) ==
    \/ /\ f.recovery.charged = e.recovery.charged + 1
       /\ f.recovery.head = head
       /\ f.recovery.base = onBase
    \/ /\ session # "confirms"
       /\ f.recovery.charged = e.recovery.charged
       /\ f.recovery.head = NoHead
       /\ f.recovery.base = 0

(* Every failure handed back is behind the present one, (head, onBase), or *)
(* the one remembered.                                                     *)
HandedBehind(recovery, handed, head, onBase) ==
    \A f \in handed :
        /\ f[1] <= head
        /\ f[2] <= onBase
        /\ \/ f[1] = recovery.head /\ f[2] = recovery.base
           \/ f[1] < head
           \/ f[2] < onBase

(* The handbacks of one pull request: as many as are charged, what the     *)
(* ledger on disk remembers being no more, and none ahead of what is read. *)
HandedRight(a) ==
    /\ IsFiniteSet(hist.handed[a])
    /\ Cardinality(hist.handed[a]) <= entry[a].recovery.charged
    /\ saved.entry[a].recovery.charged <= entry[a].recovery.charged
    /\ HandedBehind(entry[a].recovery, hist.handed[a], pr[a].head, base)
    /\ pc \in {"update", "merge"} /\ cur = a =>
         /\ snap.head <= pr[a].head
         /\ snap.base <= base
         /\ HandedBehind(entry[a].recovery, hist.handed[a], snap.head, snap.base)

HandedInv == crashes = 0 => \A a \in Agents : HandedRight(a)

(* A refund takes one charge back, and the failure with it.                *)
LEMMA RefundGivesBack ==
  ASSUME NEW e \in EntryType
  PROVE  /\ Refund(e) \in EntryType
         /\ Refund(e).recovery.head = NoHead
         /\ Refund(e).recovery.base = 0
         /\ e.recovery.charged > 0
              => Refund(e).recovery.charged = e.recovery.charged - 1
<1> DEFINE c == IF e.recovery.charged > 0 THEN e.recovery.charged - 1 ELSE 0
           r == [e.recovery EXCEPT !.charged = c, !.head = NoHead, !.base = 0]
<1>1. Refund(e) = [e EXCEPT !.recovery = r]
  BY DEF Refund
<1>2. /\ r.charged = c /\ r.head = NoHead /\ r.base = 0
  BY FieldTypes DEF RecoveryType
<1>3. e.recovery.charged > 0 => c = e.recovery.charged - 1
  OBVIOUS
<1>4. Refund(e) \in EntryType
  BY RefundKeeps DEF Keeps
<1> HIDE DEF r, c
<1>5. Refund(e).recovery = r
  BY <1>1 DEF EntryType
<1> QED
  BY <1>2, <1>3, <1>4, <1>5

(* Dropping what is pending, or escalating, keeps the failure charged.     *)
LEMMA DiscardSameFailure ==
  ASSUME NEW e \in EntryType
  PROVE  /\ SameFailure(e, DiscardPending(e))
         /\ SameFailure(e, Escalate(e))
<1> DEFINE r == [e.recovery EXCEPT !.pending = NoPending]
<1>1. DiscardPending(e) = [e EXCEPT !.recovery = r]
  BY DEF DiscardPending
<1>2. /\ r.charged = e.recovery.charged
      /\ r.head = e.recovery.head
      /\ r.base = e.recovery.base
  BY FieldTypes DEF RecoveryType
<1>3. Escalate(e).recovery = e.recovery
  BY DEF Escalate, EntryType
<1> HIDE DEF r
<1>4. DiscardPending(e).recovery = r
  BY <1>1 DEF EntryType
<1> QED
  BY <1>2, <1>3, <1>4 DEF SameFailure

(* A worker in mid-turn gives the charge back.                             *)
LEMMA WithholdGivesBack ==
  ASSUME NEW e \in EntryType, NEW reason \in Reasons, e.recovery.charged > 0
  PROVE  LET f == Withhold(e, reason)
         IN /\ f.recovery.charged = e.recovery.charged - 1
            /\ f.recovery.head = NoHead
            /\ f.recovery.base = 0
<1> DEFINE g == Refund(e)
           f == Withhold(e, reason)
<1>1. /\ g \in EntryType
      /\ g.recovery.charged = e.recovery.charged - 1
      /\ g.recovery.head = NoHead
      /\ g.recovery.base = 0
  BY RefundGivesBack
<1>2. \/ f = Escalate(DiscardPending(g))
      \/ \E p : f = [g EXCEPT !.recovery = [g.recovery EXCEPT !.pending = p]]
  BY DEF Withhold
<1> HIDE DEF f, g
<1>3. SameFailure(g, Escalate(DiscardPending(g)))
  <2>1. DiscardPending(g) \in EntryType /\ SameFailure(g, DiscardPending(g))
    BY <1>1, DiscardPendingKeeps, DiscardSameFailure DEF Keeps
  <2> QED
    BY <2>1, DiscardSameFailure DEF SameFailure
<1>4. \A p : SameFailure(g, [g EXCEPT !.recovery =
                                [g.recovery EXCEPT !.pending = p]])
  <2> TAKE p
  <2> DEFINE r == [g.recovery EXCEPT !.pending = p]
  <2>1. /\ r.charged = g.recovery.charged
        /\ r.head = g.recovery.head
        /\ r.base = g.recovery.base
    BY <1>1, FieldTypes DEF RecoveryType
  <2> HIDE DEF r
  <2>2. [g EXCEPT !.recovery = r].recovery = r
    BY <1>1 DEF EntryType
  <2> QED
    BY <2>1, <2>2 DEF SameFailure, r
<1>5. SameFailure(g, f)
  BY <1>2, <1>3, <1>4
<1> QED
  BY <1>1, <1>5 DEF SameFailure, f

(* So does a prompt no turn was seen to follow.                            *)
LEMMA UndeliveredGivesBack ==
  ASSUME NEW e \in EntryType, e.recovery.charged > 0
  PROVE  LET f == Undelivered(e)
         IN /\ f.recovery.charged = e.recovery.charged - 1
            /\ f.recovery.head = NoHead
            /\ f.recovery.base = 0
<1> DEFINE d == DiscardPending(e)
           g == Refund(d)
           f == Undelivered(e)
<1>1. d \in EntryType /\ d.recovery.charged = e.recovery.charged
  BY DiscardPendingKeeps, DiscardSameFailure DEF Keeps, SameFailure
<1>2. \E h, n : \/ f = Escalate([g EXCEPT !.recovery = [g.recovery EXCEPT
                          !.undeliveredHead = h, !.undelivered = n]])
                \/ f = [g EXCEPT !.recovery = [g.recovery EXCEPT
                          !.undeliveredHead = h, !.undelivered = n]]
  BY Zenon DEF Undelivered
<1> HIDE DEF f, d
<1>3. /\ g \in EntryType
      /\ g.recovery.charged = e.recovery.charged - 1
      /\ g.recovery.head = NoHead
      /\ g.recovery.base = 0
  BY <1>1, RefundGivesBack
<1> HIDE DEF g
<1>4. PICK h, n : \/ f = Escalate([g EXCEPT !.recovery = [g.recovery EXCEPT
                          !.undeliveredHead = h, !.undelivered = n]])
                  \/ f = [g EXCEPT !.recovery = [g.recovery EXCEPT
                          !.undeliveredHead = h, !.undelivered = n]]
  BY <1>2
<1> DEFINE r == [g.recovery EXCEPT !.undeliveredHead = h, !.undelivered = n]
<1>5. /\ r.charged = g.recovery.charged
      /\ r.head = g.recovery.head
      /\ r.base = g.recovery.base
  BY <1>3, FieldTypes DEF RecoveryType
<1>6. f = Escalate([g EXCEPT !.recovery = r]) \/ f = [g EXCEPT !.recovery = r]
  BY <1>4
<1> HIDE DEF r
<1>7. f.recovery = r
  BY <1>3, <1>6 DEF EntryType, Escalate
<1> QED
  BY <1>3, <1>5, <1>7 DEF f

(* A confirmed handback keeps its charge.                                  *)
LEMMA DeliveredSameFailure ==
  ASSUME NEW e \in EntryType
  PROVE  SameFailure(e, Delivered(e))
<1> DEFINE r == [e.recovery EXCEPT !.pending = NoPending,
                                   !.undeliveredHead = NoHead,
                                   !.undelivered = 0]
<1>1. Delivered(e) = [e EXCEPT !.phase = "pr_opened", !.recovery = r]
  BY DEF Delivered
<1>2. /\ r.charged = e.recovery.charged
      /\ r.head = e.recovery.head
      /\ r.base = e.recovery.base
  BY FieldTypes DEF RecoveryType
<1> HIDE DEF r
<1>3. Delivered(e).recovery = r
  BY <1>1 DEF EntryType
<1> QED
  BY <1>2, <1>3 DEF SameFailure

(* What the worker's session answers decides whether the charge is kept.   *)
LEMMA ConsiderCharges ==
  ASSUME NEW e \in EntryType, NEW reason \in Reasons, NEW head \in Nat,
         NEW onBase \in Nat, NEW session \in Sessions
  PROVE  LET f == Consider(e, reason, head, onBase, session)
         IN IF PlanDispatches(e, reason, head, onBase)
            THEN Recharged(e, f, head, onBase, session)
            ELSE SameFailure(e, f)
<1> DEFINE f == Consider(e, reason, head, onBase, session)
           c == ChargeRecovery(e, head, onBase)
<1>1. CASE PlanDispatches(e, reason, head, onBase)
  <2>1. f = Dispatch(c, reason, session)
    BY <1>1 DEF Consider, PlanDispatches
  <2>2. c \in EntryType
    BY <1>1, ChargeRecoveryHalts DEF PlanDispatches, HaltsTo
  <2>3. /\ c.recovery.charged = e.recovery.charged + 1
        /\ c.recovery.head = head
        /\ c.recovery.base = onBase
    <3> DEFINE r == [e.recovery EXCEPT !.charged = e.recovery.charged + 1,
                                       !.head = head, !.base = onBase]
    <3>1. /\ r.charged = e.recovery.charged + 1
          /\ r.head = head
          /\ r.base = onBase
      BY FieldTypes DEF RecoveryType
    <3>2. c = [e EXCEPT !.recovery = r]
      BY DEF ChargeRecovery
    <3> HIDE DEF r, c
    <3>3. c.recovery = r
      BY <3>2 DEF EntryType
    <3> QED
      BY <3>1, <3>3
  <2>4. e.recovery.charged \in Nat
    BY FieldTypes, ConfigAssumption
  <2> HIDE DEF c, f
  <2> SUFFICES Recharged(e, f, head, onBase, session)
    BY <1>1 DEF f
  <2>5. c.recovery.charged > 0 /\ c.recovery.charged - 1 = e.recovery.charged
    BY <2>3, <2>4
  <2>6. CASE session = "gone"
    <3>1. f = Escalate(DiscardPending(c))
      BY <2>1, <2>6 DEF Dispatch
    <3>2. DiscardPending(c) \in EntryType
      BY <2>2, DiscardPendingKeeps DEF Keeps
    <3>3. SameFailure(c, f)
      BY <2>2, <3>1, <3>2, DiscardSameFailure DEF SameFailure
    <3> QED
      BY <2>3, <3>3 DEF Recharged, SameFailure
  <2>7. CASE session = "busy"
    <3>1. f = Withhold(c, reason)
      BY <2>1, <2>7 DEF Dispatch
    <3>2. /\ f.recovery.charged = c.recovery.charged - 1
          /\ f.recovery.head = NoHead
          /\ f.recovery.base = 0
      BY <2>2, <2>5, <3>1, WithholdGivesBack
    <3> QED
      BY <2>5, <2>7, <3>2 DEF Recharged
  <2>8. CASE session = "send_fails"
    <3>1. SameFailure(c, f)
      BY <2>1, <2>2, <2>8, DiscardSameFailure DEF Dispatch
    <3> QED
      BY <2>3, <3>1 DEF Recharged, SameFailure
  <2>9. CASE session = "silent"
    <3>1. f = Undelivered(c)
      BY <2>1, <2>9 DEF Dispatch
    <3>2. /\ f.recovery.charged = c.recovery.charged - 1
          /\ f.recovery.head = NoHead
          /\ f.recovery.base = 0
      BY <2>2, <2>5, <3>1, UndeliveredGivesBack
    <3> QED
      BY <2>5, <2>9, <3>2 DEF Recharged
  <2>10. CASE session = "confirms"
    <3>1. SameFailure(c, f)
      BY <2>1, <2>2, <2>10, DeliveredSameFailure DEF Dispatch
    <3> QED
      BY <2>3, <3>1 DEF Recharged, SameFailure
  <2> QED
    BY <1>1, <2>6, <2>7, <2>8, <2>9, <2>10 DEF Sessions
<1>2. CASE ~PlanDispatches(e, reason, head, onBase)
  <2>1. f = e \/ f = Escalate(e)
    BY <1>2 DEF Consider
  <2>2. SameFailure(e, f)
    BY <2>1, DiscardSameFailure DEF SameFailure
  <2> QED
    BY <1>2, <2>2
<1> QED
  BY <1>1, <1>2

(* The hold's own charge is none for a handback.                           *)
LEMMA HoldChargeSameFailure ==
  ASSUME NEW e \in EntryType, NEW reason \in Reasons, NEW head \in Nat
  PROVE  SameFailure(e, HoldCharge(e, reason, head))
<1> DEFINE f == HoldCharge(e, reason, head)
<1>1. CASE f = e
  BY <1>1 DEF SameFailure
<1>2. CASE \E h : f = [e EXCEPT !.hold = h]
  <2>1. f.recovery = e.recovery
    BY <1>2 DEF EntryType
  <2> QED
    BY <2>1 DEF SameFailure
<1>3. CASE HoldCapReached(e, reason, head)
  <2> DEFINE fresh == FreshHold(e, reason, head)
             hold == [fresh EXCEPT !.escalated = TRUE]
             recheck == [capEscalated |-> TRUE, spent |-> 0,
                         reason |-> reason, head |-> head]
             held == [e EXCEPT !.hold = hold]
             g == [held EXCEPT !.recheck = recheck]
  <2>0. fresh \in HoldType
    BY FreshHoldType
  <2>1. hold \in HoldType /\ recheck \in RecheckType
    BY <2>0 DEF HoldType, RecheckType
  <2>2. f = DiscardPending(Escalate(g))
    BY <1>3 DEF HoldCharge, HoldCapReached, Escalate, DiscardPending
  <2> HIDE DEF hold, recheck, f
  <2>3. g \in EntryType /\ g.recovery = e.recovery
    BY <2>1 DEF EntryType
  <2> HIDE DEF g
  <2>4. Escalate(g) \in EntryType
    BY <2>3, EscalateKeeps DEF Keeps
  <2>5. SameFailure(e, f)
    BY <2>2, <2>3, <2>4, DiscardSameFailure DEF SameFailure
  <2> QED
    BY <2>5 DEF f
<1>4. CASE ~HoldCapReached(e, reason, head)
  <2>1. f = e \/ \E h : f = [e EXCEPT !.hold = h]
    BY <1>4, Zenon DEF HoldCharge
  <2> QED
    BY <1>1, <1>2, <2>1
<1> QED
  BY <1>3, <1>4

(* A halt charges only for the failure it halts on, and only when it hands *)
(* that back (merge_repo_pass::hold).                                      *)
LEMMA HaltCharges ==
  ASSUME NEW e \in EntryType, NEW recheck \in BOOLEAN, NEW reason \in Reasons,
         NEW head \in Nat, NEW onBase \in Nat, NEW session \in Sessions
  PROVE  LET f == Halt(e, recheck, reason, head, onBase, session)
         IN IF HandsBack(e, recheck, reason, head, onBase)
            THEN /\ Recharged(e, f, head, onBase, session)
                 /\ head # NoHead
                 /\ e.recovery.head # head \/ e.recovery.base # onBase
            ELSE SameFailure(e, f)
<1> DEFINE f == Halt(e, recheck, reason, head, onBase, session)
           g == IF recheck THEN RecheckCharge(e, reason, head) ELSE e
           h == HoldCharge(g, reason, head)
<1>1. g \in EntryType /\ g.recovery = e.recovery
  <2>1. g \in EntryType
    BY RecheckChargeKeeps DEF Keeps
  <2>2. RecheckCharge(e, reason, head).recovery = e.recovery
    BY DEF RecheckCharge, EntryType
  <2> QED
    BY <2>1, <2>2
<1>2. f = IF HoldRecorded(g, reason, head)
          THEN Consider(h, reason, head, onBase, session) ELSE h
  BY DEF Halt, Hold
<1>3. HandsBack(e, recheck, reason, head, onBase)
        <=> HoldRecorded(g, reason, head) /\ PlanDispatches(h, reason, head, onBase)
  BY DEF HandsBack
<1> HIDE DEF g, f
<1>4. h \in EntryType /\ SameFailure(e, h)
  BY <1>1, HoldChargeKeeps, HoldChargeSameFailure DEF Keeps, SameFailure
<1> HIDE DEF h
<1>5. CASE HandsBack(e, recheck, reason, head, onBase)
  <2>1. Recharged(h, f, head, onBase, session)
    BY <1>2, <1>3, <1>4, <1>5, ConsiderCharges
  <2>2. /\ head # NoHead
        /\ h.recovery.head # head \/ h.recovery.base # onBase
    BY <1>3, <1>5 DEF PlanDispatches, PlanIdle
  <2> QED
    BY <1>4, <1>5, <2>1, <2>2 DEF Recharged, SameFailure, f
<1>6. CASE ~HandsBack(e, recheck, reason, head, onBase)
  <2>1. SameFailure(h, f)
    BY <1>2, <1>3, <1>4, <1>6, ConsiderCharges DEF SameFailure
  <2> QED
    BY <1>4, <1>6, <2>1 DEF SameFailure, f
<1> QED
  BY <1>5, <1>6

(* A failure that is not behind stays so as the branch and the base move.  *)
LEMMA BehindGrows ==
  ASSUME NEW recovery, NEW handed \in SUBSET (Commits \X Nat),
         NEW head \in Nat, NEW onBase \in Nat, NEW later \in Nat, NEW onto \in Nat,
         head <= later, onBase <= onto, HandedBehind(recovery, handed, head, onBase)
  PROVE  HandedBehind(recovery, handed, later, onto)
<1> SUFFICES ASSUME NEW f \in handed
             PROVE  /\ f[1] <= later
                    /\ f[2] <= onto
                    /\ \/ f[1] = recovery.head /\ f[2] = recovery.base
                       \/ f[1] < later
                       \/ f[2] < onto
  BY DEF HandedBehind
<1>0. f \in Commits \X Nat
  OBVIOUS
<1>1. f[1] \in Nat /\ f[2] \in Nat
  <2>1. f[1] \in Commits /\ f[2] \in Nat
    BY <1>0
  <2> QED
    BY <2>1
<1>2. /\ f[1] <= head
      /\ f[2] <= onBase
      /\ \/ f[1] = recovery.head /\ f[2] = recovery.base
         \/ f[1] < head
         \/ f[2] < onBase
  BY DEF HandedBehind
<1> QED
  BY <1>1, <1>2

(* The halt of the entry the pass is at, on what it read, or on nothing.   *)
LEMMA HaltHands ==
  ASSUME TypeOK, cur \in Agents, NEW e \in EntryType,
         e.recovery = entry[cur].recovery,
         NEW slot \in {NoAgent} \cup Agents, NEW reason \in Reasons,
         NEW head \in 0..MaxCommits, NEW onBase \in Nat, NEW past \in HistType,
         past.handed = hist.handed,
         HaltWith(e, slot, reason, head, onBase, past),
         NEW readHead \in Nat, NEW readBase \in Nat,
         head # NoHead => head = readHead /\ onBase = readBase,
         IsFiniteSet(hist.handed[cur]),
         Cardinality(hist.handed[cur]) <= entry[cur].recovery.charged,
         HandedBehind(entry[cur].recovery, hist.handed[cur], readHead, readBase)
  PROVE  /\ \A b \in Agents \ {cur} : /\ entry'[b] = entry[b]
                                      /\ hist'.handed[b] = hist.handed[b]
         /\ IsFiniteSet(hist'.handed[cur])
         /\ Cardinality(hist'.handed[cur]) <= entry'[cur].recovery.charged
         /\ entry[cur].recovery.charged <= entry'[cur].recovery.charged
         /\ HandedBehind(entry'[cur].recovery, hist'.handed[cur],
                         readHead, readBase)
         /\ entry'[cur].recovery.charged > entry[cur].recovery.charged
              => \A f \in hist.handed[cur] :
                   <<entry'[cur].recovery.head, entry'[cur].recovery.base>> # f
<1> DEFINE recheck == Due(entry[cur])
           was == entry[cur].recovery
           handed == hist.handed[cur]
<1>1. recheck \in BOOLEAN /\ head \in Nat
  BY PassAssumption DEF Due
<1>2. PICK session \in SessionFacts :
         /\ Proceed(Halt(e, recheck, reason, head, onBase, session), slot)
         /\ hist' =
              IF ~HandsBack(e, recheck, reason, head, onBase) THEN past
              ELSE [past EXCEPT
                      !.moved[cur] = @ \cup {head},
                      !.handed[cur] = IF session = "confirms"
                                      THEN @ \cup {<<head, onBase>>} ELSE @]
  BY DEF HaltWith
<1>3. session \in Sessions
  BY PassAssumption
<1> DEFINE f == Halt(e, recheck, reason, head, onBase, session)
<1>4. IF HandsBack(e, recheck, reason, head, onBase)
      THEN /\ Recharged(e, f, head, onBase, session)
           /\ head # NoHead
           /\ e.recovery.head # head \/ e.recovery.base # onBase
      ELSE SameFailure(e, f)
  BY <1>1, <1>3, HaltCharges
<1> HIDE DEF recheck, f
<1>5. /\ \A b \in Agents \ {cur} : entry'[b] = entry[b]
      /\ entry'[cur] = f
  BY <1>2 DEF Proceed, TypeOK, f, recheck
<1>6. /\ handed \in SUBSET (Commits \X Nat)
      /\ was.charged \in Nat /\ was.head \in Nat /\ was.base \in Nat
      /\ e.recovery = was
  <2>1. entry[cur] \in EntryType
    BY DEF TypeOK
  <2>2. was.charged \in Nat /\ was.head \in Nat /\ was.base \in Nat
    BY <2>1, FieldTypes, ConfigAssumption
  <2>3. hist.handed \in [Agents -> SUBSET (Commits \X Nat)]
    BY DEF TypeOK, HistType
  <2>4. handed \in SUBSET (Commits \X Nat)
    BY <2>3
  <2> QED
    BY <2>2, <2>4
<1>7. /\ IsFiniteSet(handed)
      /\ Cardinality(handed) \in Nat
      /\ Cardinality(handed) <= was.charged
  BY FS_CardinalityType
<1>8. HandedBehind(was, handed, readHead, readBase)
  OBVIOUS
<1> HIDE DEF was, handed
<1>9. CASE ~HandsBack(e, recheck, reason, head, onBase)
  <2>1. /\ \A b \in Agents : hist'.handed[b] = hist.handed[b]
        /\ hist'.handed[cur] = handed
        /\ f.recovery.charged = was.charged
        /\ f.recovery.head = was.head
        /\ f.recovery.base = was.base
    BY <1>2, <1>4, <1>6, <1>9 DEF SameFailure, handed
  <2>2. HandedBehind(f.recovery, handed, readHead, readBase)
    BY <1>8, <2>1 DEF HandedBehind
  <2>3. entry[cur].recovery = was
    BY DEF was
  <2> QED
    BY <1>5, <1>6, <1>7, <2>1, <2>2, <2>3
<1>10. CASE HandsBack(e, recheck, reason, head, onBase)
  <2> DEFINE after == IF session = "confirms" THEN handed \cup {<<head, onBase>>}
                      ELSE handed
  <2>1. /\ \A b \in Agents \ {cur} : hist'.handed[b] = hist.handed[b]
        /\ hist'.handed[cur] = after
    <3>1. hist'.handed = [past.handed EXCEPT ![cur] =
                             IF session = "confirms"
                             THEN @ \cup {<<head, onBase>>} ELSE @]
      BY <1>2, <1>10 DEF HistType
    <3>2. hist.handed \in [Agents -> SUBSET (Commits \X Nat)]
      BY DEF TypeOK, HistType
    <3> QED
      BY <3>1, <3>2 DEF handed
  <2>2. /\ Recharged(e, f, head, onBase, session)
        /\ head = readHead /\ onBase = readBase
        /\ was.head # head \/ was.base # onBase
    BY <1>4, <1>6, <1>10
  <2>3. \A g \in handed : /\ g[1] \in Nat /\ g[2] \in Nat
                          /\ g = <<g[1], g[2]>>
    <3> SUFFICES ASSUME NEW g \in handed
                 PROVE  /\ g[1] \in Nat /\ g[2] \in Nat
                        /\ g = <<g[1], g[2]>>
      OBVIOUS
    <3>1. g \in Commits \X Nat
      BY <1>6
    <3>2. g = <<g[1], g[2]>> /\ g[1] \in Commits /\ g[2] \in Nat
      BY <3>1
    <3> QED
      BY <3>2
  <2>4. \A g \in handed : /\ g[1] <= head
                          /\ g[2] <= onBase
                          /\ g[1] < head \/ g[2] < onBase
    BY <1>1, <1>6, <1>8, <2>2, <2>3 DEF HandedBehind
  <2>5. \A g \in handed : g # <<head, onBase>>
    BY <1>1, <2>3, <2>4
  <2>6. /\ IsFiniteSet(after)
        /\ Cardinality(after) = Cardinality(handed)
           \/ /\ session = "confirms"
              /\ Cardinality(after) = Cardinality(handed) + 1
    <3>1. CASE session = "confirms"
      <4> DEFINE failure == <<head, onBase>>
      <4>1. failure \notin handed
        BY <2>5
      <4> HIDE DEF failure
      <4>2. /\ IsFiniteSet(handed \cup {failure})
            /\ Cardinality(handed \cup {failure}) = Cardinality(handed) + 1
        BY <1>7, <4>1, FS_AddElement
      <4> QED
        BY <3>1, <4>2 DEF failure
    <3> QED
      BY <1>7, <3>1
  <2>7. \A g \in after : \/ g \in handed
                         \/ g[1] = head /\ g[2] = onBase /\ session = "confirms"
    OBVIOUS
  <2> HIDE DEF after
  <2>8. CASE /\ f.recovery.charged = was.charged + 1
             /\ f.recovery.head = head
             /\ f.recovery.base = onBase
    <3>1. HandedBehind(f.recovery, after, readHead, readBase)
      BY <1>1, <2>2, <2>4, <2>7, <2>8 DEF HandedBehind
    <3>2. Cardinality(after) <= f.recovery.charged
      BY <1>6, <1>7, <2>6, <2>8
    <3>3. \A g \in handed : <<f.recovery.head, f.recovery.base>> # g
      BY <2>5, <2>8
    <3> QED
      BY <1>5, <1>6, <2>1, <2>6, <2>8, <3>1, <3>2, <3>3 DEF was, handed
  <2>9. CASE /\ session # "confirms"
             /\ f.recovery.charged = was.charged
    <3>1. HandedBehind(f.recovery, after, readHead, readBase)
      BY <1>1, <2>2, <2>4, <2>7, <2>9 DEF HandedBehind
    <3>2. Cardinality(after) <= f.recovery.charged
      BY <1>6, <1>7, <2>6, <2>9
    <3> QED
      BY <1>5, <1>6, <2>1, <2>6, <2>9, <3>1, <3>2 DEF was, handed
  <2> QED
    BY <1>6, <2>2, <2>8, <2>9 DEF Recharged
<1> QED
  BY <1>9, <1>10

(* A look that halts, or goes on, keeps the handbacks in their order.      *)
LEMMA LookHands ==
  ASSUME TypeOK, HandedInv, crashes = 0, Look
  PROVE  /\ cur \in Agents
         /\ \A b \in Agents \ {cur} : /\ entry'[b] = entry[b]
                                      /\ hist'.handed[b] = hist.handed[b]
         /\ IsFiniteSet(hist'.handed[cur])
         /\ Cardinality(hist'.handed[cur]) <= entry'[cur].recovery.charged
         /\ entry[cur].recovery.charged <= entry'[cur].recovery.charged
         /\ HandedBehind(entry'[cur].recovery, hist'.handed[cur],
                         pr[cur].head, base)
         /\ entry'[cur].recovery.charged > entry[cur].recovery.charged
              => \A f \in hist.handed[cur] :
                   <<entry'[cur].recovery.head, entry'[cur].recovery.base>> # f
         /\ pc' \in {"update", "merge"} => cur' = cur /\ snap' = Snap
<1>1. Looking /\ cur \in Agents /\ holder \in {NoAgent} \cup Agents
  BY LookCases DEF Looking, At, TypeOK
<1>2. /\ entry[cur] \in EntryType
      /\ pr[cur].head \in 0..MaxCommits /\ pr[cur].head \in Nat
      /\ base \in Nat
      /\ 0 \in 0..MaxCommits
  BY <1>1, PassAssumption DEF TypeOK, PrType
<1>3. /\ HistAtLook \in HistType
      /\ HistAtLook.handed = hist.handed
  BY HistAtLookType DEF HistAtLook, TypeOK, HistType
<1>4. /\ IsFiniteSet(hist.handed[cur])
      /\ Cardinality(hist.handed[cur]) <= entry[cur].recovery.charged
      /\ HandedBehind(entry[cur].recovery, hist.handed[cur], pr[cur].head, base)
  BY <1>1 DEF HandedInv, HandedRight
<1>5. ASSUME NEW e \in EntryType, e.recovery = entry[cur].recovery,
             NEW slot \in {NoAgent} \cup Agents, NEW reason \in Reasons,
             NEW head \in 0..MaxCommits, NEW onBase \in Nat,
             head # NoHead => head = pr[cur].head /\ onBase = base,
             LookHalts(e, slot, reason, head, onBase)
      PROVE  /\ \A b \in Agents \ {cur} : /\ entry'[b] = entry[b]
                                          /\ hist'.handed[b] = hist.handed[b]
             /\ IsFiniteSet(hist'.handed[cur])
             /\ Cardinality(hist'.handed[cur]) <= entry'[cur].recovery.charged
             /\ entry[cur].recovery.charged <= entry'[cur].recovery.charged
             /\ HandedBehind(entry'[cur].recovery, hist'.handed[cur],
                             pr[cur].head, base)
             /\ entry'[cur].recovery.charged > entry[cur].recovery.charged
                  => \A f \in hist.handed[cur] :
                       <<entry'[cur].recovery.head,
                         entry'[cur].recovery.base>> # f
             /\ pc' = "look"
  <2>1. HaltWith(e, slot, reason, head, onBase, HistAtLook)
    BY <1>5 DEF LookHalts
  <2>2. pc' = "look"
    BY <2>1, HaltMovesOn
  <2> QED
    BY <1>1, <1>2, <1>3, <1>4, <1>5, <2>1, <2>2, HaltHands
<1> DEFINE merged == [entry[cur] EXCEPT !.phase = "merged"]
           escalated == Escalate(entry[cur])
<1>6. /\ merged \in EntryType /\ merged.recovery = entry[cur].recovery
      /\ escalated \in EntryType /\ escalated.recovery = entry[cur].recovery
  BY <1>2 DEF EntryType, Phases, Escalate
<1>7. /\ GateReasons \subseteq Reasons
      /\ {"unreadable", "already_merged", "closed_unmerged",
          "behind_waiting_turn", "behind_update_cap"} \subseteq Reasons
  BY DEF Reasons
<1>8. \/ LookHalts(entry[cur], holder, "unreadable", NoHead, 0)
      \/ LookHalts(merged, holder, "already_merged", pr[cur].head, base)
      \/ LookHalts(escalated, holder, "closed_unmerged", pr[cur].head, base)
      \/ /\ pr[cur].gate \in GateReasons
         /\ LookHalts(entry[cur], holder, pr[cur].gate, pr[cur].head, base)
      \/ LookHalts(entry[cur], holder, "behind_waiting_turn", pr[cur].head, base)
      \/ LookHalts(escalated, cur, "behind_update_cap", pr[cur].head, base)
      \/ LookUpdates
      \/ LookSettling
      \/ LookReady
  BY DEF Look, LookFails, LookConcluded, LookHeld, LookWaitsTurn, LookCapped
<1> HIDE DEF merged, escalated
<1>9. CASE LookUpdates \/ LookSettling \/ LookReady
  <2>1. /\ entry'[cur].recovery = entry[cur].recovery
        /\ \A b \in Agents \ {cur} : entry'[b] = entry[b]
    <3>1. CASE LookUpdates
      BY <1>1, <1>2, <3>1 DEF LookUpdates, TypeOK, EntryType
    <3>2. CASE LookSettling
      BY <1>1, <1>2, <3>2 DEF LookSettling, Proceed, TypeOK, EntryType
    <3>3. CASE LookReady
      BY <1>1, <3>3 DEF LookReady
    <3> QED
      BY <1>9, <3>1, <3>2, <3>3
  <2>2. hist'.handed = hist.handed
    BY <1>3, <1>9 DEF LookUpdates, LookSettling, LookReady
  <2>3. pc' \in {"update", "merge"} => cur' = cur /\ snap' = Snap
    BY <1>9 DEF LookUpdates, LookSettling, LookReady, Proceed
  <2>4. entry[cur].recovery.charged \in Nat
    BY <1>2, FieldTypes, ConfigAssumption
  <2> QED
    BY <1>1, <1>4, <2>1, <2>2, <2>3, <2>4
<1>10. CASE LookHalts(entry[cur], holder, "unreadable", NoHead, 0)
  BY <1>1, <1>2, <1>5, <1>7, <1>10
<1>11. CASE LookHalts(merged, holder, "already_merged", pr[cur].head, base)
  BY <1>1, <1>2, <1>5, <1>6, <1>7, <1>11
<1>12. CASE LookHalts(escalated, holder, "closed_unmerged", pr[cur].head, base)
  BY <1>1, <1>2, <1>5, <1>6, <1>7, <1>12
<1>13. CASE /\ pr[cur].gate \in GateReasons
            /\ LookHalts(entry[cur], holder, pr[cur].gate, pr[cur].head, base)
  BY <1>1, <1>2, <1>5, <1>7, <1>13
<1>14. CASE LookHalts(entry[cur], holder, "behind_waiting_turn",
                      pr[cur].head, base)
  BY <1>1, <1>2, <1>5, <1>7, <1>14
<1>15. CASE LookHalts(escalated, cur, "behind_update_cap", pr[cur].head, base)
  BY <1>1, <1>2, <1>5, <1>6, <1>7, <1>15
<1> QED
  BY <1>8, <1>9, <1>10, <1>11, <1>12, <1>13, <1>14, <1>15

(* So does the second half of its step.                                    *)
LEMMA ActHands ==
  ASSUME TypeOK, HandedInv, crashes = 0, Act, ~Merge
  PROVE  /\ cur \in Agents
         /\ \A b \in Agents \ {cur} : /\ entry'[b] = entry[b]
                                      /\ hist'.handed[b] = hist.handed[b]
         /\ IsFiniteSet(hist'.handed[cur])
         /\ Cardinality(hist'.handed[cur]) <= entry'[cur].recovery.charged
         /\ entry[cur].recovery.charged <= entry'[cur].recovery.charged
         /\ HandedBehind(entry'[cur].recovery, hist'.handed[cur],
                         snap.head, snap.base)
         /\ entry'[cur].recovery.charged > entry[cur].recovery.charged
              => \A f \in hist.handed[cur] :
                   <<entry'[cur].recovery.head, entry'[cur].recovery.base>> # f
         /\ pc' = "look"
         /\ snap.head <= pr[cur].head
         /\ snap.base <= base
<1>1. PICK e \in EntryType, reason \in Reasons, past \in HistType :
        /\ e.recovery = entry[cur].recovery
        /\ past.handed = hist.handed
        /\ HaltWith(e, holder, reason, snap.head, snap.base, past)
  BY ActCases
<1>2. /\ cur \in Agents
      /\ snap.head \in 0..MaxCommits
      /\ snap.head \in Nat
      /\ snap.base \in Nat
      /\ holder \in {NoAgent} \cup Agents
  BY ActCases, PassAssumption DEF TypeOK, SnapType
<1>3. pc \in {"update", "merge"}
  BY DEF Act, UpdateBranch, UpdateUnheard, UpdateFails, RequestStale, MergeUnheard,
         MergeFails, GitHubUpdates, GitHubMerges, At
<1>4. HandedRight(cur)
  BY <1>2 DEF HandedInv
<1>5. /\ IsFiniteSet(hist.handed[cur])
      /\ Cardinality(hist.handed[cur]) <= entry[cur].recovery.charged
      /\ snap.head <= pr[cur].head
      /\ snap.base <= base
      /\ HandedBehind(entry[cur].recovery, hist.handed[cur], snap.head, snap.base)
  BY <1>3, <1>4 DEF HandedRight
<1>6. pc' = "look"
  BY <1>1, HaltMovesOn
<1> QED
  BY <1>1, <1>2, <1>5, <1>6, HaltHands

(* The base branch only grows.                                             *)
LEMMA BaseGrows ==
  ASSUME TypeOK, [Next]_vars
  PROVE  base' >= base
<1>1. base \in Nat
  BY DEF TypeOK
<1>2. base' = base \/ base' = base + 1
  BY DEF Next, PassStep, Act, OperatorStep, OutsideStep, vars, githubVars,
      BeginPass, Skip, WaitBehindBarrier, Look, LookFails, LookConcluded,
      LookHeld, LookWaitsTurn, LookCapped, LookUpdates, LookSettling, LookReady,
      Readable, Open, Clear, Heads, Ready, Looking, UpdateBranch, UpdateUnheard,
      UpdateFails, RequestStale, Merge, MergeUnheard, MergeFails, EndPass, Crash,
      RuntimeApproval, DiscordApproval, OperatorOverride, BranchUpdated,
      DrainRequest, BaseMoves, WorkerPushes, GateChanges, PersonCloses,
      GitHubUpdates, GitHubMerges
<1> QED
  BY <1>1, <1>2

(* The entries a step does not charge keep their handbacks right: they are *)
(* the same, or an operator started them afresh.                           *)
Uncharged(a) ==
    \/ /\ SameFailure(entry[a], entry'[a])
       /\ hist'.handed[a] = hist.handed[a]
    \/ /\ entry'[a].recovery = NoRecovery
       /\ hist'.handed[a] = {}
       /\ pc' \notin {"update", "merge"}

LEMMA UnchargedRight ==
  ASSUME TypeOK, TypeOK', PrGrows, base' >= base, NEW a \in Agents,
         HandedRight(a), Uncharged(a),
         saved'.entry[a].recovery.charged <= entry'[a].recovery.charged,
         \/ UNCHANGED <<pc, cur, snap>>
         \/ pc' \notin {"update", "merge"}
         \/ cur' # a
  PROVE  /\ HandedRight(a)'
         /\ entry'[a].recovery.charged <= entry[a].recovery.charged
<1>1. /\ pr[a].head \in Nat /\ pr'[a].head \in Nat /\ pr[a].head <= pr'[a].head
      /\ base \in Nat /\ base' \in Nat
      /\ snap.head \in Nat /\ snap.base \in Nat
  <2>1. pr[a] \in PrType /\ pr'[a] \in PrType /\ snap \in SnapType
    BY DEF TypeOK
  <2>2. /\ pr[a].head \in Nat /\ pr'[a].head \in Nat
        /\ snap.head \in Nat /\ snap.base \in Nat
    BY <2>1, PassAssumption DEF PrType, SnapType
  <2>3. base \in Nat /\ base' \in Nat
    BY DEF TypeOK
  <2> QED
    BY <2>2, <2>3 DEF PrGrows
<1>2. /\ entry[a].recovery.charged \in Nat
      /\ hist.handed[a] \in SUBSET (Commits \X Nat)
  <2>1. entry[a] \in EntryType
    BY DEF TypeOK
  <2>2. entry[a].recovery.charged \in Nat
    BY <2>1, FieldTypes, ConfigAssumption
  <2>3. hist.handed \in [Agents -> SUBSET (Commits \X Nat)]
    BY DEF TypeOK, HistType
  <2> QED
    BY <2>2, <2>3
<1>3. /\ IsFiniteSet(hist.handed[a])
      /\ Cardinality(hist.handed[a]) <= entry[a].recovery.charged
      /\ HandedBehind(entry[a].recovery, hist.handed[a], pr[a].head, base)
      /\ pc \in {"update", "merge"} /\ cur = a =>
           /\ snap.head <= pr[a].head
           /\ snap.base <= base
           /\ HandedBehind(entry[a].recovery, hist.handed[a],
                           snap.head, snap.base)
  BY DEF HandedRight
<1>4. CASE /\ SameFailure(entry[a], entry'[a])
           /\ hist'.handed[a] = hist.handed[a]
  <2>1. /\ entry'[a].recovery.charged = entry[a].recovery.charged
        /\ \A head, onBase :
             HandedBehind(entry[a].recovery, hist.handed[a], head, onBase)
             => HandedBehind(entry'[a].recovery, hist'.handed[a], head, onBase)
    BY <1>4, Zenon DEF SameFailure, HandedBehind
  <2>2. HandedBehind(entry'[a].recovery, hist'.handed[a], pr'[a].head, base')
    <3>1. HandedBehind(entry[a].recovery, hist.handed[a], pr'[a].head, base')
      BY <1>1, <1>2, <1>3, BehindGrows
    <3> QED
      BY <2>1, <3>1
  <2>3. pc' \in {"update", "merge"} /\ cur' = a =>
           /\ snap'.head <= pr'[a].head
           /\ snap'.base <= base'
           /\ HandedBehind(entry'[a].recovery, hist'.handed[a],
                           snap'.head, snap'.base)
    BY <1>1, <1>3, <2>1
  <2> QED
    BY <1>2, <1>3, <1>4, <2>1, <2>2, <2>3 DEF HandedRight
<1>5. CASE /\ entry'[a].recovery = NoRecovery
           /\ hist'.handed[a] = {}
           /\ pc' \notin {"update", "merge"}
  <2>1. entry'[a].recovery.charged = 0
    BY <1>5 DEF NoRecovery
  <2>2. /\ IsFiniteSet(hist'.handed[a])
        /\ Cardinality(hist'.handed[a]) = 0
    BY <1>5, FS_EmptySet
  <2>3. HandedBehind(entry'[a].recovery, hist'.handed[a], pr'[a].head, base')
    BY <1>5 DEF HandedBehind
  <2> QED
    BY <1>2, <1>5, <2>1, <2>2, <2>3 DEF HandedRight
<1> QED
  BY <1>4, <1>5 DEF Uncharged

(* Of an operator's requests only a revival touches what was charged.      *)
LEMMA RequestRecovery ==
  ASSUME NEW e \in EntryType, NEW head \in Nat
  PROVE  /\ RecordApproval(e, head).recovery = e.recovery
         /\ [e EXCEPT !.override = head].recovery = e.recovery
         /\ ResetBranchUpdates(e).recovery = e.recovery
         /\ EnsureLandable(e).recovery =
              IF e.phase = "escalated" THEN NoRecovery ELSE e.recovery
<1>1. RecordApproval(e, head).recovery = e.recovery
  <2> DEFINE g == [e EXCEPT !.approval = head]
  <2>1. g \in EntryType /\ g.recovery = e.recovery
    BY DEF EntryType
  <2>2. RecordApproval(e, head) = IF e.approval = head THEN e ELSE GrantReconsideration(g)
    BY DEF RecordApproval
  <2> HIDE DEF g
  <2>3. GrantReconsideration(g).recovery = g.recovery
    BY <2>1 DEF GrantReconsideration, EntryType
  <2> QED
    BY <2>1, <2>2, <2>3
<1>2. ResetBranchUpdates(e).recovery = e.recovery
  BY DEF ResetBranchUpdates, EntryType
<1>3. EnsureLandable(e).recovery =
        IF e.phase = "escalated" THEN NoRecovery ELSE e.recovery
  BY DEF EnsureLandable, Revive, EntryType
<1>4. [e EXCEPT !.override = head].recovery = e.recovery
  BY DEF EntryType
<1> QED
  BY <1>1, <1>2, <1>3, <1>4

(* What an operator asks for charges nothing, and a revival is on disk     *)
(* before the request is gone.                                             *)
LEMMA OperatorUncharged ==
  ASSUME TypeOK, TypeOK', OperatorStep, NEW a \in Agents, HandedRight(a)
  PROVE  /\ Uncharged(a)
         /\ saved'.entry[a].recovery.charged <= entry'[a].recovery.charged
         /\ UNCHANGED <<pc, cur, snap>>
<1>1. PICK b \in Agents :
        \/ \E head \in Commits : RuntimeApproval(b, head)
        \/ DiscordApproval(b)
        \/ OperatorOverride(b)
        \/ BranchUpdated(b)
  BY DEF OperatorStep
<1>2. UNCHANGED <<pc, cur, snap>> /\ pc' \notin {"update", "merge"}
  BY <1>1 DEF RuntimeApproval, DiscordApproval, OperatorOverride,
              BranchUpdated, DrainRequest, passVars
<1>3. /\ entry \in [Agents -> EntryType]
      /\ entry[b] \in EntryType
      /\ hist \in HistType
      /\ hist.handed \in [Agents -> SUBSET (Commits \X Nat)]
      /\ pr[b].head \in Nat
      /\ saved.entry[a].recovery.charged <= entry[a].recovery.charged
      /\ entry'[a].recovery.charged \in Nat
  <2>1. entry'[a] \in EntryType /\ pr[b] \in PrType
    BY DEF TypeOK
  <2>2. entry'[a].recovery.charged \in Nat
    BY <2>1, FieldTypes, ConfigAssumption
  <2>3. entry \in [Agents -> EntryType] /\ hist \in HistType
    BY DEF TypeOK
  <2>4. hist.handed \in [Agents -> SUBSET (Commits \X Nat)]
    BY <2>3 DEF HistType
  <2>5. pr[b].head \in Nat
    BY <2>1, PassAssumption DEF PrType
  <2> QED
    BY <2>2, <2>3, <2>4, <2>5 DEF HandedRight
<1>4. ~DiscordApproval(b) => saved'.entry = entry'
  BY <1>1 DEF RuntimeApproval, OperatorOverride, BranchUpdated, Checkpoint,
              TypeOK, SavedType
<1>5. ASSUME entry'[b].recovery = entry[b].recovery,
             a # b => entry'[a] = entry[a],
             hist'.handed = hist.handed
      PROVE  /\ Uncharged(a)
             /\ entry'[a].recovery.charged = entry[a].recovery.charged
  BY <1>5 DEF Uncharged, SameFailure
<1>6. CASE DiscordApproval(b)
  <2>1. /\ entry' = [entry EXCEPT ![b] = RecordApproval(@, pr[b].head)]
        /\ hist' = [hist EXCEPT !.asked[b] = @ \cup {pr[b].head}]
        /\ saved' = saved
    BY <1>6 DEF DiscordApproval
  <2>2. /\ entry'[b].recovery = entry[b].recovery
        /\ a # b => entry'[a] = entry[a]
        /\ hist'.handed = hist.handed
    BY <1>3, <2>1, RequestRecovery DEF HistType
  <2> QED
    BY <1>2, <1>3, <1>5, <2>1, <2>2
<1>7. CASE BranchUpdated(b)
  <2>1. /\ entry' = [entry EXCEPT ![b] = ResetBranchUpdates(@)]
        /\ hist' = hist
    BY <1>7 DEF BranchUpdated
  <2>2. /\ entry'[b].recovery = entry[b].recovery
        /\ a # b => entry'[a] = entry[a]
    BY <1>3, <2>1, RequestRecovery
  <2>3. saved'.entry = entry' \/ saved' = saved
    BY <1>4, <1>7 DEF DiscordApproval
  <2>4. /\ Uncharged(a)
        /\ entry'[a].recovery.charged = entry[a].recovery.charged
    BY <1>5, <2>1, <2>2
  <2> QED
    BY <1>2, <1>3, <2>3, <2>4
<1>8. ASSUME NEW f, entry' = [entry EXCEPT ![b] = f],
             f.recovery = IF Revives(b) THEN NoRecovery ELSE entry[b].recovery,
             hist'.handed = [hist.handed EXCEPT ![b] = IF Revives(b) THEN {} ELSE @],
             saved'.entry = entry'
      PROVE  /\ Uncharged(a)
             /\ saved'.entry[a].recovery.charged <= entry'[a].recovery.charged
  <2>0. saved'.entry[a].recovery.charged <= entry'[a].recovery.charged
    BY <1>3, <1>8
  <2>1. CASE a # b
    <3>1. entry'[a] = entry[a] /\ hist'.handed[a] = hist.handed[a]
      BY <1>3, <1>8, <2>1
    <3> QED
      BY <2>0, <3>1 DEF Uncharged, SameFailure
  <2>2. CASE a = b /\ Revives(b)
    BY <1>2, <1>3, <1>8, <2>0, <2>2 DEF Uncharged
  <2>3. CASE a = b /\ ~Revives(b)
    <3>1. /\ entry'[a].recovery = entry[a].recovery
          /\ hist'.handed[a] = hist.handed[a]
      BY <1>3, <1>8, <2>3
    <3> QED
      BY <2>0, <3>1 DEF Uncharged, SameFailure
  <2> QED
    BY <2>1, <2>2, <2>3
<1> DEFINE revived == EnsureLandable(entry[b])
<1>9. /\ revived \in EntryType
      /\ revived.recovery = IF Revives(b) THEN NoRecovery ELSE entry[b].recovery
  BY <1>3, EnsureLandableKeeps, RequestRecovery DEF Keeps, Revives
<1>10. CASE \E head \in Commits : RuntimeApproval(b, head)
  <2>1. PICK head \in Commits : RuntimeApproval(b, head)
    BY <1>10
  <2> DEFINE f == RecordApproval(revived, head)
  <2>2. entry' = [entry EXCEPT ![b] = f] /\ saved'.entry = entry'
    BY <2>1, <1>3 DEF RuntimeApproval, Checkpoint, TypeOK, SavedType
  <2>3. hist'.handed = [hist.handed EXCEPT ![b] = IF Revives(b) THEN {} ELSE @]
    BY <1>3, <2>1 DEF RuntimeApproval, HistType
  <2> HIDE DEF revived
  <2>4. f.recovery = revived.recovery
    BY <1>9, RequestRecovery
  <2> HIDE DEF f
  <2>5. f.recovery = IF Revives(b) THEN NoRecovery ELSE entry[b].recovery
    BY <1>9, <2>4
  <2> QED
    BY <1>2, <1>8, <2>2, <2>3, <2>5
<1>11. CASE OperatorOverride(b)
  <2> DEFINE f == IF pr[b].gate # "unreadable"
                  THEN [revived EXCEPT !.override = pr[b].head] ELSE revived
  <2>1. entry' = [entry EXCEPT ![b] = f] /\ saved'.entry = entry'
    BY <1>11, <1>3 DEF OperatorOverride, Checkpoint, TypeOK, SavedType
  <2>2. hist'.handed = [hist.handed EXCEPT ![b] = IF Revives(b) THEN {} ELSE @]
    BY <1>3, <1>11 DEF OperatorOverride, HistType
  <2> HIDE DEF revived
  <2>3. f.recovery = revived.recovery
    BY <1>3, <1>9, RequestRecovery
  <2> HIDE DEF f
  <2>4. f.recovery = IF Revives(b) THEN NoRecovery ELSE entry[b].recovery
    BY <1>9, <2>3
  <2> QED
    BY <1>2, <1>8, <2>1, <2>2, <2>4
<1> QED
  BY <1>1, <1>2, <1>6, <1>7, <1>10, <1>11

(* What a pass does before its looks, between them and at its end.         *)
LEMMA PassUncharged ==
  ASSUME TypeOK, NEW a \in Agents, HandedRight(a),
         BeginPass \/ Skip \/ WaitBehindBarrier \/ EndPass \/ Merge
  PROVE  /\ Uncharged(a)
         /\ saved'.entry[a].recovery.charged <= entry'[a].recovery.charged
         /\ pc' \notin {"update", "merge"}
<1>1. /\ entry \in [Agents -> EntryType]
      /\ entry[a] \in EntryType
      /\ hist \in HistType
      /\ saved.entry[a].recovery.charged <= entry[a].recovery.charged
      /\ entry[a].recovery.charged \in Nat
  <2>1. entry[a] \in EntryType
    BY DEF TypeOK
  <2>2. entry[a].recovery.charged \in Nat
    BY <2>1, FieldTypes, ConfigAssumption
  <2> QED
    BY <2>1, <2>2 DEF TypeOK, HandedRight
<1>2. ASSUME SameFailure(entry[a], entry'[a]), hist'.handed = hist.handed,
             saved' = saved
      PROVE  /\ Uncharged(a)
             /\ saved'.entry[a].recovery.charged <= entry'[a].recovery.charged
  BY <1>1, <1>2 DEF Uncharged, SameFailure
<1>3. CASE BeginPass
  <2>1. /\ \E seen \in SUBSET Agents : entry' = Reconciled(seen)
        /\ hist'.handed = hist.handed
        /\ saved' = saved
        /\ pc' = "look"
    BY <1>1, <1>3 DEF BeginPass, HistType
  <2>2. entry'[a] = entry[a] \/ entry'[a] = [entry[a] EXCEPT !.phase = "merged"]
    BY <2>1 DEF Reconciled
  <2>3. SameFailure(entry[a], entry'[a])
    BY <1>1, <2>2 DEF SameFailure, EntryType
  <2> QED
    BY <1>2, <2>1, <2>3
<1>4. CASE Skip \/ WaitBehindBarrier
  <2>1. /\ entry' = [entry EXCEPT ![cur] = entry[cur]]
        /\ hist' = hist
        /\ saved' = saved
        /\ pc' = "look"
    BY <1>4 DEF Skip, WaitBehindBarrier, Proceed
  <2>2. SameFailure(entry[a], entry'[a])
    BY <1>1, <2>1 DEF SameFailure
  <2> QED
    BY <1>2, <2>1, <2>2
<1>5. CASE EndPass
  <2>1. entry' = entry /\ hist' = hist /\ saved'.entry = entry /\ pc' = "idle"
    BY <1>5 DEF EndPass, ledgerVars
  <2> QED
    BY <1>1, <2>1 DEF Uncharged, SameFailure
<1>6. CASE Merge
  <2>1. PICK fetched \in Fetches :
          /\ entry' = [entry EXCEPT ![cur] = Landed(Confirming(fetched).entry)]
          /\ pc' = "look"
          /\ saved' = saved
          /\ cur \in Agents
    BY <1>6 DEF Merge, Proceed, GitHubMerges, At
  <2>2. hist'.handed = hist.handed
    BY <1>1, <1>6 DEF Merge, Landing, HistType
  <2> DEFINE e == Confirming(fetched).entry
             f == [e EXCEPT !.phase = "merged", !.hold = NoHold,
                            !.recheck = NoRecheck]
  <2>3. entry[cur] \in EntryType /\ snap.head \in Nat
    BY <2>1, PassAssumption DEF TypeOK, SnapType
  <2>4. e \in EntryType /\ e.recovery = entry[cur].recovery
    BY <2>3 DEF Confirming, Confirm, OverrideSpent, EntryType
  <2> HIDE DEF e
  <2>5. f \in EntryType /\ f.recovery = e.recovery
    BY <2>4, NoneType DEF EntryType, Phases
  <2>6. Landed(e) = DiscardPending(f)
    BY DEF Landed
  <2> HIDE DEF f
  <2>7. SameFailure(entry[cur], Landed(e))
    BY <2>4, <2>5, <2>6, DiscardSameFailure DEF SameFailure
  <2>8. entry' = [entry EXCEPT ![cur] = Landed(e)]
    BY <2>1 DEF e
  <2>9. SameFailure(entry[a], entry'[a])
    BY <1>1, <2>7, <2>8 DEF SameFailure
  <2> QED
    BY <1>2, <2>1, <2>2, <2>9
<1> QED
  BY <1>3, <1>4, <1>5, <1>6

(* A look or an act that charges, charges for a failure that was not       *)
(* handed back yet.                                                        *)
LEMMA EntryRight ==
  ASSUME TypeOK, TypeOK', PrGrows, base' >= base, HandedInv, crashes = 0,
         Look \/ (Act /\ ~Merge), NEW a \in Agents
  PROVE  /\ HandedRight(a)'
         /\ entry'[a].recovery.charged > entry[a].recovery.charged
              => \A f \in hist.handed[a] :
                   <<entry'[a].recovery.head, entry'[a].recovery.base>> # f
<1>1. HandedRight(a)
  BY DEF HandedInv
<1>2. /\ entry[a].recovery.charged \in Nat
      /\ entry'[a].recovery.charged \in Nat
      /\ saved.entry[a].recovery.charged \in Nat
      /\ pr[a].head \in Nat /\ pr'[a].head \in Nat
      /\ base \in Nat /\ base' \in Nat
      /\ snap.head \in Nat /\ snap.base \in Nat
      /\ hist'.handed[a] \in SUBSET (Commits \X Nat)
      /\ pr[a].head <= pr'[a].head
  <2>1. /\ entry[a] \in EntryType /\ entry'[a] \in EntryType
        /\ saved.entry[a] \in EntryType
    BY DEF TypeOK, SavedType
  <2>2. /\ entry[a].recovery.charged \in Nat
        /\ entry'[a].recovery.charged \in Nat
        /\ saved.entry[a].recovery.charged \in Nat
    BY <2>1, FieldTypes, ConfigAssumption
  <2>3. pr[a] \in PrType /\ pr'[a] \in PrType /\ snap \in SnapType
    BY DEF TypeOK
  <2>4. hist'.handed \in [Agents -> SUBSET (Commits \X Nat)]
    BY DEF TypeOK, HistType
  <2>5. /\ pr[a].head \in Nat /\ pr'[a].head \in Nat
        /\ snap.head \in Nat /\ snap.base \in Nat
    BY <2>3, PassAssumption DEF PrType, SnapType
  <2>6. base \in Nat /\ base' \in Nat
    BY DEF TypeOK
  <2> QED
    BY <2>2, <2>4, <2>5, <2>6 DEF PrGrows
<1>3. saved' = saved
  BY LookCases DEF Looking, Act, UpdateBranch, UpdateUnheard, UpdateFails,
     RequestStale, MergeUnheard, MergeFails, GitHubUpdates, GitHubMerges
<1>4. CASE Look
  <2>1. pr' = pr /\ base' = base
    BY <1>4, LookCases DEF Looking, githubVars
  <2>2. CASE a # cur
    <3>1. entry'[a] = entry[a] /\ hist'.handed[a] = hist.handed[a]
      BY <1>4, <2>2, LookHands
    <3>2. Uncharged(a)
      BY <3>1 DEF Uncharged, SameFailure
    <3>3. saved'.entry[a].recovery.charged <= entry'[a].recovery.charged
      BY <1>1, <1>3, <3>1 DEF HandedRight
    <3>4. pc' \notin {"update", "merge"} \/ cur' # a
      BY <1>4, <2>2, LookHands
    <3> QED
      BY <1>1, <1>2, <3>1, <3>2, <3>3, <3>4, UnchargedRight
  <2>3. CASE a = cur
    <3>1. /\ IsFiniteSet(hist'.handed[a])
          /\ Cardinality(hist'.handed[a]) <= entry'[a].recovery.charged
          /\ entry[a].recovery.charged <= entry'[a].recovery.charged
          /\ HandedBehind(entry'[a].recovery, hist'.handed[a], pr[a].head, base)
          /\ entry'[a].recovery.charged > entry[a].recovery.charged
               => \A f \in hist.handed[a] :
                    <<entry'[a].recovery.head, entry'[a].recovery.base>> # f
          /\ pc' \in {"update", "merge"} => snap' = [head |-> pr[a].head,
                                                     base |-> base]
      BY <1>4, <2>3, LookHands DEF Snap
    <3>2. saved'.entry[a].recovery.charged <= entry'[a].recovery.charged
      BY <1>1, <1>2, <1>3, <3>1 DEF HandedRight
    <3>3. pc' \in {"update", "merge"} =>
            /\ snap'.head <= pr'[a].head
            /\ snap'.base <= base'
            /\ HandedBehind(entry'[a].recovery, hist'.handed[a],
                            snap'.head, snap'.base)
      BY <1>2, <2>1, <3>1
    <3> QED
      BY <2>1, <3>1, <3>2, <3>3 DEF HandedRight
  <2> QED
    BY <2>2, <2>3
<1>5. CASE Act /\ ~Merge
  <2>1. CASE a # cur
    <3>1. /\ entry'[a] = entry[a]
          /\ hist'.handed[a] = hist.handed[a]
          /\ pc' = "look"
      BY <1>5, <2>1, ActHands
    <3>2. Uncharged(a)
      BY <3>1 DEF Uncharged, SameFailure
    <3>3. saved'.entry[a].recovery.charged <= entry'[a].recovery.charged
      BY <1>1, <1>3, <3>1 DEF HandedRight
    <3> QED
      BY <1>1, <1>2, <3>1, <3>2, <3>3, UnchargedRight
  <2>2. CASE a = cur
    <3>1. /\ IsFiniteSet(hist'.handed[a])
          /\ Cardinality(hist'.handed[a]) <= entry'[a].recovery.charged
          /\ entry[a].recovery.charged <= entry'[a].recovery.charged
          /\ HandedBehind(entry'[a].recovery, hist'.handed[a],
                          snap.head, snap.base)
          /\ entry'[a].recovery.charged > entry[a].recovery.charged
               => \A f \in hist.handed[a] :
                    <<entry'[a].recovery.head, entry'[a].recovery.base>> # f
          /\ pc' = "look"
          /\ snap.head <= pr[a].head
          /\ snap.base <= base
      BY <1>5, <2>2, ActHands
    <3>2. saved'.entry[a].recovery.charged <= entry'[a].recovery.charged
      BY <1>1, <1>2, <1>3, <3>1 DEF HandedRight
    <3>3. HandedBehind(entry'[a].recovery, hist'.handed[a], pr'[a].head, base')
      <4>1. snap.head <= pr'[a].head /\ snap.base <= base'
        BY <1>2, <3>1
      <4> QED
        BY <1>2, <3>1, <4>1, BehindGrows
    <3> QED
      BY <3>1, <3>2, <3>3 DEF HandedRight
  <2> QED
    BY <2>1, <2>2
<1> QED
  BY <1>4, <1>5

(* Every step keeps the handbacks right and charges new failures only.     *)
LEMMA StepHanded ==
  ASSUME TypeOK, TypeOK', HandedInv, [Next]_vars
  PROVE  HandedInv' /\ ChargesNewFailures
<1>1. PrGrows /\ base' >= base
  BY StepPr, BaseGrows
<1>2. crashes \in Nat
  BY PassAssumption DEF TypeOK
<1>3. ASSUME crashes = 0, NEW a \in Agents, ~Crash
      PROVE  /\ HandedRight(a)'
             /\ entry'[a].recovery.charged > entry[a].recovery.charged
                  => \A f \in hist.handed[a] :
                       <<entry'[a].recovery.head, entry'[a].recovery.base>> # f
  <2>1. HandedRight(a)
    BY <1>3 DEF HandedInv
  <2>2. /\ entry[a].recovery.charged \in Nat
        /\ entry'[a].recovery.charged \in Nat
    <3>1. entry[a] \in EntryType /\ entry'[a] \in EntryType
      BY DEF TypeOK
    <3> QED
      BY <3>1, FieldTypes, ConfigAssumption
  <2>3. ASSUME Uncharged(a),
               saved'.entry[a].recovery.charged <= entry'[a].recovery.charged,
               \/ UNCHANGED <<pc, cur, snap>>
               \/ pc' \notin {"update", "merge"}
        PROVE  /\ HandedRight(a)'
               /\ entry'[a].recovery.charged <= entry[a].recovery.charged
    BY <1>1, <2>1, <2>3, UnchargedRight
  <2>4. CASE OutsideStep \/ UNCHANGED vars
    <3>1. UNCHANGED <<entry, saved, pc, cur, snap, hist>>
      BY <2>4 DEF OutsideStep, WorkerPushes, GateChanges, PersonCloses,
                  BaseMoves, OutsideRobco, vars, ledgerVars, passVars
    <3>2. /\ Uncharged(a)
          /\ saved'.entry[a].recovery.charged <= entry'[a].recovery.charged
      BY <2>1, <3>1 DEF Uncharged, SameFailure, HandedRight
    <3> QED
      BY <2>2, <2>3, <3>1, <3>2
  <2>5. CASE OperatorStep
    BY <2>1, <2>2, <2>3, <2>5, OperatorUncharged
  <2>6. CASE BeginPass \/ Skip \/ WaitBehindBarrier \/ EndPass \/ Merge
    BY <2>1, <2>2, <2>3, <2>6, PassUncharged
  <2>7. CASE Look \/ (Act /\ ~Merge)
    BY <1>1, <1>3, <2>7, EntryRight
  <2> QED
    BY <1>3, <2>4, <2>5, <2>6, <2>7 DEF Next, PassStep
<1>4. CASE Crash
  <2>1. crashes' = crashes + 1 /\ entry' = saved.entry
    BY <1>4 DEF Crash
  <2>2. HandedInv'
    BY <1>2, <2>1 DEF HandedInv
  <2>3. ASSUME NEW a \in Agents, crashes = 0
        PROVE  ~(entry'[a].recovery.charged > entry[a].recovery.charged)
    <3>1. entry'[a].recovery.charged <= entry[a].recovery.charged
      BY <2>1, <2>3 DEF HandedInv, HandedRight
    <3>2. entry[a] \in EntryType /\ entry'[a] \in EntryType
      BY DEF TypeOK
    <3> QED
      BY <3>1, <3>2, FieldTypes, ConfigAssumption
  <2> QED
    BY <2>2, <2>3 DEF ChargesNewFailures
<1>5. CASE ~Crash
  <2>1. crashes' = crashes
    BY <1>5 DEF Next, PassStep, Act, OperatorStep, OutsideStep, vars, boundVars,
       BeginPass, Skip, WaitBehindBarrier, Look, LookFails, LookConcluded,
       LookHeld, LookWaitsTurn, LookCapped, LookUpdates, LookSettling,
       LookReady, Readable, Open, Clear, Heads, Ready, Looking, UpdateBranch,
       UpdateUnheard, UpdateFails, RequestStale, Merge, MergeUnheard,
       MergeFails, EndPass, RuntimeApproval, DiscordApproval,
       OperatorOverride, BranchUpdated, DrainRequest, BaseMoves, WorkerPushes,
       GateChanges, PersonCloses, OutsideRobco, GitHubUpdates, GitHubMerges
  <2>2. HandedInv'
    BY <1>3, <1>5, <2>1 DEF HandedInv
  <2>3. ChargesNewFailures
    BY <1>3, <1>5 DEF ChargesNewFailures
  <2> QED
    BY <2>2, <2>3
<1> QED
  BY <1>4, <1>5

(* A worker is bothered no more than the budget allows, and with one       *)
(* failure only once, over refunds, revivals, merges and branch updates    *)
(* (merge_recovery_plan::plan, merge_recovery::refund).                    *)
THEOREM HandbacksWithinBudget == Spec => HandbacksKept
<1>1. Init => HandedInv
  <2> SUFFICES ASSUME Init, NEW a \in Agents PROVE HandedRight(a)
    BY DEF HandedInv
  <2>1. /\ hist.handed[a] = {}
        /\ entry[a] = NewEntry
        /\ saved.entry[a] = NewEntry
        /\ pc = "idle"
    BY DEF Init
  <2>2. NewEntry.recovery.charged = 0
    BY DEF NewEntry, NoRecovery
  <2>3. /\ IsFiniteSet(hist.handed[a])
        /\ Cardinality(hist.handed[a]) = 0
    BY <2>1, FS_EmptySet
  <2> QED
    BY <2>1, <2>2, <2>3 DEF HandedRight, HandedBehind
<1>2. TypeOK /\ HandedInv => HandbacksBounded
  <2> SUFFICES ASSUME TypeOK, HandedInv, crashes = 0, NEW a \in Agents
               PROVE  Cardinality(hist.handed[a]) <= MaxRecoveries
    BY DEF HandbacksBounded
  <2>1. /\ IsFiniteSet(hist.handed[a])
        /\ Cardinality(hist.handed[a]) <= entry[a].recovery.charged
    BY DEF HandedInv, HandedRight
  <2>2. entry[a] \in EntryType
    BY DEF TypeOK
  <2>3. Cardinality(hist.handed[a]) \in Nat
    BY <2>1, FS_CardinalityType
  <2> QED
    BY <2>1, <2>2, <2>3, FieldTypes, ConfigAssumption
<1>3. TypeOK /\ TypeOK' /\ HandedInv /\ [Next]_vars
        => HandedInv' /\ ChargesNewFailures
  BY StepHanded
<1> QED
  BY <1>1, <1>2, <1>3, TypeCorrect, PTL DEF Spec, HandbacksKept

(* Merges take turns: a pass updates one branch at most, and robco merges  *)
(* where its checkout has caught up with its previous merge                *)
(* (overseer/daemon/merge_queue.rs, merge_settle.rs).                      *)
THEOREM MergesTakeTurns == Spec => MergesInTurn
BY OneUpdate, MergesSerialised, PTL DEF MergesInTurn

(* What robco merged was requested as it is or as it grew from what was    *)
(* requested, and a worktree goes only with a merge                        *)
(* (overseer/daemon/merge_gate.rs, merge_apply.rs).                        *)
THEOREM MergesWereAsked == Spec => []MergesAsked
<1>1. MergedOnRequest /\ WorktreesKeptUntilMerged => MergesAsked
  BY DEF MergesAsked
<1> QED
  BY <1>1, MergesOnRequest, WorktreesKept, PTL

=============================================================================
