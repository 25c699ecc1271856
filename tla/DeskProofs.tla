----------------------------- MODULE DeskProofs -------------------------------
(***************************************************************************)
(* Proofs about what an operator sees exceptions through (Desk): reconcile *)
(* and triage (Monitor, Triage), where what failed has a case in the saved *)
(* queue, what triage parks stays parked, one session runs at a time and a *)
(* case is concluded once; the advice beside a row (Remedy); and the rows  *)
(* of the tree, of which an agent has one, with the dialogs opened on them *)
(* (Registry).  Those of the inbox are in TellingProofs.tla.               *)
(***************************************************************************)
EXTENDS Triage, Remedy, Registry, FunctionTheorems, FiniteSetTheorems, SequenceTheorems,
        WellFoundedInduction, TLAPS

-----------------------------------------------------------------------------
(* Numbers and recursion                                                   *)

(* Every set of numbers that is not empty has a least.                     *)
LEMMA LeastOf ==
    ASSUME NEW S, S \subseteq Nat, S # {}
    PROVE  \E x \in S : \A y \in S : x <= y
<1> DEFINE R == OpToRel(<, Nat)
<1>1. PICK x \in S : \A y \in S : ~(<<y, x>> \in R)
  BY NatLessThanWellFounded, WFMin
<1>2. \A y \in S : x <= y
  <2> TAKE y \in S
  <2>1. y \in Nat /\ x \in Nat
    OBVIOUS
  <2>2. ASSUME y < x
        PROVE  <<y, x>> \in R
    <3> DEFINE pair == <<y, x>>
    <3>1. pair \in Nat \X Nat /\ pair[1] = y /\ pair[2] = x
      BY <2>1
    <3> HIDE DEF pair
    <3>2. pair \in R
      BY <2>2, <3>1 DEF OpToRel
    <3> QED
      BY <3>2 DEF pair
  <2> HIDE DEF R
  <2> QED
    BY <1>1, <2>1, <2>2
<1> QED
  BY <1>2

(* What holds at the start of a sequence of states, and is kept from each  *)
(* to the next, holds of all of them.                                      *)
LEMMA StaysIn ==
    ASSUME NEW L \in Nat, NEW S, NEW f, f[0] \in S,
           \A n \in 1..L : f[n - 1] \in S => f[n] \in S
    PROVE  \A n \in 0..L : f[n] \in S
<1> DEFINE bad == {n \in 0..L : f[n] \notin S}
<1>1. SUFFICES ASSUME bad # {} PROVE FALSE
  OBVIOUS
<1>2. PICK n \in bad : \A m \in bad : n <= m
  <2>1. bad \subseteq Nat
    OBVIOUS
  <2> HIDE DEF bad
  <2> QED
    BY <1>1, <2>1, LeastOf
<1>3. n \in 1..L
  OBVIOUS
<1>4. n - 1 \in 0..L /\ n - 1 \notin bad
  BY <1>2, <1>3
<1> QED
  BY <1>3, <1>4

(* What each of the first L steps makes of a state in S, and a sequence of *)
(* states they lead through from x.                                        *)
StepsOn(S, L) == [1..L -> [S -> S]]

LeadsFrom(x, f, step, S, L) ==
    /\ f \in [0..L -> S]
    /\ f[0] = x
    /\ \A n \in 1..L : f[n] = step[n][f[n - 1]]

(* There is one: a recursion over the first numbers has a solution.        *)
LEMMA Recurs ==
    ASSUME NEW L \in Nat, NEW S, NEW x \in S, NEW Step \in StepsOn(S, L)
    PROVE  \E f : LeadsFrom(x, f, Step, S, L)
<1>0. Step \in [1..L -> [S -> S]]
  BY DEF StepsOn
<1> DEFINE Sol(n) == {f \in [0..n -> S] : f[0] = x /\ \A m \in 1..n : f[m] = Step[m][f[m - 1]]}
           bad == {n \in 0..L : Sol(n) = {}}
<1>1. ASSUME bad # {} PROVE FALSE
  <2>1. PICK n \in bad : \A m \in bad : n <= m
    <3>1. bad \subseteq Nat
      OBVIOUS
    <3> HIDE DEF bad
    <3> QED
      BY <1>1, <3>1, LeastOf
  <2>2. n \in 0..L /\ Sol(n) = {}
    OBVIOUS
  <2>3. n # 0
    <3> DEFINE f == [m \in 0..0 |-> x]
    <3>1. f \in Sol(0)
      OBVIOUS
    <3> HIDE DEF f, Sol
    <3> QED
      BY <2>2, <3>1
  <2>4. n - 1 \in 0..L /\ Sol(n - 1) # {}
    <3>1. n - 1 \in 0..L /\ n - 1 \notin bad
      <4> HIDE DEF bad
      <4> QED
        BY <2>1, <2>2, <2>3
    <3> HIDE DEF Sol
    <3> QED
      BY <3>1
  <2>5. PICK g \in [0..(n - 1) -> S] :
          g[0] = x /\ \A m \in 1..(n - 1) : g[m] = Step[m][g[m - 1]]
    BY <2>4
  <2> DEFINE h == [m \in 0..n |-> IF m = n THEN Step[n][g[n - 1]] ELSE g[m]]
  <2>6. n \in 1..L /\ n - 1 \in 0..(n - 1)
    BY <2>2, <2>3
  <2>7. Step[n][g[n - 1]] \in S
    BY <1>0, <2>5, <2>6
  <2>8. h \in [0..n -> S] /\ h[0] = x /\ h[n] = Step[n][g[n - 1]]
        /\ \A m \in 0..(n - 1) : h[m] = g[m]
    BY <2>5, <2>6, <2>7
  <2>9. \A m \in 1..n : h[m] = Step[m][h[m - 1]]
    <3> HIDE DEF h
    <3> TAKE m \in 1..n
    <3>1. CASE m = n
      BY <2>6, <2>8, <3>1
    <3>2. CASE m # n
      <4>1. m \in 1..(n - 1) /\ m \in 0..(n - 1) /\ m - 1 \in 0..(n - 1)
        BY <2>6, <3>2
      <4> QED
        BY <2>5, <2>8, <4>1
    <3> QED
      BY <3>1, <3>2
  <2>10. h \in Sol(n)
    <3> HIDE DEF h
    <3> QED
      BY <2>8, <2>9
  <2> HIDE DEF Sol, h
  <2> QED
    BY <2>2, <2>10
<1>2. L \in 0..L
  OBVIOUS
<1>3. Sol(L) # {}
  <2> HIDE DEF Sol
  <2> QED
    BY <1>1, <1>2
<1> QED
  BY <1>3 DEF LeadsFrom

-----------------------------------------------------------------------------
(* One entry and one pass                                                  *)

(* What has happened from entry e to entry f for which a case was raised,  *)
(* and that what triage parked stays where it is.                          *)
Accounted(e, f, raised) ==
    /\ f.phase = "failed" => e.phase = "failed" \/ "failed" \in raised
    /\ f.phase = "escalated" /\ f.worker
         => (e.phase = "escalated" /\ e.worker) \/ "escalated" \in raised

StaysParked(e, f) ==
    e.phase = "escalated" /\ ~e.worker =>
        \/ f.phase = "escalated" /\ ~f.worker
        \/ f.phase \in {"merged", "absent"}

LEMMA EntryFields ==
    ASSUME NEW e \in Entry
    PROVE  /\ e.phase \in Phases /\ e.worker \in BOOLEAN /\ e.settled \in Clocks
           /\ e.pr \in BOOLEAN /\ e.wait \in BOOLEAN
           /\ e = [phase |-> e.phase, worker |-> e.worker, settled |-> e.settled,
                   pr |-> e.pr, wait |-> e.wait]
BY DEF Entry

LEMMA EntriesTyped ==
    /\ NewEntry \in Entry /\ Absent \in Entry
    /\ NewEntry.phase = "dispatched" /\ Absent.phase = "absent"
BY DEF NewEntry, Absent, Entry, Phases, Clocks

LEMMA SettledKeeps ==
    ASSUME NEW e \in Entry
    PROVE  /\ Settled(e) \in Entry
           /\ Settled(e).phase = e.phase /\ Settled(e).worker = e.worker
           /\ Settled(e).wait = e.wait /\ Settled(e).pr = e.pr
BY DEF Settled, Entry, Clocks

LEMMA EscalatedIs ==
    ASSUME NEW e \in Entry
    PROVE  /\ Escalated(e) \in Entry /\ Failed(e) \in Entry /\ Revived(e) \in Entry
           /\ Escalated(e).phase = "escalated" /\ Escalated(e).worker
           /\ Escalated(e).wait = e.wait
           /\ Failed(e).phase = "failed" /\ Failed(e).worker = e.worker
           /\ Revived(e).phase \in {"pr_opened", "dispatched"}
<1>1. Escalated(e) \in Entry /\ Escalated(e).phase = "escalated" /\ Escalated(e).worker
      /\ Escalated(e).wait = e.wait
  BY DEF Escalated, Entry, Phases
<1>2. Failed(e) \in Entry /\ Failed(e).phase = "failed" /\ Failed(e).worker = e.worker
  BY DEF Failed, Entry, Phases
<1>3. Revived(e) \in Entry /\ Revived(e).phase \in {"pr_opened", "dispatched"}
  <2> DEFINE next == IF e.pr THEN "pr_opened" ELSE "dispatched"
  <2>1. next \in {"pr_opened", "dispatched"}
    OBVIOUS
  <2>2. Revived(e) = [e EXCEPT !.phase = next, !.worker = FALSE, !.settled = "none", !.wait = FALSE]
    BY DEF Revived
  <2> HIDE DEF next
  <2> QED
    BY <2>1, <2>2 DEF Entry, Phases, Clocks
<1> QED
  BY <1>1, <1>2, <1>3

(* One report.                                                             *)
LEMMA ReportedRight ==
    ASSUME NEW e \in Entry, NEW report \in Reports
    PROVE  LET f == Reported(e, report)
           IN /\ f \in Entry
              /\ e.phase \notin {"merged", "absent"} => f.phase \notin {"merged", "absent"}
              /\ Accounted(e, f, IF Blocks(e, report) THEN {"escalated"} ELSE {})
              /\ e.phase = "escalated" /\ ~e.worker => f.phase = "escalated" /\ ~f.worker
<1> DEFINE f == Reported(e, report)
<1>1. CASE Blocks(e, report)
  <2>1. f = Escalated(e) /\ e.phase # "escalated"
    BY <1>1 DEF Reported, Blocks, Unblocks, Terminal
  <2> QED
    BY <1>1, <2>1, EscalatedIs DEF Accounted
<1>2. CASE ~Blocks(e, report) /\ Unblocks(e, report)
  <2>1. f = Revived(e) /\ ~(e.phase = "escalated" /\ ~e.worker)
    BY <1>2 DEF Reported, Unblocks
  <2> QED
    BY <2>1, EscalatedIs DEF Accounted
<1>3. CASE ~Blocks(e, report) /\ ~Unblocks(e, report)
  <2>1. \/ f = [e EXCEPT !.phase = "working"] /\ e.phase = "dispatched"
        \/ f = [e EXCEPT !.wait = TRUE]
        \/ f = e
    BY <1>3 DEF Reported
  <2>2. f \in Entry /\ f.worker = e.worker
        /\ (f.phase = e.phase \/ (f.phase = "working" /\ e.phase = "dispatched"))
    BY <2>1 DEF Entry, Phases
  <2> QED
    BY <2>2 DEF Accounted
<1> QED
  BY <1>1, <1>2, <1>3

(* What else a pass observes.                                              *)
LEMMA ObservedRight ==
    ASSUME NEW e \in Entry, NEW o \in Observations
    PROVE  LET f == Observed(e, o)
           IN /\ f \in Entry
              /\ Accounted(e, f, Raised(e, o))
              /\ StaysParked(e, f)
              /\ Raised(e, o) \subseteq CaseKinds
<1> DEFINE w == AfterWait(e, o)
           p == AfterPr(w, o)
           k == AfterTask(p, o)
           s == AfterSession(k, o)
           a == AfterActivity(s, o)
<1>0. CASE e.phase \in {"merged", "absent"}
  <2>1. Observed(e, o) = e
    BY <1>0 DEF Observed
  <2> QED
    BY <2>1 DEF Accounted, StaysParked, Raised
<1>1. CASE e.phase \notin {"merged", "absent"}
  <2>0. Observed(e, o) = Settled(a) /\ p = Probed(e, o)
    BY <1>1 DEF Observed, Probed
  <2>1. /\ w \in Entry
        /\ w = e \/ (w.phase = "escalated" /\ w.worker /\ "escalated" \in Raised(e, o)
                       /\ e.phase # "escalated")
    <3>1. CASE WaitExceeded(e, o)
      <4>1. w = Escalated(e) /\ "escalated" \in Raised(e, o) /\ e.phase # "escalated"
        BY <1>1, <3>1 DEF AfterWait, Raised, CaseKinds, WaitExceeded, Terminal
      <4> QED
        BY <4>1, EscalatedIs
    <3>2. CASE ~WaitExceeded(e, o)
      BY <3>2 DEF AfterWait
    <3> QED
      BY <3>1, <3>2
  <2> HIDE DEF w
  <2>2. /\ p \in Entry
        /\ p = w \/ p.phase = "merged" \/ (p.phase = "pr_opened" /\ ~Terminal(w))
    BY <2>1 DEF AfterPr, Entry, Phases
  <2>3. p.phase = "escalated" => p = w
    BY <2>2
  <2>4. /\ k \in Entry
        /\ k = p \/ (k.phase = "escalated" /\ k.worker /\ "escalated" \in Raised(e, o)
                       /\ p.phase = "working")
    <3>1. CASE Released(p, o)
      <4>1. k = Escalated(p) /\ "escalated" \in Raised(e, o) /\ p.phase = "working"
        BY <1>1, <2>0, <3>1 DEF AfterTask, Raised, CaseKinds, Released
      <4> QED
        BY <2>2, <4>1, EscalatedIs
    <3>2. CASE ~Released(p, o)
      BY <2>2, <3>2 DEF AfterTask
    <3> QED
      BY <3>1, <3>2
  <2>5. /\ s \in Entry
        /\ s = k \/ (s.phase = "failed" /\ "failed" \in Raised(e, o) /\ WorkerPhase(k))
    <3>1. CASE Lost(k, o)
      <4>1. "failed" \in Raised(e, o)
        BY <1>1, <2>0, <3>1 DEF Raised, CaseKinds
      <4>2. s = Failed(k) /\ WorkerPhase(k)
        BY <3>1 DEF AfterSession, Lost
      <4> QED
        BY <2>4, <4>1, <4>2, EscalatedIs
    <3>2. CASE ~Lost(k, o)
      BY <2>4, <3>2 DEF AfterSession
    <3> QED
      BY <3>1, <3>2
  <2> HIDE DEF p, k, s
  <2>6. /\ a \in Entry
        /\ a = s \/ (a.phase = "working" /\ s.phase = "escalated" /\ s.worker)
    BY <2>5 DEF AfterActivity, Lifted, Entry, Phases, Clocks
  <2> HIDE DEF a
  <2>7. /\ Settled(a) \in Entry
        /\ Settled(a).phase = a.phase /\ Settled(a).worker = a.worker
    BY <2>6, SettledKeeps
  <2>8. Accounted(e, a, Raised(e, o))
    BY <2>1, <2>2, <2>4, <2>5, <2>6 DEF Accounted, Terminal
  <2>9. StaysParked(e, a)
    BY <1>1, <2>1, <2>2, <2>4, <2>5, <2>6 DEF StaysParked, Terminal, WorkerPhase
  <2>10. Raised(e, o) \subseteq CaseKinds
    BY DEF Raised
  <2> QED
    BY <2>0, <2>7, <2>8, <2>9, <2>10 DEF Accounted, StaysParked
<1> QED
  BY <1>0, <1>1

LEMMA TellingObserves ==
    ASSUME NEW e \in Entry
    PROVE  Telling(e) \subseteq Observations
BY DEF Telling, Observations

(* What the merge pass may leave fails nothing, and escalates for itself.  *)
LEMMA GateRight ==
    ASSUME NEW e \in Entry, NEW f \in GateOutcomes(e)
    PROVE  f \in Entry /\ Accounted(e, f, {})
           /\ (e.phase = "escalated" /\ ~e.worker /\ f.phase = "escalated" => ~f.worker)
           /\ (e.phase = "absent" => f = e)
<1> DEFINE probed == IF e.pr THEN {[e EXCEPT !.wait = w] : w \in BOOLEAN} ELSE {e}
           clear == [e EXCEPT !.wait = FALSE, !.settled = "none"]
<1>1. CASE ~Gated(e)
  BY <1>1 DEF GateOutcomes, Accounted
<1>2. CASE Gated(e)
  <2>1. \A p \in probed : p \in Entry /\ p.phase = e.phase /\ p.worker = e.worker
    BY DEF Entry
  <2>2. clear \in Entry
    BY DEF Entry, Clocks
  <2>3. \/ \E p \in probed : f \in {p, [p EXCEPT !.phase = "escalated", !.worker = FALSE], Settled(p)}
        \/ f = [clear EXCEPT !.phase = "pr_opened"]
        \/ f = [clear EXCEPT !.phase = "merged"]
    BY <1>2 DEF GateOutcomes
  <2> HIDE DEF probed, clear
  <2>4. ASSUME NEW p \in probed,
               f \in {p, [p EXCEPT !.phase = "escalated", !.worker = FALSE], Settled(p)}
        PROVE  f \in Entry /\ ((f.phase = e.phase /\ f.worker = e.worker)
                               \/ (f.phase = "escalated" /\ ~f.worker))
    <3>1. CASE f = [p EXCEPT !.phase = "escalated", !.worker = FALSE]
      BY <2>1, <3>1 DEF Entry, Phases
    <3>2. CASE f = p \/ f = Settled(p)
      BY <2>1, <3>2, SettledKeeps
    <3> QED
      BY <2>4, <3>1, <3>2
  <2>5. ASSUME \/ f = [clear EXCEPT !.phase = "pr_opened"]
               \/ f = [clear EXCEPT !.phase = "merged"]
        PROVE  f \in Entry /\ f.phase \in {"pr_opened", "merged"}
    BY <2>2, <2>5 DEF Entry, Phases
  <2>6. e.phase # "absent"
    BY <1>2 DEF Gated
  <2> QED
    BY <2>3, <2>4, <2>5, <2>6 DEF Accounted
<1> QED
  BY <1>1, <1>2

(* What an operator's request leaves.                                      *)
LEMMA RequestRight ==
    ASSUME NEW e \in Entry, NEW f \in {Approved(e), BranchReset(e), Panicked(e)}
    PROVE  f \in Entry /\ Accounted(e, f, {})
           /\ (e.phase = "escalated" /\ ~e.worker /\ f.phase = "escalated" => ~f.worker)
<1>1. CASE f = Approved(e)
  BY <1>1, EscalatedIs DEF Approved, Accounted
<1>2. CASE f = BranchReset(e)
  <2>1. CASE e.phase = "escalated"
    <3> DEFINE mark == IF e.settled = "current" THEN "earlier" ELSE e.settled
    <3>1. mark \in Clocks
      BY DEF Entry, Clocks
    <3>2. f = [e EXCEPT !.phase = "pr_opened", !.worker = FALSE, !.settled = mark]
      BY <1>2, <2>1 DEF BranchReset
    <3> HIDE DEF mark
    <3> QED
      BY <3>1, <3>2 DEF Entry, Phases, Accounted
  <2>2. CASE e.phase # "escalated"
    BY <1>2, <2>2 DEF BranchReset, Accounted
  <2> QED
    BY <2>1, <2>2
<1>3. CASE f = Panicked(e)
  BY <1>3 DEF Panicked, Accounted, Entry, Phases
<1> QED
  BY <1>1, <1>2, <1>3

(* What a verdict to escalate leaves.                                      *)
LEMMA EscalationRight ==
    ASSUME NEW e \in Entry, e.phase # "absent"
    PROVE  LET f == TriageEscalated(e)
           IN f \in Entry /\ f.phase = "escalated" /\ ~f.worker
<1> DEFINE g == [e EXCEPT !.phase = "escalated", !.worker = FALSE]
<1>1. g \in Entry /\ g.phase = "escalated" /\ ~g.worker
  BY DEF Entry, Phases
<1>2. TriageEscalated(e) = Settled(g)
  BY DEF TriageEscalated
<1> HIDE DEF g
<1> QED
  BY <1>1, <1>2, SettledKeeps

-----------------------------------------------------------------------------
(* The reports of a pass                                                   *)

(* What the reports make of an entry e.                                    *)
Hearings(e) ==
    {h \in [entry : Entry, raised : SUBSET {"escalated"}] :
        /\ Accounted(e, h.entry, h.raised)
        /\ e.phase \notin {"merged", "absent"} => h.entry.phase \notin {"merged", "absent"}
        /\ e.phase = "escalated" /\ ~e.worker
             => h.entry.phase = "escalated" /\ ~h.entry.worker
        /\ e.phase \in {"merged", "absent"} => h.entry = e}

LEMMA HeardOne ==
    ASSUME NEW e \in Entry, e.phase \notin {"merged", "absent"},
           NEW h \in Hearings(e), NEW report \in Reports
    PROVE  [entry |-> Reported(h.entry, report),
            raised |-> IF Blocks(h.entry, report) THEN {"escalated"} ELSE h.raised]
             \in Hearings(e)
<1> DEFINE f == Reported(h.entry, report)
           blocks == IF Blocks(h.entry, report) THEN {"escalated"} ELSE {}
           raised == IF Blocks(h.entry, report) THEN {"escalated"} ELSE h.raised
<1>1. /\ h.entry \in Entry /\ h.raised \subseteq {"escalated"}
      /\ Accounted(e, h.entry, h.raised)
      /\ h.entry.phase \notin {"merged", "absent"}
      /\ e.phase = "escalated" /\ ~e.worker
           => h.entry.phase = "escalated" /\ ~h.entry.worker
  BY DEF Hearings
<1>2. /\ f \in Entry /\ f.phase \notin {"merged", "absent"}
      /\ Accounted(h.entry, f, blocks)
      /\ h.entry.phase = "escalated" /\ ~h.entry.worker => f.phase = "escalated" /\ ~f.worker
  BY <1>1, ReportedRight
<1>3. raised \subseteq {"escalated"} /\ (blocks # {} => raised = {"escalated"} /\ blocks = {"escalated"})
      /\ (blocks = {} => raised = h.raised)
  BY <1>1
<1> HIDE DEF f, blocks, raised
<1>4. Accounted(e, f, raised)
  <2>1. CASE blocks = {}
    BY <1>1, <1>2, <1>3, <2>1 DEF Accounted
  <2>2. CASE blocks # {}
    BY <1>1, <1>2, <1>3, <2>2 DEF Accounted
  <2> QED
    BY <2>1, <2>2
<1>5. [entry |-> f, raised |-> raised] \in Hearings(e)
  BY <1>1, <1>2, <1>3, <1>4 DEF Hearings
<1> QED
  BY <1>5 DEF f, raised

(* All of them, in the order they were made.                               *)
LEMMA HeardAll ==
    ASSUME NEW t \in Tasks, ledger.entry[t] \in Entry, inbox[t] \in Seq(Reports)
    PROVE  Heard(t) \in Hearings(ledger.entry[t])
<1> DEFINE e == ledger.entry[t]
           q == inbox[t]
           L == Len(inbox[t])
           start == [entry |-> e, raised |-> {}]
           next(h, report) == [entry |-> Reported(h.entry, report),
                               raised |-> IF Blocks(h.entry, report)
                                          THEN {"escalated"} ELSE h.raised]
           of(g) == [n \in 0..L |-> IF n = 0 THEN start ELSE next(g[n - 1], q[n])]
           after == CHOOSE g : g = of(g)
<1>1. start \in Hearings(e)
  BY DEF Hearings, Accounted
<1>2. L \in Nat /\ \A n \in 1..L : q[n] \in Reports
  OBVIOUS
<1>3. Heard(t) = IF e.phase \in {"merged", "absent"} THEN after[0] ELSE after[L]
  BY DEF Heard
<1>4. \E g : g = of(g)
  <2> DEFINE S == [entry : Entry, raised : SUBSET {"escalated"}]
             Step == [n \in 1..L |-> [h \in S |-> next(h, q[n])]]
  <2>1. \A n \in 1..L, h \in S : next(h, q[n]) \in S
    <3> TAKE n \in 1..L, h \in S
    <3>1. Reported(h.entry, q[n]) \in Entry
      BY <1>2, ReportedRight
    <3> QED
      BY <3>1
  <2>2. start \in S
    OBVIOUS
  <2> HIDE DEF next, q, L, start
  <2>3. Step \in [1..L -> [S -> S]]
    BY <2>1
  <2>4. PICK g \in [0..L -> S] : g[0] = start /\ \A n \in 1..L : g[n] = Step[n][g[n - 1]]
    <3> HIDE DEF S, Step
    <3>1. L \in Nat
      BY <1>2
    <3>2. Step \in StepsOn(S, L)
      BY <2>3 DEF StepsOn
    <3>3. \E f : LeadsFrom(start, f, Step, S, L)
      BY <3>1, <3>2, <2>2, Recurs
    <3> QED
      BY <3>3 DEF LeadsFrom
  <2>5. \A n \in 1..L : g[n] = next(g[n - 1], q[n])
    <3> HIDE DEF S
    <3> TAKE n \in 1..L
    <3>1. n - 1 \in 0..L /\ g[n - 1] \in S
      BY <1>2, <2>4
    <3> QED
      BY <2>4, <3>1
  <2>6. \A n \in 0..L : g[n] = IF n = 0 THEN start ELSE next(g[n - 1], q[n])
    BY <1>2, <2>4, <2>5
  <2>7. g = of(g)
    <3> HIDE DEF S
    <3> QED
      BY <2>4, <2>6
  <2> QED
    BY <2>7
<1>5. after = of(after)
  <2> HIDE DEF of
  <2> QED
    BY <1>4
<1> HIDE DEF after
<1>6. after[0] = start /\ \A n \in 1..L : after[n] = next(after[n - 1], q[n])
  <2> DEFINE g == after
  <2>1. g = [n \in 0..L |-> IF n = 0 THEN start ELSE next(g[n - 1], q[n])]
    BY <1>5
  <2> HIDE DEF g, next, q, L, start
  <2>2. g[0] = start /\ \A n \in 1..L : g[n] = next(g[n - 1], q[n])
    BY <1>2, <2>1
  <2> QED
    BY <2>2 DEF g
<1>7. CASE e.phase \in {"merged", "absent"}
  BY <1>1, <1>3, <1>6, <1>7
<1>8. CASE e.phase \notin {"merged", "absent"}
  <2>1. \A n \in 1..L : after[n - 1] \in Hearings(e) => after[n] \in Hearings(e)
    <3> TAKE n \in 1..L
    <3>1. ASSUME NEW h \in Hearings(e)
          PROVE  next(h, q[n]) \in Hearings(e)
      BY <1>2, <1>8, HeardOne
    <3> HIDE DEF next, q, e, L
    <3> QED
      BY <1>6, <3>1
  <2>2. \A n \in 0..L : after[n] \in Hearings(e)
    <3> HIDE DEF next, q, e, L
    <3> QED
      BY <1>1, <1>2, <1>6, <2>1, StaysIn
  <2> QED
    BY <1>2, <1>3, <1>8, <2>2
<1> QED
  BY <1>7, <1>8

-----------------------------------------------------------------------------
(* Sequences of cases                                                      *)

LEMMA CasePlaces ==
    /\ \A c \in Cases : Place(c) \in 1..(2 * N)
    /\ \A c, d \in Cases : Place(c) = Place(d) => c = d
<1> N \in Nat \ {0}
  BY TriageAssumption
<1>1. \A c \in Cases : c.task \in 1..N /\ c.kind \in {"failed", "escalated"}
                       /\ c = [task |-> c.task, kind |-> c.kind]
  BY DEF Cases, Tasks, CaseKinds
<1>2. \A c \in Cases : Place(c) = 2 * c.task - (IF c.kind = "escalated" THEN 1 ELSE 0)
  BY DEF Place
<1>3. \A c \in Cases : Place(c) \in 1..(2 * N)
  BY <1>1, <1>2
<1>4. ASSUME NEW c \in Cases, NEW d \in Cases, Place(c) = Place(d)
      PROVE  c = d
  <2>1. c.task = d.task /\ (c.kind = "escalated" <=> d.kind = "escalated")
    BY <1>1, <1>2, <1>4
  <2> QED
    BY <1>1, <2>1
<1> QED
  BY <1>3, <1>4

(* InPassOrder lists each of the cases.                                    *)
LEMMA PassOrderLists ==
    ASSUME NEW cases, cases \subseteq Cases
    PROVE  /\ InPassOrder(cases) \in Seq(cases)
           /\ \A c \in cases : \E k \in DOMAIN InPassOrder(cases) : InPassOrder(cases)[k] = c
<1> DEFINE sooner(c) == {d \in cases : Place(d) < Place(c)}
           rank == [c \in cases |-> Cardinality(sooner(c))]
           n == Cardinality(cases)
           q == InPassOrder(cases)
<1>1. /\ \A c \in cases : Place(c) \in 1..(2 * N) /\ Place(c) \in Nat
      /\ \A c, d \in cases : Place(c) = Place(d) => c = d
  BY CasePlaces, TriageAssumption
<1>f. IsFiniteSet(cases)
  <2> DEFINE f == [c \in cases |-> Place(c)]
             to == 1..(2 * N)
  <2>1. f \in Injection(cases, to)
    <3>1. f \in [cases -> to] /\ \A c, d \in cases : f[c] = f[d] => c = d
      BY <1>1
    <3> HIDE DEF f, to
    <3> QED
      BY <3>1, Fun_IsInj
  <2>2. IsFiniteSet(to)
    BY TriageAssumption, FS_Interval
  <2> HIDE DEF f, to
  <2> QED
    BY <2>1, <2>2, FS_Injection
<1>n. n \in Nat
  BY <1>f, FS_CardinalityType
<1>2. \A c \in cases : /\ IsFiniteSet(sooner(c)) /\ Cardinality(sooner(c)) \in Nat
                       /\ Cardinality(sooner(c)) < n
  <2> TAKE c \in cases
  <2> DEFINE o == sooner(c)
  <2>1. o \in SUBSET cases /\ c \notin o
    BY <1>1
  <2> HIDE DEF o
  <2>2. IsFiniteSet(o) /\ Cardinality(o) <= n /\ (n = Cardinality(o) => cases = o)
    BY <1>f, <2>1, FS_Subset
  <2>3. Cardinality(o) \in Nat
    BY <2>2, FS_CardinalityType
  <2>4. IsFiniteSet(o) /\ Cardinality(o) \in Nat /\ Cardinality(o) < n
    BY <2>1, <2>2, <2>3, <1>n
  <2> QED
    BY <2>4 DEF o
<1>3. \A c, d \in cases : Place(c) < Place(d) => rank[c] < rank[d]
  <2> SUFFICES ASSUME NEW c \in cases, NEW d \in cases, Place(c) < Place(d)
               PROVE  Cardinality(sooner(c)) < Cardinality(sooner(d))
    OBVIOUS
  <2> DEFINE o == sooner(c)
             p == sooner(d)
  <2>1. o \cup {c} \in SUBSET p /\ c \notin o
    BY <1>1
  <2>2. IsFiniteSet(o) /\ IsFiniteSet(p) /\ Cardinality(o) \in Nat /\ Cardinality(p) \in Nat
    BY <1>2
  <2> HIDE DEF o, p
  <2>3. Cardinality(o \cup {c}) = Cardinality(o) + 1
    BY <2>1, <2>2, FS_AddElement
  <2>4. Cardinality(o \cup {c}) <= Cardinality(p)
    BY <2>1, <2>2, FS_Subset
  <2>5. Cardinality(o) < Cardinality(p)
    BY <2>2, <2>3, <2>4
  <2> QED
    BY <2>5 DEF o, p
<1>5. \A c, d \in cases : rank[c] = rank[d] => c = d
  <2> TAKE c, d \in cases
  <2>1. rank[c] \in Nat /\ rank[d] \in Nat
    BY <1>2
  <2>2. c # d => Place(c) < Place(d) \/ Place(d) < Place(c)
    BY <1>1
  <2> HIDE DEF rank
  <2> QED
    BY <2>1, <2>2, <1>3
<1>6. rank \in [cases -> 0..(n - 1)]
  BY <1>2, <1>n
<1>7. rank \in Surjection(cases, 0..(n - 1))
  <2>1. rank \in Injection(cases, 0..(n - 1))
    <3> HIDE DEF rank, n
    <3> QED
      BY <1>5, <1>6, Fun_IsInj
  <2>2. IsFiniteSet(0..(n - 1)) /\ Cardinality(0..(n - 1)) = n
    BY <1>n, FS_Interval
  <2> HIDE DEF rank
  <2> QED
    BY <1>f, <2>1, <2>2, FS_Injection
<1>9. \A k \in 1..n : q[k] \in cases /\ Cardinality(sooner(q[k])) = k - 1
  <2> TAKE k \in 1..n
  <2>1. \E c \in cases : Cardinality(sooner(c)) = k - 1
    <3>1. k - 1 \in 0..(n - 1)
      BY <1>n
    <3>2. \E c \in cases : rank[c] = k - 1
      <4> HIDE DEF rank
      <4> QED
        BY <1>7, <3>1 DEF Surjection
    <3> QED
      BY <3>2
  <2>2. q[k] = CHOOSE c \in cases : Cardinality(sooner(c)) = k - 1
    BY DEF InPassOrder
  <2>3. q[k] \in cases /\ Cardinality(sooner(q[k])) = k - 1
    <3> HIDE DEF sooner, q
    <3> QED
      BY <2>1, <2>2, Zenon
  <2> QED
    BY <2>3
<1>8. \A k \in 1..n : rank[q[k]] = k - 1
  <2> HIDE DEF q
  <2> QED
    BY <1>9
<1>10. DOMAIN q = 1..n
  BY DEF InPassOrder
<1>11. q \in Seq(cases)
  <2> DEFINE pick(k) == CHOOSE c \in cases : Cardinality(sooner(c)) = k - 1
  <2>1. q = [k \in 1..n |-> pick(k)]
    BY DEF InPassOrder
  <2> HIDE DEF q, pick, rank
  <2>2. q \in [1..n -> cases]
    BY <2>1, <1>9
  <2> QED
    BY <2>2, <1>n
<1>12. \A c \in cases : \E k \in DOMAIN q : q[k] = c
  <2> TAKE c \in cases
  <2>1. rank[c] + 1 \in 1..n
    BY <1>6, <1>n
  <2>2. rank[q[rank[c] + 1]] = rank[c] /\ q[rank[c] + 1] \in cases
    <3> DEFINE r == rank[c]
    <3>1. r \in Int
      BY <1>6, <1>n
    <3> HIDE DEF r, rank, q, n
    <3>2. rank[q[r + 1]] = (r + 1) - 1 /\ q[r + 1] \in cases
      BY <2>1, <1>8, <1>9 DEF r
    <3>3. (r + 1) - 1 = r
      BY <3>1
    <3> QED
      BY <3>2, <3>3 DEF r
  <2> HIDE DEF rank, q, n
  <2>3. q[rank[c] + 1] = c
    BY <2>2, <1>5
  <2> QED
    BY <2>1, <2>3, <1>10
<1> QED
  BY <1>11, <1>12

(* What is in a sequence that is put before another, or loses its head.    *)
LEMMA ElementsOfConcat ==
    ASSUME NEW S, NEW p \in Seq(S), NEW q \in Seq(S)
    PROVE  p \o q \in Seq(S) /\ Elements(p \o q) = Elements(p) \cup Elements(q)
<1>1. /\ p \o q \in Seq(S) /\ DOMAIN p = 1..Len(p) /\ DOMAIN q = 1..Len(q)
      /\ Len(p) \in Nat /\ Len(q) \in Nat /\ DOMAIN (p \o q) = 1..(Len(p) + Len(q))
      /\ \A i \in 1..Len(p) : (p \o q)[i] = p[i]
      /\ \A i \in 1..Len(q) : (p \o q)[Len(p) + i] = q[i]
  OBVIOUS
<1>2. ASSUME NEW x \in Elements(p \o q)
      PROVE  x \in Elements(p) \cup Elements(q)
  <2>1. PICK i \in 1..(Len(p) + Len(q)) : x = (p \o q)[i]
    BY <1>1 DEF Elements
  <2>2. CASE i <= Len(p)
    <3>1. i \in 1..Len(p)
      BY <1>1, <2>2
    <3> QED
      BY <1>1, <2>1, <3>1 DEF Elements
  <2>3. CASE ~(i <= Len(p))
    <3>1. i - Len(p) \in 1..Len(q) /\ Len(p) + (i - Len(p)) = i
      BY <1>1, <2>3
    <3> QED
      BY <1>1, <2>1, <3>1 DEF Elements
  <2> QED
    BY <2>2, <2>3
<1>3. ASSUME NEW x \in Elements(p)
      PROVE  x \in Elements(p \o q)
  <2>1. PICK i \in 1..Len(p) : x = p[i]
    BY <1>1 DEF Elements
  <2>2. i \in 1..(Len(p) + Len(q))
    BY <1>1
  <2> QED
    BY <1>1, <2>1, <2>2 DEF Elements
<1>4. ASSUME NEW x \in Elements(q)
      PROVE  x \in Elements(p \o q)
  <2>1. PICK i \in 1..Len(q) : x = q[i]
    BY <1>1 DEF Elements
  <2>2. Len(p) + i \in 1..(Len(p) + Len(q))
    BY <1>1
  <2> QED
    BY <1>1, <2>1, <2>2 DEF Elements
<1> QED
  BY <1>1, <1>2, <1>3, <1>4

LEMMA ElementsOfTail ==
    ASSUME NEW S, NEW q \in Seq(S), q # <<>>
    PROVE  /\ Tail(q) \in Seq(S) /\ Head(q) \in S
           /\ Elements(q) = {Head(q)} \cup Elements(Tail(q))
<1>1. Len(q) \in Nat \ {0} /\ DOMAIN q = 1..Len(q) /\ Head(q) = q[1]
      /\ Tail(q) \in Seq(S) /\ DOMAIN Tail(q) = 1..(Len(q) - 1)
      /\ \A i \in 1..(Len(q) - 1) : Tail(q)[i] = q[i + 1]
  BY EmptySeq
<1>2. Head(q) \in S
  BY <1>1
<1>3. ASSUME NEW x \in Elements(q)
      PROVE  x \in {Head(q)} \cup Elements(Tail(q))
  <2>1. PICK i \in 1..Len(q) : x = q[i]
    BY <1>1 DEF Elements
  <2>2. CASE i = 1
    BY <1>1, <2>1, <2>2
  <2>3. CASE i # 1
    <3>1. i - 1 \in 1..(Len(q) - 1) /\ (i - 1) + 1 = i
      BY <1>1, <2>3
    <3> QED
      BY <1>1, <2>1, <3>1 DEF Elements
  <2> QED
    BY <2>2, <2>3
<1>4. ASSUME NEW x \in Elements(Tail(q))
      PROVE  x \in Elements(q)
  <2>1. PICK i \in 1..(Len(q) - 1) : x = Tail(q)[i]
    BY <1>1 DEF Elements
  <2>2. i + 1 \in 1..Len(q)
    BY <1>1
  <2> QED
    BY <1>1, <2>1, <2>2 DEF Elements
<1>5. Head(q) \in Elements(q)
  BY <1>1 DEF Elements
<1> QED
  BY <1>1, <1>2, <1>3, <1>4, <1>5

LEMMA ElementsIn ==
    ASSUME NEW S, NEW q \in Seq(S)
    PROVE  Elements(q) \subseteq S
BY DEF Elements

-----------------------------------------------------------------------------
(* The inductive invariant                                                 *)

(* Every failure and worker's escalation a ledger holds has a case in what *)
(* was ever queued.                                                        *)
NotedIn(l, queued) ==
    \A t \in Tasks :
        LET e == l.entry[t]
        IN /\ e.phase = "failed" => Case(t, "failed") \in queued
           /\ e.phase = "escalated" /\ e.worker => Case(t, "escalated") \in queued

(* What a ledger lists as parked by triage is an escalation of its own.    *)
Parks(l) ==
    \A t \in l.parked :
        \/ l.entry[t].phase = "absent"
        \/ l.entry[t].phase = "escalated" /\ ~l.entry[t].worker

TriageTypes ==
    /\ ledger \in LedgerType /\ saved \in LedgerType
    /\ inbox \in [Tasks -> Seq(Reports)]
    /\ pending \in Seq(Cases) /\ queue \in Seq(Cases)
    /\ session \in SessionStates
    /\ daemon \in Nat /\ running \subseteq Nat
    /\ hist \in [queued : SUBSET Cases, acted : BOOLEAN, told : BOOLEAN, unnamed : BOOLEAN]

QueuedInv ==
    /\ seen \subseteq hist.queued
    /\ Elements(queue) \subseteq hist.queued
    /\ NotedIn(ledger, hist.queued)
    /\ NotedIn(saved, hist.queued)

ParksInv == Parks(ledger) /\ Parks(saved)

Concluding == pc \in {"act", "rewrite", "apply"}

(* What is concluded is the verdict on the case at the head, of a session  *)
(* that is over.                                                           *)
CaseInv ==
    /\ pc # "down" => pending = queue
    /\ pc = "down" => session = "none"
    /\ session # "none" => /\ pending # <<>>
                           /\ ~ready /\ ~Concluding
                           /\ marker = NoVerdict
    /\ ready => /\ pc \in {"merge", "ack"}
                /\ pending # <<>>
                /\ pc = "ack" => hist.told
    /\ ready \/ Concluding => marker # NoVerdict
    /\ Concluding => pending # <<>>
    /\ hist.acted => marker # NoVerdict /\ pc # "act"

(* Whatever runs is the process session.pid names.                         *)
NamedInv ==
    hist.unnamed \/
        /\ running \subseteq {pidfile}
        /\ session \in {"ended", "failed"} => running = {}
        /\ marker # NoVerdict => running = {}
        /\ session = "polling" => pidfile = Process

TriageInv == TriageTypes /\ QueuedInv /\ ParksInv /\ CaseInv /\ NamedInv

-----------------------------------------------------------------------------
(* What a pass and an operator make of the ledger                          *)

LEMMA FindingsRight ==
    ASSUME NEW t \in Tasks, ledger.entry[t] \in Entry, inbox[t] \in Seq(Reports),
           NEW found \in Findings(t)
    PROVE  /\ found.entry \in Entry /\ found.raised \in SUBSET CaseKinds
           /\ found = [entry |-> found.entry, raised |-> found.raised]
           /\ Accounted(ledger.entry[t], found.entry, found.raised)
           /\ StaysParked(ledger.entry[t], found.entry)
           /\ ledger.entry[t].phase = "absent" => found.entry.phase = "absent"
<1> DEFINE e == ledger.entry[t]
           h == Heard(t)
<1>1. h \in Hearings(e)
  BY HeardAll
<1>2. PICK o \in Telling(h.entry) : found = Found(h, o)
  BY DEF Findings
<1> HIDE DEF h
<1>3. /\ h.entry \in Entry /\ h.raised \subseteq {"escalated"}
      /\ Accounted(e, h.entry, h.raised)
      /\ e.phase = "escalated" /\ ~e.worker => h.entry.phase = "escalated" /\ ~h.entry.worker
      /\ e.phase = "absent" => h.entry = e
  BY <1>1 DEF Hearings
<1>4. o \in Observations
  BY <1>2, <1>3, TellingObserves
<1>5. CASE o.session = "detached"
  <2>1. found = [entry |-> Absent, raised |-> {}]
    BY <1>2, <1>5 DEF Found
  <2> QED
    BY <2>1, EntriesTyped DEF Accounted, StaysParked
<1>6. CASE o.session # "detached"
  <2> DEFINE f == Observed(h.entry, o)
             raised == Raised(h.entry, o)
  <2>1. found = [entry |-> f, raised |-> h.raised \cup raised]
    BY <1>2, <1>6 DEF Found
  <2>2. f \in Entry /\ Accounted(h.entry, f, raised) /\ StaysParked(h.entry, f)
        /\ raised \subseteq CaseKinds
    BY <1>3, <1>4, ObservedRight
  <2>6. h.entry.phase = "absent" => f = h.entry
    BY DEF Observed
  <2> HIDE DEF f, raised, e
  <2>3. Accounted(e, f, h.raised \cup raised)
    BY <1>3, <2>2 DEF Accounted
  <2>4. StaysParked(e, f)
    BY <1>3, <2>2 DEF StaysParked
  <2>5. h.raised \cup raised \in SUBSET CaseKinds
    BY <1>3, <2>2 DEF CaseKinds
  <2> QED
    BY <2>1, <2>2, <2>3, <2>4, <2>5, <2>6, <1>3 DEF e
<1> QED
  BY <1>5, <1>6

(* Noted entries that change only for what was raised stay noted.          *)
LEMMA NotedStays ==
    ASSUME NEW l, NEW m, NEW queued, NEW more, queued \subseteq more,
           NotedIn(l, queued),
           \A t \in Tasks : \E raised :
               /\ Accounted(l.entry[t], m.entry[t], raised)
               /\ \A kind \in raised : Case(t, kind) \in more
    PROVE  NotedIn(m, more)
BY DEF NotedIn, Accounted

LEMMA NotedUnraised ==
    ASSUME NEW l, NEW m, NEW queued, NotedIn(l, queued),
           \A t \in Tasks : Accounted(l.entry[t], m.entry[t], {})
    PROVE  NotedIn(m, queued)
BY DEF NotedIn, Accounted

LEMMA LedgerParts ==
    ASSUME NEW l \in LedgerType
    PROVE  /\ l.entry \in [Tasks -> Entry] /\ l.parked \in SUBSET Tasks
           /\ DOMAIN l.entry = Tasks
           /\ \A t \in Tasks : l.entry[t] \in Entry
           /\ l = [entry |-> l.entry, parked |-> l.parked]
BY DEF LedgerType

LEMMA BecomesRight ==
    ASSUME TriageTypes, NEW t \in Tasks, NEW e,
           e \in {Approved(ledger.entry[t]), BranchReset(ledger.entry[t]),
                  Panicked(ledger.entry[t])},
           ledger.entry[t].phase # "absent"
    PROVE  /\ Becomes(t, e) \in LedgerType
           /\ \A u \in Tasks : Accounted(ledger.entry[u], Becomes(t, e).entry[u], {})
           /\ Parks(ledger) => Parks(Becomes(t, e))
<1>1. /\ ledger.entry \in [Tasks -> Entry] /\ ledger.parked \in SUBSET Tasks
      /\ \A u \in Tasks : ledger.entry[u] \in Entry
      /\ ledger = [entry |-> ledger.entry, parked |-> ledger.parked]
  BY LedgerParts DEF TriageTypes
<1>2. /\ e \in Entry /\ Accounted(ledger.entry[t], e, {})
      /\ ledger.entry[t].phase = "escalated" /\ ~ledger.entry[t].worker
           /\ e.phase = "escalated" => ~e.worker
  BY <1>1, RequestRight
<1> DEFINE entry == [ledger.entry EXCEPT ![t] = e]
           lot == StillParked(entry)
<1>3. Becomes(t, e) = [entry |-> entry, parked |-> lot]
  <2>1. Becomes(t, e) = [ledger EXCEPT !.entry = entry, !.parked = lot]
    BY DEF Becomes
  <2> HIDE DEF entry, lot
  <2>2. ledger \in [entry : [Tasks -> Entry], parked : SUBSET Tasks]
    BY DEF TriageTypes, LedgerType
  <2> QED
    BY <2>1, <2>2
<1>4. entry \in [Tasks -> Entry] /\ entry[t] = e
      /\ \A u \in Tasks : u # t => entry[u] = ledger.entry[u]
  BY <1>1, <1>2
<1> HIDE DEF entry
<1>5. lot = {u \in ledger.parked : entry[u].phase = "escalated"}
  BY DEF StillParked
<1> HIDE DEF lot
<1>6. Becomes(t, e) \in LedgerType
  BY <1>1, <1>3, <1>4, <1>5 DEF LedgerType
<1>7. \A u \in Tasks : Accounted(ledger.entry[u], Becomes(t, e).entry[u], {})
  BY <1>2, <1>3, <1>4 DEF Accounted
<1>8. ASSUME Parks(ledger) PROVE Parks(Becomes(t, e))
  <2> DEFINE b == Becomes(t, e)
  <2>1. b.entry = entry /\ b.parked = lot
    BY <1>3
  <2> HIDE DEF b
  <2>2. ASSUME NEW u \in b.parked
        PROVE  b.entry[u].phase = "escalated" /\ ~b.entry[u].worker
    <3>1. u \in Tasks /\ u \in ledger.parked /\ b.entry[u].phase = "escalated"
      BY <1>1, <1>5, <2>1, <2>2
    <3>2. CASE u = t
      BY <1>2, <1>4, <1>8, <2>1, <3>1, <3>2 DEF Parks
    <3>3. CASE u # t
      BY <1>4, <1>8, <2>1, <3>1, <3>3 DEF Parks
    <3> QED
      BY <3>2, <3>3
  <2>3. Parks(b)
    BY <2>2 DEF Parks
  <2> QED
    BY <2>3 DEF b
<1> QED
  BY <1>6, <1>7, <1>8

LEMMA ReconcileRight ==
    ASSUME TriageTypes, Reconcile
    PROVE  /\ ledger' \in LedgerType /\ pending' \in Seq(Cases)
           /\ Elements(pending) \subseteq Elements(pending')
           /\ \A t \in Tasks : \E raised :
                /\ Accounted(ledger.entry[t], ledger'.entry[t], raised)
                /\ \A kind \in raised : Case(t, kind) \in seen \cup Elements(pending')
           /\ Parks(ledger) => Parks(ledger')
<1>1. /\ ledger.entry \in [Tasks -> Entry] /\ ledger.parked \in SUBSET Tasks
      /\ \A u \in Tasks : ledger.entry[u] \in Entry
  BY LedgerParts DEF TriageTypes
<1>2. PICK found \in [Tasks -> UNION {Findings(t) : t \in Tasks}] :
        /\ \A t \in Tasks : found[t] \in Findings(t)
        /\ ledger' = [entry |-> [t \in Tasks |-> found[t].entry],
                      parked |-> {t \in ledger.parked :
                          found[t].entry.phase \notin {"merged", "absent"}}]
        /\ pending' = Enqueued(found)
  BY DEF Reconcile
<1>3. \A t \in Tasks :
        /\ found[t].entry \in Entry /\ found[t].raised \in SUBSET CaseKinds
        /\ Accounted(ledger.entry[t], found[t].entry, found[t].raised)
        /\ StaysParked(ledger.entry[t], found[t].entry)
        /\ ledger.entry[t].phase = "absent" => found[t].entry.phase = "absent"
  BY <1>1, <1>2, FindingsRight DEF TriageTypes
<1> DEFINE new == {case \in Cases \ seen : case.kind \in found[case.task].raised}
           q == InPassOrder(new)
<1>4. q \in Seq(Cases) /\ Elements(q) = new
  <2>1. new \subseteq Cases
    OBVIOUS
  <2> HIDE DEF new
  <2>2. q \in Seq(new) /\ \A c \in new : \E k \in DOMAIN q : q[k] = c
    BY <2>1, PassOrderLists
  <2>3. q \in Seq(Cases)
    <3> HIDE DEF q
    <3> QED
      BY <2>1, <2>2
  <2>4. Elements(q) = new
    <3> HIDE DEF q
    <3> QED
      BY <2>2 DEF Elements
  <2> QED
    BY <2>3, <2>4
<1>5. pending' = pending \o q
  BY <1>2 DEF Enqueued
<1>6. pending' \in Seq(Cases) /\ Elements(pending') = Elements(pending) \cup new
  <2> HIDE DEF q, new
  <2> QED
    BY <1>4, <1>5, ElementsOfConcat DEF TriageTypes
<1>7. \A t \in Tasks : \A kind \in found[t].raised : Case(t, kind) \in seen \cup Elements(pending')
  <2> TAKE t \in Tasks
  <2> TAKE kind \in found[t].raised
  <2> DEFINE c == Case(t, kind)
  <2>1. c \in Cases /\ c.task = t /\ c.kind = kind
    BY <1>3 DEF Case, Cases
  <2> HIDE DEF c
  <2>2. c \in seen \/ c \in new
    BY <2>1
  <2> QED
    BY <1>6, <2>2 DEF c
<1>8. ledger' \in LedgerType /\ \A t \in Tasks : ledger'.entry[t] = found[t].entry
  BY <1>1, <1>2, <1>3 DEF LedgerType
<1>9. \A t \in Tasks : \E raised :
        /\ Accounted(ledger.entry[t], ledger'.entry[t], raised)
        /\ \A kind \in raised : Case(t, kind) \in seen \cup Elements(pending')
  BY <1>3, <1>7, <1>8
<1>10. ASSUME Parks(ledger) PROVE Parks(ledger')
  <2> SUFFICES ASSUME NEW t \in ledger'.parked
               PROVE  \/ ledger'.entry[t].phase = "absent"
                      \/ ledger'.entry[t].phase = "escalated" /\ ~ledger'.entry[t].worker
    BY DEF Parks
  <2>1. t \in ledger.parked /\ t \in Tasks /\ ledger'.entry[t] = found[t].entry
        /\ found[t].entry.phase \notin {"merged", "absent"}
    BY <1>1, <1>2, <1>8
  <2> QED
    BY <1>3, <1>10, <2>1 DEF Parks, StaysParked
<1> QED
  BY <1>6, <1>8, <1>9, <1>10

LEMMA MergeRight ==
    ASSUME TriageTypes, MergeAndSave
    PROVE  /\ ledger' \in LedgerType
           /\ \A t \in Tasks : Accounted(ledger.entry[t], ledger'.entry[t], {})
           /\ Parks(ledger) => Parks(ledger')
<1>1. /\ ledger.entry \in [Tasks -> Entry] /\ ledger.parked \in SUBSET Tasks
      /\ \A u \in Tasks : ledger.entry[u] \in Entry
      /\ ledger \in [entry : [Tasks -> Entry], parked : SUBSET Tasks]
  BY LedgerParts DEF TriageTypes, LedgerType
<1>2. PICK entry \in [Tasks -> UNION {GateOutcomes(ledger.entry[t]) : t \in Tasks}] :
        /\ \A t \in Tasks : entry[t] \in GateOutcomes(ledger.entry[t])
        /\ ledger' = [ledger EXCEPT !.entry = entry, !.parked = StillParked(entry)]
  BY DEF MergeAndSave
<1>3. \A t \in Tasks :
        /\ entry[t] \in Entry /\ Accounted(ledger.entry[t], entry[t], {})
        /\ ledger.entry[t].phase = "escalated" /\ ~ledger.entry[t].worker
             /\ entry[t].phase = "escalated" => ~entry[t].worker
        /\ ledger.entry[t].phase = "absent" => entry[t] = ledger.entry[t]
  BY <1>1, <1>2, GateRight
<1> DEFINE lot == StillParked(entry)
<1>4. lot = {t \in ledger.parked : entry[t].phase = "escalated"}
  BY DEF StillParked
<1>5. ledger'.entry = entry /\ ledger'.parked = lot /\ ledger' = [entry |-> entry, parked |-> lot]
  <2> HIDE DEF lot
  <2> QED
    BY <1>1, <1>2 DEF lot
<1> HIDE DEF lot
<1>6. entry \in [Tasks -> Entry] /\ lot \in SUBSET Tasks
  BY <1>1, <1>2, <1>3, <1>4
<1>7. ledger' \in LedgerType
  BY <1>5, <1>6 DEF LedgerType
<1>8. ASSUME Parks(ledger) PROVE Parks(ledger')
  <2> SUFFICES ASSUME NEW t \in lot
               PROVE  entry[t].phase = "escalated" /\ ~entry[t].worker
    BY <1>5 DEF Parks
  <2>1. t \in Tasks /\ t \in ledger.parked /\ entry[t].phase = "escalated"
    BY <1>1, <1>4
  <2> QED
    BY <1>3, <1>8, <2>1 DEF Parks
<1> QED
  BY <1>3, <1>5, <1>7, <1>8

LEMMA ApplyRight ==
    ASSUME TriageTypes, CaseInv, Apply
    PROVE  /\ ledger' \in LedgerType
           /\ \A t \in Tasks : Accounted(ledger.entry[t], ledger'.entry[t], {})
           /\ Parks(ledger) => Parks(ledger')
<1>1. /\ ledger.entry \in [Tasks -> Entry] /\ ledger.parked \in SUBSET Tasks
      /\ \A u \in Tasks : ledger.entry[u] \in Entry
      /\ ledger \in [entry : [Tasks -> Entry], parked : SUBSET Tasks]
  BY LedgerParts DEF TriageTypes, LedgerType
<1> DEFINE t == Head(pending).task
           e == TriageEscalated(ledger.entry[t])
<1>2. t \in Tasks
  <2>1. pending # <<>> /\ pending \in Seq(Cases)
    BY DEF Apply, CaseInv, Concluding, TriageTypes
  <2>2. Head(pending) \in Cases
    BY <2>1, ElementsOfTail
  <2> QED
    BY <2>2 DEF Cases
<1>3. ledger' = IF marker = "leave" \/ e.phase = "absent" THEN ledger
                ELSE [ledger EXCEPT !.entry[t] = e, !.parked = @ \cup {t}]
  BY DEF Apply
<1>4. CASE ledger' = ledger
  BY <1>1, <1>4 DEF Accounted, LedgerType
<1>5. CASE ledger' # ledger
  <2>1. ledger.entry[t].phase # "absent"
    BY <1>3, <1>5 DEF TriageEscalated
  <2>2. e \in Entry /\ e.phase = "escalated" /\ ~e.worker
    BY <1>1, <1>2, <2>1, EscalationRight
  <2>3. ledger' = [ledger EXCEPT !.entry[t] = e, !.parked = @ \cup {t}]
    BY <1>3, <1>5
  <2> HIDE DEF t, e
  <2> DEFINE entry == [ledger.entry EXCEPT ![t] = e]
             lot == ledger.parked \cup {t}
  <2>4. ledger' = [entry |-> entry, parked |-> lot]
    BY <1>1, <2>3
  <2>5. entry \in [Tasks -> Entry] /\ entry[t] = e /\ lot \in SUBSET Tasks
        /\ \A u \in Tasks : u # t => entry[u] = ledger.entry[u]
    BY <1>1, <1>2, <2>2
  <2> HIDE DEF entry
  <2>6. ledger' \in LedgerType
    BY <2>4, <2>5 DEF LedgerType
  <2>7. ledger'.entry = entry /\ ledger'.parked = lot
    BY <2>4
  <2>8. \A u \in Tasks : Accounted(ledger.entry[u], ledger'.entry[u], {})
    BY <2>2, <2>5, <2>7 DEF Accounted
  <2>9. ASSUME Parks(ledger) PROVE Parks(ledger')
    <3> SUFFICES ASSUME NEW u \in lot
                 PROVE  \/ entry[u].phase = "absent"
                        \/ entry[u].phase = "escalated" /\ ~entry[u].worker
      BY <2>7 DEF Parks
    <3>1. CASE u = t
      BY <2>2, <2>5, <3>1
    <3>2. CASE u # t
      BY <1>1, <2>5, <2>9, <3>2 DEF Parks
    <3> QED
      BY <3>1, <3>2
  <2> QED
    BY <2>6, <2>8, <2>9
<1> QED
  BY <1>4, <1>5

-----------------------------------------------------------------------------
(* Every step keeps the invariant                                          *)

(* Steps that leave the ledger and its file alone, and the queue with it.  *)
Aside ==
    \/ \E t \in Tasks : WorkerReports(t)
    \/ TickIdle \/ TickSpawn \/ TickReplay \/ TickComplete
    \/ Act \/ RewriteMarker \/ Session \/ CommitInbox

LEMMA AsideLeaves ==
    ASSUME TriageTypes, Aside
    PROVE  /\ UNCHANGED <<ledger, saved, pending, queue, seen>>
           /\ hist'.queued = hist.queued
           /\ hist' \in [queued : SUBSET Cases, acted : BOOLEAN, told : BOOLEAN,
                         unnamed : BOOLEAN]
<1> hist \in [queued : SUBSET Cases, acted : BOOLEAN, told : BOOLEAN, unnamed : BOOLEAN]
  BY DEF TriageTypes
<1>1. UNCHANGED <<ledger, saved, pending, queue, seen>>
  BY DEF Aside, WorkerReports, Ticking, TickIdle, TickSpawn, TickReplay, TickComplete,
         Act, RewriteMarker, Session, Launch, LaunchFails, CaseUnwritable, SessionEnds,
         Thread, CommitInbox, ledgerVars, queueVars
<1>2. \/ UNCHANGED hist
      \/ hist' = [hist EXCEPT !.acted = TRUE]
      \/ hist' = [hist EXCEPT !.unnamed = @ \/ running # {}]
  BY DEF Aside, WorkerReports, Ticking, TickIdle, TickSpawn, TickReplay, TickComplete,
         Act, RewriteMarker, Session, Launch, LaunchFails, CaseUnwritable, SessionEnds,
         Thread, CommitInbox
<1>3. CASE hist' = [hist EXCEPT !.unnamed = @ \/ running # {}]
  <2> DEFINE b == hist.unnamed \/ running # {}
  <2>1. b \in BOOLEAN /\ hist' = [hist EXCEPT !.unnamed = b]
    BY <1>3
  <2> HIDE DEF b
  <2> QED
    BY <1>1, <2>1
<1>4. CASE hist' = [hist EXCEPT !.acted = TRUE]
  BY <1>1, <1>4
<1> QED
  BY <1>1, <1>2, <1>3, <1>4

LEMMA TypesKept ==
    ASSUME TriageInv, Next
    PROVE  TriageTypes'
<1> USE DEF TriageInv
<1>h. hist \in [queued : SUBSET Cases, acted : BOOLEAN, told : BOOLEAN, unnamed : BOOLEAN]
      /\ pending \in Seq(Cases) /\ queue \in Seq(Cases) /\ daemon \in Nat /\ running \subseteq Nat
      /\ inbox \in [Tasks -> Seq(Reports)] /\ session \in SessionStates
      /\ ledger \in LedgerType /\ saved \in LedgerType
  BY DEF TriageTypes
<1>1. ASSUME NEW t \in Tasks, WorkerReports(t)
      PROVE  TriageTypes'
  <2>1. PICK report \in Reports : inbox' = [inbox EXCEPT ![t] = Append(@, report)]
    BY <1>1 DEF WorkerReports
  <2>2. inbox' \in [Tasks -> Seq(Reports)]
    BY <1>h, <2>1
  <2> QED
    BY <1>h, <1>1, <2>2 DEF WorkerReports, ledgerVars, queueVars, sessionVars, TriageTypes
<1>2. ASSUME NEW t \in Tasks, OperatorApproves(t) \/ OperatorUpdatesBranch(t) \/ OperatorPanics(t)
      PROVE  TriageTypes'
  <2>1. /\ ledger' \in LedgerType /\ saved' = ledger'
        /\ UNCHANGED <<inbox, queueVars, sessionVars, daemon, hist>>
    <3>1. PICK e : /\ e \in {Approved(ledger.entry[t]), BranchReset(ledger.entry[t]),
                             Panicked(ledger.entry[t])}
                   /\ ledger' = Becomes(t, e) /\ ledger.entry[t].phase # "absent"
      BY <1>2 DEF OperatorApproves, OperatorUpdatesBranch, OperatorPanics, Requested
    <3>2. ledger' \in LedgerType
      BY <3>1, BecomesRight
    <3> QED
      BY <1>2, <3>2 DEF OperatorApproves, OperatorUpdatesBranch, OperatorPanics, Requested
  <2> QED
    BY <1>h, <2>1 DEF queueVars, sessionVars, TriageTypes
<1>3. ASSUME Reconcile
      PROVE  TriageTypes'
  <2>1. ledger' \in LedgerType /\ pending' \in Seq(Cases)
    BY <1>3, ReconcileRight
  <2>2. Elements(pending') \subseteq Cases
    BY <2>1, ElementsIn
  <2> DEFINE queued == hist.queued \cup Elements(pending')
  <2>3. queued \in SUBSET Cases /\ hist' = [hist EXCEPT !.queued = queued] /\ queue' = pending'
    BY <1>3, <1>h, <2>2 DEF Reconcile, SaveQueue
  <2> HIDE DEF queued
  <2>4. hist' \in [queued : SUBSET Cases, acted : BOOLEAN, told : BOOLEAN, unnamed : BOOLEAN]
    BY <1>h, <2>3
  <2> QED
    BY <1>h, <1>3, <2>1, <2>3, <2>4 DEF Reconcile, sessionVars, boundVars, TriageTypes
<1>4. ASSUME TickIdle \/ TickSpawn \/ TickReplay \/ TickComplete \/ Act \/ RewriteMarker
      PROVE  TriageTypes'
  <2>1. Aside
    BY <1>4 DEF Aside
  <2>2. UNCHANGED <<inbox, daemon, running>> /\ session' \in SessionStates
    BY <1>4, <1>h DEF Ticking, TickIdle, TickSpawn, TickReplay, TickComplete, Act,
                  RewriteMarker, sessionVars, boundVars, SessionStates
  <2> QED
    BY <1>h, <2>1, <2>2, AsideLeaves DEF TriageTypes
<1>5. ASSUME Session
      PROVE  TriageTypes'
  <2>1. Aside
    BY <1>5 DEF Aside
  <2>2. UNCHANGED <<inbox, daemon>> /\ session' \in SessionStates /\ running' \subseteq Nat
    BY <1>5, <1>h DEF Session, Launch, LaunchFails, CaseUnwritable, SessionEnds, Thread,
                  Survivors, Process, boundVars, SessionStates
  <2> QED
    BY <1>h, <2>1, <2>2, AsideLeaves DEF TriageTypes
<1>6. ASSUME Apply
      PROVE  TriageTypes'
  <2>1. ledger' \in LedgerType
    BY <1>6, ApplyRight
  <2> QED
    BY <1>h, <1>6, <2>1 DEF Apply, queueVars, sessionVars, boundVars, TriageTypes
<1>7. ASSUME MergeAndSave
      PROVE  TriageTypes'
  <2>1. ledger' \in LedgerType
    BY <1>7, MergeRight
  <2> DEFINE told == hist.told \/ ready
  <2>2. hist' = [hist EXCEPT !.told = told] /\ saved' = ledger' /\ told \in BOOLEAN
    BY <1>7 DEF MergeAndSave, SaveLedger
  <2> HIDE DEF told
  <2>3. hist' \in [queued : SUBSET Cases, acted : BOOLEAN, told : BOOLEAN, unnamed : BOOLEAN]
    BY <1>h, <2>2
  <2> QED
    BY <1>h, <1>7, <2>1, <2>2, <2>3 DEF MergeAndSave, queueVars, sessionVars, boundVars, TriageTypes
<1>8. ASSUME Acknowledge
      PROVE  TriageTypes'
  <2>1. CASE ready
    <3>1. pending # <<>>
      BY <2>1 DEF CaseInv
    <3>2. Tail(pending) \in Seq(Cases)
      BY <1>h, <3>1, ElementsOfTail
    <3>3. pending' = Tail(pending) /\ queue' = pending'
          /\ hist' = [hist EXCEPT !.acted = FALSE, !.told = FALSE]
      BY <1>8, <2>1 DEF Acknowledge, PopCase
    <3>4. hist' \in [queued : SUBSET Cases, acted : BOOLEAN, told : BOOLEAN, unnamed : BOOLEAN]
      BY <1>h, <3>3
    <3> QED
      BY <1>h, <1>8, <3>2, <3>3, <3>4 DEF Acknowledge, ledgerVars, boundVars, TriageTypes
  <2>2. CASE ~ready
    BY <1>h, <1>8, <2>2 DEF Acknowledge, ledgerVars, boundVars, TriageTypes
  <2> QED
    BY <2>1, <2>2
<1>9. ASSUME CommitInbox
      PROVE  TriageTypes'
  <2>1. inbox' \in [Tasks -> Seq(Reports)]
    BY <1>9 DEF CommitInbox
  <2> QED
    BY <1>h, <1>9, <2>1 DEF CommitInbox, ledgerVars, queueVars, sessionVars, boundVars, TriageTypes
<1>10. ASSUME Crash \/ CrashLaunching \/ Stop
       PROVE  TriageTypes'
  <2>1. /\ ledger' = saved /\ pending' = <<>> /\ session' = "none" /\ daemon' = daemon + 1
        /\ UNCHANGED <<saved, inbox, queue>>
    BY <1>10 DEF Crash, CrashLaunching, Stop, Dies
  <2>2. running' \subseteq Nat
    BY <1>10, <1>h DEF Crash, CrashLaunching, Stop, Survivors, Process
  <2>3. hist' = hist \/ hist' = [hist EXCEPT !.unnamed = TRUE]
    BY <1>10 DEF Crash, CrashLaunching, Stop
  <2>4. hist' \in [queued : SUBSET Cases, acted : BOOLEAN, told : BOOLEAN, unnamed : BOOLEAN]
    BY <1>h, <2>3
  <2>5. pending' \in Seq(Cases) /\ session' \in SessionStates
    BY <2>1 DEF SessionStates
  <2> QED
    BY <1>h, <2>1, <2>2, <2>4, <2>5 DEF TriageTypes
<1>11. ASSUME Restart
       PROVE  TriageTypes'
  BY <1>h, <1>11 DEF Restart, ledgerVars, sessionVars, boundVars, TriageTypes
<1> QED
  BY <1>1, <1>2, <1>3, <1>4, <1>5, <1>6, <1>7, <1>8, <1>9, <1>10, <1>11 DEF Next, Pass

LEMMA QueuedKept ==
    ASSUME TriageInv, Next
    PROVE  QueuedInv'
<1> USE DEF TriageInv
<1>h. hist \in [queued : SUBSET Cases, acted : BOOLEAN, told : BOOLEAN, unnamed : BOOLEAN]
      /\ pending \in Seq(Cases) /\ queue \in Seq(Cases)
      /\ seen \subseteq hist.queued /\ Elements(queue) \subseteq hist.queued
      /\ NotedIn(ledger, hist.queued) /\ NotedIn(saved, hist.queued)
  BY DEF TriageTypes, QueuedInv
<1>1. ASSUME Aside
      PROVE  QueuedInv'
  BY <1>h, <1>1, AsideLeaves DEF QueuedInv
<1>2. ASSUME NEW t \in Tasks, OperatorApproves(t) \/ OperatorUpdatesBranch(t) \/ OperatorPanics(t)
      PROVE  QueuedInv'
  <2>1. PICK e : /\ e \in {Approved(ledger.entry[t]), BranchReset(ledger.entry[t]),
                           Panicked(ledger.entry[t])}
                 /\ ledger' = Becomes(t, e) /\ ledger.entry[t].phase # "absent"
    BY <1>2 DEF OperatorApproves, OperatorUpdatesBranch, OperatorPanics, Requested
  <2>2. \A u \in Tasks : Accounted(ledger.entry[u], ledger'.entry[u], {})
    BY <2>1, BecomesRight
  <2>3. NotedIn(ledger', hist.queued)
    BY <1>h, <2>2, NotedUnraised
  <2>4. saved' = ledger' /\ UNCHANGED <<seen, queue, hist>>
    BY <1>2 DEF OperatorApproves, OperatorUpdatesBranch, OperatorPanics, Requested, queueVars
  <2> QED
    BY <1>h, <2>3, <2>4 DEF QueuedInv
<1>3. ASSUME Reconcile
      PROVE  QueuedInv'
  <2>1. /\ pending' \in Seq(Cases)
        /\ \A t \in Tasks : \E raised :
             /\ Accounted(ledger.entry[t], ledger'.entry[t], raised)
             /\ \A kind \in raised : Case(t, kind) \in seen \cup Elements(pending')
    BY <1>3, ReconcileRight
  <2> DEFINE queued == hist.queued \cup Elements(pending')
  <2>2. hist'.queued = queued /\ queue' = pending' /\ saved' = saved
        /\ seen' = seen \cup Elements(pending')
    <3>1. hist' = [hist EXCEPT !.queued = queued]
      BY <1>3 DEF Reconcile, SaveQueue
    <3> HIDE DEF queued
    <3> QED
      BY <1>h, <1>3, <3>1 DEF Reconcile, SaveQueue
  <2>3. hist.queued \subseteq queued /\ seen \cup Elements(pending') \subseteq queued
        /\ Elements(pending') \subseteq queued
    BY <1>h
  <2> HIDE DEF queued
  <2>4. NotedIn(ledger', queued)
    BY <1>h, <2>1, <2>3, NotedStays
  <2>5. NotedIn(saved, queued)
    BY <1>h, <2>3 DEF NotedIn
  <2> QED
    BY <2>2, <2>3, <2>4, <2>5 DEF QueuedInv
<1>4. ASSUME Apply \/ MergeAndSave
      PROVE  QueuedInv'
  <2>1. \A t \in Tasks : Accounted(ledger.entry[t], ledger'.entry[t], {})
    BY <1>4, ApplyRight, MergeRight
  <2>2. NotedIn(ledger', hist.queued)
    BY <1>h, <2>1, NotedUnraised
  <2> DEFINE told == hist.told \/ ready
  <2>3. UNCHANGED <<seen, queue>> /\ saved' \in {saved, ledger'}
        /\ (hist' = hist \/ hist' = [hist EXCEPT !.told = told])
    BY <1>4 DEF Apply, MergeAndSave, SaveLedger, queueVars
  <2> HIDE DEF told
  <2>4. hist'.queued = hist.queued
    BY <1>h, <2>3
  <2> QED
    BY <1>h, <2>2, <2>3, <2>4 DEF QueuedInv
<1>5. ASSUME Acknowledge
      PROVE  QueuedInv'
  <2>1. UNCHANGED <<ledger, saved, seen>>
    BY <1>5 DEF Acknowledge, ledgerVars
  <2>2. CASE ready
    <3>1. pending # <<>> /\ pending = queue
      BY <1>5, <2>2 DEF Acknowledge, CaseInv
    <3>2. Elements(Tail(pending)) \subseteq Elements(pending)
      BY <1>h, <3>1, ElementsOfTail
    <3>3. hist' = [hist EXCEPT !.acted = FALSE, !.told = FALSE] /\ queue' = Tail(pending)
      BY <1>5, <2>2 DEF Acknowledge, PopCase
    <3>4. hist'.queued = hist.queued
      BY <1>h, <3>3
    <3> QED
      BY <1>h, <2>1, <3>1, <3>2, <3>3, <3>4 DEF QueuedInv
  <2>3. CASE ~ready
    BY <1>h, <1>5, <2>1, <2>3 DEF Acknowledge, QueuedInv
  <2> QED
    BY <2>2, <2>3
<1>6. ASSUME Crash \/ CrashLaunching \/ Stop
      PROVE  QueuedInv'
  <2>1. ledger' = saved /\ seen' = {} /\ UNCHANGED <<saved, queue>>
    BY <1>6 DEF Crash, CrashLaunching, Stop, Dies
  <2>2. hist' = hist \/ hist' = [hist EXCEPT !.unnamed = TRUE]
    BY <1>6 DEF Crash, CrashLaunching, Stop
  <2>3. hist'.queued = hist.queued
    BY <1>h, <2>2
  <2> QED
    BY <1>h, <2>1, <2>3 DEF QueuedInv
<1>7. ASSUME Restart
      PROVE  QueuedInv'
  BY <1>h, <1>7 DEF Restart, ledgerVars, QueuedInv
<1> QED
  BY <1>1, <1>2, <1>3, <1>4, <1>5, <1>6, <1>7 DEF Next, Pass, Aside

LEMMA ParksKept ==
    ASSUME TriageInv, Next
    PROVE  ParksInv'
<1> USE DEF TriageInv
<1>1. ASSUME Aside
      PROVE  ParksInv'
  BY <1>1, AsideLeaves DEF ParksInv
<1>2. ASSUME NEW t \in Tasks, OperatorApproves(t) \/ OperatorUpdatesBranch(t) \/ OperatorPanics(t)
      PROVE  ParksInv'
  <2>1. PICK e : /\ e \in {Approved(ledger.entry[t]), BranchReset(ledger.entry[t]),
                           Panicked(ledger.entry[t])}
                 /\ ledger' = Becomes(t, e) /\ ledger.entry[t].phase # "absent"
    BY <1>2 DEF OperatorApproves, OperatorUpdatesBranch, OperatorPanics, Requested
  <2>2. Parks(ledger')
    BY <2>1, BecomesRight DEF ParksInv
  <2>3. saved' = ledger'
    BY <1>2 DEF OperatorApproves, OperatorUpdatesBranch, OperatorPanics, Requested
  <2> QED
    BY <2>2, <2>3 DEF ParksInv
<1>3. ASSUME Reconcile \/ Apply \/ MergeAndSave
      PROVE  ParksInv'
  <2>1. Parks(ledger')
    BY <1>3, ReconcileRight, ApplyRight, MergeRight DEF ParksInv
  <2>2. saved' \in {saved, ledger'}
    BY <1>3 DEF Reconcile, Apply, MergeAndSave, SaveLedger
  <2> QED
    BY <2>1, <2>2 DEF ParksInv
<1>4. ASSUME Acknowledge \/ Crash \/ CrashLaunching \/ Stop \/ Restart
      PROVE  ParksInv'
  <2>1. ledger' \in {ledger, saved} /\ saved' = saved
    BY <1>4 DEF Acknowledge, Crash, CrashLaunching, Stop, Dies, Restart, ledgerVars
  <2> QED
    BY <2>1 DEF ParksInv
<1> QED
  BY <1>1, <1>2, <1>3, <1>4 DEF Next, Pass, Aside

LEMMA CaseKept ==
    ASSUME TriageInv, Next
    PROVE  CaseInv'
<1> USE DEF TriageInv
<1>h. hist \in [queued : SUBSET Cases, acted : BOOLEAN, told : BOOLEAN, unnamed : BOOLEAN]
      /\ pending \in Seq(Cases) /\ queue \in Seq(Cases)
  BY DEF TriageTypes
<1>1. ASSUME NEW t \in Tasks, WorkerReports(t) \/ OperatorApproves(t)
                                \/ OperatorUpdatesBranch(t) \/ OperatorPanics(t)
      PROVE  CaseInv'
  <2>1. UNCHANGED <<queueVars, sessionVars, verdictVars, pc, hist>>
    BY <1>1 DEF WorkerReports, OperatorApproves, OperatorUpdatesBranch, OperatorPanics, Requested
  <2> QED
    BY <2>1 DEF queueVars, sessionVars, verdictVars, CaseInv, Concluding
<1>2. ASSUME Reconcile
      PROVE  CaseInv'
  <2>1. pending = queue /\ queue' = pending' /\ pc = "idle" /\ pc' = "tick"
        /\ UNCHANGED <<session, marker, ready>>
    BY <1>2 DEF Reconcile, SaveQueue, sessionVars, verdictVars, CaseInv
  <2>2. pending # <<>> => pending' # <<>>
    <3>1. Elements(pending) \subseteq Elements(pending') /\ pending' \in Seq(Cases)
      BY <1>2, ReconcileRight
    <3>2. ASSUME pending # <<>>
          PROVE  Head(pending) \in Elements(pending)
      BY <1>h, <3>2, ElementsOfTail
    <3>3. Elements(<<>>) = {}
      BY DEF Elements
    <3> QED
      BY <3>1, <3>2, <3>3
  <2>3. hist'.acted = hist.acted /\ hist'.told = hist.told
    <3> DEFINE queued == hist.queued \cup Elements(queue')
    <3>1. hist' = [hist EXCEPT !.queued = queued]
      BY <1>2 DEF Reconcile, SaveQueue
    <3> HIDE DEF queued
    <3> QED
      BY <1>h, <3>1
  <2> QED
    BY <2>1, <2>2, <2>3 DEF CaseInv, Concluding
<1>3. ASSUME TickIdle \/ TickSpawn \/ TickReplay
      PROVE  CaseInv'
  BY <1>3 DEF TickIdle, TickSpawn, TickReplay, Ticking, Sent, AfterReplay, queueVars,
              CaseInv, Concluding
<1>4. ASSUME TickComplete
      PROVE  CaseInv'
  <2>1. /\ session # "none" /\ session' = "none"
        /\ UNCHANGED <<pending, queue, ready, hist>>
        /\ pc = "tick" /\ pc' \in {"act", "apply"} /\ marker' \in {"leave", "escalate"}
    BY <1>4 DEF TickComplete, Ticking, Sent, queueVars, Verdicts
  <2>2. pending # <<>> /\ pending = queue /\ marker = NoVerdict /\ ~ready /\ ~hist.acted
    BY <2>1 DEF CaseInv
  <2> QED
    BY <2>1, <2>2 DEF CaseInv, Concluding, NoVerdict
<1>5. ASSUME Act
      PROVE  CaseInv'
  <2>1. hist'.acted /\ hist'.told = hist.told
    BY <1>5, <1>h DEF Act
  <2> QED
    BY <1>5, <2>1 DEF Act, queueVars, sessionVars, verdictVars, CaseInv, Concluding
<1>6. ASSUME RewriteMarker
      PROVE  CaseInv'
  BY <1>6 DEF RewriteMarker, queueVars, sessionVars, CaseInv, Concluding, NoVerdict
<1>7. ASSUME Apply
      PROVE  CaseInv'
  BY <1>7 DEF Apply, queueVars, sessionVars, CaseInv, Concluding
<1>8. ASSUME Session
      PROVE  CaseInv'
  <2>1. /\ session # "none" /\ session' # "none"
        /\ UNCHANGED <<pending, queue, marker, ready, pc>>
    BY <1>8 DEF Session, Launch, LaunchFails, CaseUnwritable, SessionEnds, Thread, queueVars,
                verdictVars
  <2>2. hist'.acted = hist.acted
    <3> DEFINE b == hist.unnamed \/ running # {}
    <3>1. hist' = hist \/ hist' = [hist EXCEPT !.unnamed = b]
      BY <1>8 DEF Session, Launch, LaunchFails, CaseUnwritable, SessionEnds
    <3> HIDE DEF b
    <3> QED
      BY <1>h, <3>1
  <2> QED
    BY <2>1, <2>2 DEF CaseInv, Concluding
<1>9. ASSUME MergeAndSave
      PROVE  CaseInv'
  <2> DEFINE told == hist.told \/ ready
  <2>1. hist' = [hist EXCEPT !.told = told] /\ (ready => told)
    BY <1>9 DEF MergeAndSave, SaveLedger
  <2>2. told \in BOOLEAN
    OBVIOUS
  <2> HIDE DEF told
  <2>3. (ready => hist'.told) /\ hist'.acted = hist.acted
    BY <1>h, <2>1, <2>2
  <2> QED
    BY <1>9, <2>3 DEF MergeAndSave, queueVars, sessionVars, verdictVars, CaseInv, Concluding
<1>10. ASSUME Acknowledge
       PROVE  CaseInv'
  <2>1. /\ pc = "ack" /\ pc' = "commit" /\ ~ready' /\ session' = session
        /\ pending = queue
    BY <1>10 DEF Acknowledge, CaseInv
  <2>2. CASE ready
    <3>1. session = "none" /\ queue' = pending' /\ marker' = NoVerdict
          /\ hist' = [hist EXCEPT !.acted = FALSE, !.told = FALSE]
      BY <1>10, <2>2 DEF Acknowledge, PopCase, CaseInv
    <3>2. ~hist'.acted
      BY <1>h, <3>1
    <3> QED
      BY <2>1, <3>1, <3>2 DEF CaseInv, Concluding
  <2>3. CASE ~ready
    BY <1>10, <2>1, <2>3 DEF Acknowledge, CaseInv, Concluding
  <2> QED
    BY <2>2, <2>3
<1>11. ASSUME CommitInbox
       PROVE  CaseInv'
  BY <1>11 DEF CommitInbox, queueVars, sessionVars, verdictVars, CaseInv, Concluding
<1>12. ASSUME Crash \/ CrashLaunching \/ Stop
       PROVE  CaseInv'
  <2>1. /\ pc' = "down" /\ session' = "none" /\ ~ready' /\ marker' = marker
    BY <1>12 DEF Crash, CrashLaunching, Stop, Dies
  <2>2. hist' = hist \/ hist' = [hist EXCEPT !.unnamed = TRUE]
    BY <1>12 DEF Crash, CrashLaunching, Stop
  <2>3. hist'.acted = hist.acted
    BY <1>h, <2>2
  <2> QED
    BY <2>1, <2>3 DEF CaseInv, Concluding
<1>13. ASSUME Restart
       PROVE  CaseInv'
  BY <1>13 DEF Restart, sessionVars, verdictVars, CaseInv, Concluding
<1> QED
  BY <1>1, <1>2, <1>3, <1>4, <1>5, <1>6, <1>7, <1>8, <1>9, <1>10, <1>11, <1>12, <1>13
     DEF Next, Pass

LEMMA NamedKept ==
    ASSUME TriageInv, Next
    PROVE  NamedInv'
<1> USE DEF TriageInv
<1>h. hist \in [queued : SUBSET Cases, acted : BOOLEAN, told : BOOLEAN, unnamed : BOOLEAN]
  BY DEF TriageTypes
<1>1. ASSUME UNCHANGED <<sessionVars, marker, daemon>>, hist'.unnamed = hist.unnamed
      PROVE  NamedInv'
  BY <1>1 DEF sessionVars, NamedInv, Process
<1>2. ASSUME NEW t \in Tasks, WorkerReports(t) \/ OperatorApproves(t)
                                \/ OperatorUpdatesBranch(t) \/ OperatorPanics(t)
      PROVE  NamedInv'
  BY <1>1, <1>2 DEF WorkerReports, OperatorApproves, OperatorUpdatesBranch, OperatorPanics,
                    Requested, verdictVars
<1>3. ASSUME Reconcile \/ MergeAndSave \/ Act
      PROVE  NamedInv'
  <2> DEFINE queued == hist.queued \cup Elements(queue')
             told == hist.told \/ ready
  <2>1. \/ hist' = [hist EXCEPT !.queued = queued]
        \/ hist' = [hist EXCEPT !.told = told]
        \/ hist' = [hist EXCEPT !.acted = TRUE]
    BY <1>3 DEF Reconcile, MergeAndSave, Act, SaveQueue, SaveLedger
  <2> HIDE DEF queued, told
  <2>2. hist'.unnamed = hist.unnamed
    BY <1>h, <2>1
  <2>3. UNCHANGED <<sessionVars, marker, daemon>>
    BY <1>3 DEF Reconcile, MergeAndSave, Act, verdictVars, boundVars
  <2> QED
    BY <1>1, <2>2, <2>3
<1>4. ASSUME Apply \/ CommitInbox \/ Restart
      PROVE  NamedInv'
  BY <1>1, <1>4 DEF Apply, CommitInbox, Restart, verdictVars, boundVars
<1>5. ASSUME TickIdle \/ TickSpawn \/ TickReplay \/ TickComplete \/ RewriteMarker
      PROVE  NamedInv'
  <2>1. UNCHANGED <<running, pidfile, daemon, hist>>
    BY <1>5 DEF TickIdle, TickSpawn, TickReplay, TickComplete, Ticking, RewriteMarker,
                sessionVars, boundVars
  <2>2. \/ session' = session /\ marker' = marker
        \/ session' = "starting" /\ marker' = marker
        \/ session \in {"ended", "failed"} /\ session' = "none"
        \/ session' = session /\ marker # NoVerdict
    BY <1>5 DEF TickIdle, TickSpawn, TickReplay, TickComplete, RewriteMarker, Sent,
                sessionVars, CaseInv, Concluding
  <2> QED
    BY <2>1, <2>2 DEF NamedInv, Process
<1>6. ASSUME Launch \/ LaunchFails \/ SessionEnds
      PROVE  NamedInv'
  <2>1. /\ session # "none" /\ marker' = marker /\ daemon' = daemon /\ hist' = hist
        /\ marker = NoVerdict
    BY <1>6 DEF Launch, LaunchFails, SessionEnds, Thread, verdictVars, boundVars, CaseInv
  <2> QED
    BY <1>6, <2>1 DEF Launch, LaunchFails, SessionEnds, Thread, Survivors, NamedInv, Process
<1>7. ASSUME CaseUnwritable
      PROVE  NamedInv'
  <2> DEFINE b == hist.unnamed \/ running # {}
  <2>1. hist' = [hist EXCEPT !.unnamed = b] /\ b \in BOOLEAN
    BY <1>7 DEF CaseUnwritable
  <2> HIDE DEF b
  <2>2. hist'.unnamed = b
    BY <1>h, <2>1
  <2>3. /\ session' = "failed" /\ UNCHANGED <<running, pidfile, marker>>
    BY <1>7 DEF CaseUnwritable, Thread, verdictVars
  <2>4. CASE b
    BY <2>2, <2>4 DEF NamedInv
  <2>5. CASE ~b
    BY <2>3, <2>5 DEF NamedInv, b
  <2> QED
    BY <2>4, <2>5
<1>8. ASSUME Acknowledge
      PROVE  NamedInv'
  <2>1. UNCHANGED <<session, running, daemon>>
    BY <1>8 DEF Acknowledge, boundVars
  <2>2. CASE ready
    <3>1. pidfile' = NoProcess /\ marker' = NoVerdict /\ marker # NoVerdict /\ session = "none"
      BY <1>8, <2>2 DEF Acknowledge, PopCase, CaseInv
    <3>2. hist' = [hist EXCEPT !.acted = FALSE, !.told = FALSE]
      BY <1>8, <2>2 DEF Acknowledge, PopCase
    <3>3. hist'.unnamed = hist.unnamed
      BY <1>h, <3>2
    <3> QED
      BY <2>1, <3>1, <3>3 DEF NamedInv, Process
  <2>3. CASE ~ready
    BY <1>1, <1>8, <2>3 DEF Acknowledge, sessionVars, boundVars
  <2> QED
    BY <2>2, <2>3
<1>9. ASSUME Crash \/ Stop
      PROVE  NamedInv'
  <2>1. session' = "none" /\ marker' = marker /\ hist' = hist
    BY <1>9 DEF Crash, Stop, Dies
  <2>2. \/ UNCHANGED <<running, pidfile>>
        \/ session = "starting" /\ running' = Survivors /\ pidfile' = NoProcess
        \/ session = "polling" /\ running' = running \ {Process} /\ pidfile' = NoProcess
    BY <1>9 DEF Crash, Stop
  <2> QED
    BY <2>1, <2>2 DEF NamedInv, Survivors
<1>10. ASSUME CrashLaunching
       PROVE  NamedInv'
  <2>1. hist' = [hist EXCEPT !.unnamed = TRUE]
    BY <1>10 DEF CrashLaunching
  <2>2. hist'.unnamed
    BY <1>h, <2>1
  <2> QED
    BY <2>2 DEF NamedInv
<1> QED
  BY <1>2, <1>3, <1>4, <1>5, <1>6, <1>7, <1>8, <1>9, <1>10 DEF Next, Pass, Session

LEMMA TriageInvKept == TriageInv /\ [Next]_vars => TriageInv'
<1> SUFFICES ASSUME TriageInv, [Next]_vars
             PROVE  TriageInv'
  OBVIOUS
<1>1. CASE Next
  BY <1>1, TypesKept, QueuedKept, ParksKept, CaseKept, NamedKept DEF TriageInv
<1>2. CASE UNCHANGED vars
  BY <1>2 DEF vars, ledgerVars, queueVars, sessionVars, verdictVars, boundVars, TriageInv,
              TriageTypes, QueuedInv, ParksInv, CaseInv, Concluding, NamedInv, Process
<1> QED
  BY <1>1, <1>2

LEMMA TriageInvStarts == Init => TriageInv
<1> SUFFICES ASSUME Init
             PROVE  TriageInv
  OBVIOUS
<1>1. ledger = [entry |-> [t \in Tasks |-> NewEntry], parked |-> {}] /\ saved = ledger
      /\ inbox = [t \in Tasks |-> <<>>] /\ pending = <<>> /\ queue = <<>> /\ seen = {}
      /\ session = "none" /\ running = {} /\ daemon = 0 /\ ready = FALSE /\ pc = "idle"
      /\ marker = NoVerdict
      /\ hist = [queued |-> {}, acted |-> FALSE, told |-> FALSE, unnamed |-> FALSE]
  BY DEF Init
<1>2. ledger \in LedgerType /\ \A t \in Tasks : ledger.entry[t] = NewEntry
  BY <1>1, EntriesTyped DEF LedgerType
<1>3. TriageTypes
  BY <1>1, <1>2 DEF TriageTypes, SessionStates
<1>4. QueuedInv
  BY <1>1, <1>2, EntriesTyped DEF QueuedInv, NotedIn, Elements
<1>5. ParksInv
  BY <1>1 DEF ParksInv, Parks
<1>6. CaseInv /\ NamedInv
  BY <1>1 DEF CaseInv, NamedInv, Concluding
<1> QED
  BY <1>3, <1>4, <1>5, <1>6 DEF TriageInv

LEMMA TriageInvHolds == Spec => []TriageInv
BY TriageInvStarts, TriageInvKept, PTL DEF Spec

-----------------------------------------------------------------------------
(* Nothing a worker failed at, or escalated, reaches the saved ledger      *)
(* before its case reached the saved queue; what triage parked stays       *)
(* parked; and one session runs at a time: however the daemon's deaths     *)
(* fall between its writes (run_daemon, session.rs).                       *)
THEOREM TriageSurvives == Spec => []TriageSafe
<1>1. TriageInv => TriageSafe
  <2> SUFFICES ASSUME TriageInv
               PROVE  TriageSafe
    OBVIOUS
  <2>1. FailuresQueued
    BY DEF TriageInv, QueuedInv, NotedIn, FailuresQueued
  <2>2. TriageParks
    BY DEF TriageInv, ParksInv, Parks, TriageParks
  <2>3. OneSession
    <3>1. CASE hist.unnamed
      BY <3>1 DEF OneSession
    <3>2. CASE ~hist.unnamed
      <4>1. running = {} \/ running = {pidfile}
        BY <3>2 DEF TriageInv, NamedInv
      <4>2. Cardinality({}) = 0 /\ Cardinality({pidfile}) = 1
        BY FS_EmptySet, FS_Singleton
      <4>3. Cardinality(running) \in {0, 1}
        BY <4>1, <4>2
      <4> QED
        BY <4>3 DEF OneSession
    <3> QED
      BY <3>1, <3>2
  <2> QED
    BY <2>1, <2>2, <2>3 DEF TriageSafe
<1> QED
  BY <1>1, TriageInvHolds, PTL

(* A case leaves the saved queue only at its head, with its verdict in the *)
(* saved ledger; the action of a verdict is run at most once, though a     *)
(* restarted daemon replays the verdict (completion.rs, triage.rs).        *)
THEOREM CasesConcludeOnce == Spec => TriageConcludes
<1> DEFINE Kept == [\A case \in Elements(queue) \ Elements(queue') :
                       case = Head(queue) /\ hist.told]_vars
           Once == [pc = "act" /\ pc' \in {"apply", "rewrite"} => ~hist.acted]_vars
<1>1. TriageInv /\ [Next]_vars => Kept
  <2> SUFFICES ASSUME TriageInv, Next,
                      NEW case \in Elements(queue) \ Elements(queue')
               PROVE  case = Head(queue) /\ hist.told
    BY DEF Kept
  <2>h. pending \in Seq(Cases) /\ queue \in Seq(Cases) /\ CaseInv
    BY DEF TriageInv, TriageTypes
  <2>1. queue' # queue
    OBVIOUS
  <2>2. ~Aside
    BY <2>1, AsideLeaves DEF TriageInv
  <2>3. Reconcile \/ Acknowledge
    BY <2>1, <2>2 DEF Next, Pass, Aside, OperatorApproves, OperatorUpdatesBranch,
                      OperatorPanics, Requested, Apply, MergeAndSave, Crash, CrashLaunching,
                      Stop, Dies, Restart, queueVars
  <2>4. CASE Reconcile
    <3>1. queue' = pending' /\ pending = queue
      BY <2>4, <2>h DEF Reconcile, SaveQueue, CaseInv
    <3>2. Elements(pending) \subseteq Elements(pending')
      BY <2>4, ReconcileRight DEF TriageInv
    <3> QED
      BY <3>1, <3>2
  <2>5. CASE Acknowledge
    <3>1. ready /\ queue' = Tail(pending)
      BY <2>1, <2>5 DEF Acknowledge, PopCase
    <3>2. pending = queue /\ pending # <<>> /\ hist.told
      BY <2>5, <2>h, <3>1 DEF Acknowledge, CaseInv
    <3>3. Elements(queue) = {Head(queue)} \cup Elements(Tail(queue))
      BY <2>h, <3>2, ElementsOfTail
    <3> QED
      BY <3>1, <3>2, <3>3
  <2> QED
    BY <2>3, <2>4, <2>5
<1>2. TriageInv => Once
  BY DEF TriageInv, CaseInv
<1> QED
  BY <1>1, <1>2, TriageInvHolds, PTL DEF Spec, TriageConcludes, CasesKept, ActsOnce

-----------------------------------------------------------------------------
(* The advice beside a row                                                 *)

RemedyTypes ==
    /\ reason \in [wraps : Seq(Wraps), core : Cores]
    /\ live \in BOOLEAN

LEMMA CoresMove ==
    ASSUME NEW core \in Cores
    PROVE  /\ CoreMove(core) \in RemedyMoves
           /\ CoreMove(core) = "watch" <=> core \in Table.watch
<1>1. CASE core \in Unknown.review
  <2>1. core \notin Table.watch
    BY <1>1 DEF Unknown, Table, MergeTable, RuntimeTable, RemedyMoves
  <2>2. CoreMove(core) = "review"
    BY <1>1 DEF CoreMove
  <2> QED
    BY <2>1, <2>2 DEF RemedyMoves
<1>2. CASE core \notin Unknown.review /\ core \in Unknown.answer
  <2>1. core \notin Table.watch
    BY <1>2 DEF Unknown, Table, MergeTable, RuntimeTable, RemedyMoves
  <2>2. CoreMove(core) = "answer"
    BY <1>2 DEF CoreMove
  <2> QED
    BY <2>1, <2>2 DEF RemedyMoves
<1>3. CASE core \notin Unknown.review /\ core \notin Unknown.answer
  <2>1. CoreMove(core) = CHOOSE move \in RemedyMoves : core \in Table[move]
    BY <1>3 DEF CoreMove
  <2>2. \E move \in RemedyMoves : core \in Table[move]
    BY <1>3 DEF Cores
  <2>3. CoreMove(core) \in RemedyMoves /\ core \in Table[CoreMove(core)]
    BY <2>1, <2>2, Zenon
  <2>4. ASSUME NEW move \in RemedyMoves, core \in Table[move], core \in Table["watch"]
        PROVE  move = "watch"
    <3>1. core \in {"checks_waiting", "behind_not_next", "prerequisite_unmerged:",
                    "circuit_at_risk:"}
      BY <2>4 DEF Table, MergeTable, RuntimeTable, RemedyMoves
    <3>2. core \notin Table["answer"] /\ core \notin Table["merge"]
      BY <3>1 DEF Table, MergeTable, RuntimeTable, RemedyMoves
    <3>3. core \notin Table["retry"] /\ core \notin Table["review"]
      BY <3>1 DEF Table, MergeTable, RuntimeTable, RemedyMoves
    <3> QED
      BY <2>4, <3>2, <3>3 DEF RemedyMoves
  <2> QED
    BY <2>3, <2>4
<1> QED
  BY <1>1, <1>2, <1>3

(* Reading a reason from the inside out: what each wrapper makes of the    *)
(* advice within, the k-th from the outside.                               *)
Read(r, k, move) ==
    IF k > MaxDepth \/ r.wraps[k] \in Overrides THEN "review"
    ELSE IF r.wraps[k] \in Promotes THEN Promoted(move)
    ELSE move

LEMMA ResolveReads ==
    ASSUME NEW r, r.wraps \in Seq(Wraps), r.core \in Cores
    PROVE  \E f \in [0..Len(r.wraps) -> RemedyMoves] :
             /\ f[0] = CoreMove(r.core)
             /\ \A j \in 1..Len(r.wraps) : f[j] = Read(r, Len(r.wraps) + 1 - j, f[j - 1])
             /\ Resolve(r) = f[Len(r.wraps)]
<1> DEFINE n == Len(r.wraps)
           start == CoreMove(r.core)
           of(g) == [k \in 1..(n + 1) |->
                        IF k = n + 1 THEN start
                        ELSE IF k > MaxDepth \/ r.wraps[k] \in Overrides THEN "review"
                        ELSE IF r.wraps[k] \in Promotes THEN Promoted(g[k + 1])
                        ELSE g[k + 1]]
           from == CHOOSE g : g = of(g)
           Step == [j \in 1..n |-> [move \in RemedyMoves |-> Read(r, n + 1 - j, move)]]
<1>1. n \in Nat /\ start \in RemedyMoves
  BY CoresMove
<1>2. Resolve(r) = from[1]
  BY DEF Resolve
<1>3. \A k \in Int, move \in RemedyMoves : Read(r, k, move) \in RemedyMoves
  BY DEF Read, Promoted, RemedyMoves
<1>4. PICK f : LeadsFrom(start, f, Step, RemedyMoves, n)
  <2>1. Step \in StepsOn(RemedyMoves, n)
    BY <1>1, <1>3 DEF StepsOn
  <2> HIDE DEF Step, n, start
  <2> QED
    BY <1>1, <2>1, Recurs
<1>5. /\ f \in [0..n -> RemedyMoves] /\ f[0] = start
      /\ \A j \in 1..n : f[j] = Read(r, n + 1 - j, f[j - 1])
  <2> HIDE DEF start
  <2>1. /\ f \in [0..n -> RemedyMoves] /\ f[0] = start
        /\ \A j \in 1..n : f[j] = Step[j][f[j - 1]]
    <3> HIDE DEF Step, n
    <3> QED
      BY <1>4 DEF LeadsFrom
  <2>2. \A j \in 1..n : j - 1 \in 0..n
    <3> HIDE DEF n
    <3> QED
      BY <1>1
  <2> QED
    BY <2>1, <2>2
<1> HIDE DEF Step
<1>6. from = of(from)
  <2> DEFINE g == [k \in 1..(n + 1) |-> f[n + 1 - k]]
  <2>1. \A k \in 1..(n + 1) :
          g[k] = IF k = n + 1 THEN start
                 ELSE IF k > MaxDepth \/ r.wraps[k] \in Overrides THEN "review"
                 ELSE IF r.wraps[k] \in Promotes THEN Promoted(g[k + 1])
                 ELSE g[k + 1]
    <3> TAKE k \in 1..(n + 1)
    <3>1. CASE k = n + 1
      BY <1>1, <1>5, <3>1
    <3>2. CASE k # n + 1
      <4>1. n + 1 - k \in 1..n /\ n + 1 - (n + 1 - k) = k /\ k + 1 \in 1..(n + 1)
            /\ n + 1 - (k + 1) = (n + 1 - k) - 1
        <5> HIDE DEF n
        <5> QED
          BY <1>1, <3>2
      <4>2. g[k] = f[n + 1 - k] /\ g[k + 1] = f[(n + 1 - k) - 1]
        BY <4>1
      <4>3. f[n + 1 - k] = Read(r, k, f[(n + 1 - k) - 1])
        BY <1>5, <4>1
      <4> HIDE DEF g, n, start
      <4>4. g[k] = Read(r, k, g[k + 1])
        BY <4>2, <4>3
      <4> QED
        BY <3>2, <4>4 DEF Read
    <3> QED
      BY <3>1, <3>2
  <2>2. g = of(g)
    <3> HIDE DEF start, n
    <3>1. g = [k \in 1..(n + 1) |-> g[k]]
      OBVIOUS
    <3> HIDE DEF g
    <3> QED
      BY <2>1, <3>1
  <2>3. \E h : h = of(h)
    <3> HIDE DEF g, of
    <3> QED
      BY <2>2
  <2> HIDE DEF of
  <2> QED
    BY <2>3
<1> HIDE DEF from
<1>7. \A k \in 1..n : from[k] = Read(r, k, from[k + 1])
  <2> TAKE k \in 1..n
  <2>1. k \in 1..(n + 1) /\ k # n + 1
    BY <1>1
  <2> HIDE DEF start, n
  <2> QED
    BY <1>6, <2>1 DEF Read
<1>8. from[n + 1] = start
  <2>1. n + 1 \in 1..(n + 1)
    BY <1>1
  <2> HIDE DEF start, n
  <2> QED
    BY <1>6, <2>1
<1> DEFINE h == [j \in 0..n |-> from[n + 1 - j]]
<1>9. h[0] = start /\ \A j \in 1..n : h[j] = Read(r, n + 1 - j, h[j - 1])
  <2>1. h[0] = start
    BY <1>1, <1>8
  <2>2. ASSUME NEW j \in 1..n
        PROVE  h[j] = Read(r, n + 1 - j, h[j - 1])
    <3>1. n + 1 - j \in 1..n /\ (n + 1 - j) + 1 = n + 1 - (j - 1) /\ j \in 0..n /\ j - 1 \in 0..n
      BY <1>1
    <3> HIDE DEF n
    <3> QED
      BY <1>7, <3>1
  <2> QED
    BY <2>1, <2>2
<1>10. \A j \in 0..n : h[j] \in RemedyMoves
  <2>1. \A j \in 1..n : h[j - 1] \in RemedyMoves => h[j] \in RemedyMoves
    <3> HIDE DEF h
    <3> QED
      BY <1>1, <1>3, <1>9
  <2> HIDE DEF h, n, start
  <2> QED
    BY <1>1, <1>9, <2>1, StaysIn
<1>11. h \in [0..n -> RemedyMoves] /\ Resolve(r) = h[n]
  <2>1. h[n] = from[1]
    BY <1>1
  <2>2. h = [j \in 0..n |-> h[j]]
    OBVIOUS
  <2> HIDE DEF h, n
  <2> QED
    BY <1>2, <1>10, <2>1, <2>2
<1> HIDE DEF h
<1> QED
  BY <1>9, <1>11

(* What is given up on is read as the operator's move, whatever is put in  *)
(* front of it.                                                            *)
LEMMA GivenUpIsActed ==
    ASSUME NEW r, r.wraps \in Seq(Wraps), r.core \in Cores,
           NEW k \in DOMAIN r.wraps, r.wraps[k] \in Promotes \cup Overrides
    PROVE  Resolve(r) # "watch"
<1> DEFINE n == Len(r.wraps)
           S == RemedyMoves \ {"watch"}
<1>1. n \in Nat /\ k \in 1..n
  OBVIOUS
<1>2. PICK f \in [0..n -> RemedyMoves] :
        /\ \A j \in 1..n : f[j] = Read(r, n + 1 - j, f[j - 1])
        /\ Resolve(r) = f[n]
  BY ResolveReads
<1> HIDE DEF n
<1> DEFINE g == [i \in 0..(k - 1) |-> f[i + (n + 1 - k)]]
<1>3. g[0] \in S
  <2>1. n + 1 - k \in 1..n /\ n + 1 - (n + 1 - k) = k /\ (n + 1 - k) - 1 \in 0..n
    BY <1>1
  <2>2. f[n + 1 - k] = Read(r, k, f[(n + 1 - k) - 1]) /\ f[(n + 1 - k) - 1] \in RemedyMoves
    BY <1>2, <2>1
  <2>3. f[n + 1 - k] \in S
    BY <2>2 DEF Read, Promoted, RemedyMoves
  <2>4. g[0] = f[n + 1 - k]
    BY <1>1
  <2> QED
    BY <2>3, <2>4
<1>4. \A i \in 1..(k - 1) : g[i - 1] \in S => g[i] \in S
  <2> TAKE i \in 1..(k - 1)
  <2> DEFINE j == i + (n + 1 - k)
  <2>1. j \in 1..n /\ j - 1 = (i - 1) + (n + 1 - k) /\ i - 1 \in 0..(k - 1) /\ i \in 0..(k - 1)
    BY <1>1
  <2>2. g[i] = f[j] /\ g[i - 1] = f[j - 1]
    BY <2>1
  <2> HIDE DEF g, j
  <2>3. f[j] = Read(r, n + 1 - j, f[j - 1])
    BY <1>2, <2>1
  <2> QED
    BY <2>2, <2>3 DEF Read, Promoted, RemedyMoves
<1>5. \A i \in 0..(k - 1) : g[i] \in S
  <2>1. k - 1 \in Nat
    BY <1>1
  <2> HIDE DEF g, S
  <2> QED
    BY <1>3, <1>4, <2>1, StaysIn
<1>6. k - 1 \in 0..(k - 1) /\ (k - 1) + (n + 1 - k) = n
  <2>1. k \in Int /\ 0 <= k - 1 /\ k - 1 <= k - 1
    BY <1>1
  <2>2. (k - 1) + (n + 1 - k) = n
    BY <1>1, <2>1
  <2> QED
    BY <2>1, <2>2
<1>7. g[k - 1] = f[n]
  BY <1>6
<1> HIDE DEF g
<1> QED
  BY <1>2, <1>5, <1>6, <1>7

(* What only hands a reason on leaves its advice.                          *)
LEMMA HandedOnKeeps ==
    ASSUME NEW r, r.wraps \in Seq(Wraps), r.core \in Cores, MaxDepth \in Nat,
           Len(r.wraps) <= MaxDepth, \A k \in DOMAIN r.wraps : r.wraps[k] \in Unwraps
    PROVE  Resolve(r) = CoreMove(r.core)
<1> DEFINE n == Len(r.wraps)
           S == {CoreMove(r.core)}
<1>1. n \in Nat /\ DOMAIN r.wraps = 1..n
  OBVIOUS
<1>2. PICK f \in [0..n -> RemedyMoves] :
        /\ f[0] = CoreMove(r.core)
        /\ \A j \in 1..n : f[j] = Read(r, n + 1 - j, f[j - 1])
        /\ Resolve(r) = f[n]
  BY ResolveReads
<1>3. \A j \in 1..n : f[j] = f[j - 1]
  <2> TAKE j \in 1..n
  <2>1. n + 1 - j \in 1..n /\ ~(n + 1 - j > MaxDepth)
    BY <1>1
  <2>2. r.wraps[n + 1 - j] \in Unwraps
    BY <1>1, <2>1
  <2>3. r.wraps[n + 1 - j] \notin Overrides /\ r.wraps[n + 1 - j] \notin Promotes
    BY <2>2 DEF Unwraps, Overrides, Promotes
  <2> HIDE DEF n
  <2> QED
    BY <1>2, <2>1, <2>3 DEF Read
<1>4. \A j \in 0..n : f[j] \in S
  <2>1. f[0] \in S /\ \A j \in 1..n : f[j - 1] \in S => f[j] \in S
    BY <1>2, <1>3
  <2> HIDE DEF S, n
  <2> QED
    BY <1>1, <2>1, StaysIn
<1> HIDE DEF n
<1> QED
  BY <1>1, <1>2, <1>4

LEMMA AdviceRight ==
    ASSUME RemedyTypes
    PROVE  AdviceFits
<1> SUFFICES ASSUME parked = "no"
             PROVE  /\ GivenUp => Actionable
                    /\ Advice = "answer" => live
                    /\ HandedOn => (Advice = "watch" <=> reason.core \in Table.watch)
  BY DEF AdviceFits
<1>1. reason.wraps \in Seq(Wraps) /\ reason.core \in Cores
  BY DEF RemedyTypes
<1>2. Advice = Orphaned(Resolve(reason))
  BY DEF Advice
<1>3. Advice = "watch" <=> Resolve(reason) = "watch"
  BY <1>2 DEF Orphaned
<1>4. Advice = "answer" => live
  BY <1>2 DEF Orphaned
<1>5. GivenUp => Actionable
  BY <1>1, <1>3, GivenUpIsActed DEF GivenUp, Actionable
<1>6. HandedOn => (Advice = "watch" <=> reason.core \in Table.watch)
  <2> HAVE HandedOn
  <2>1. Resolve(reason) = CoreMove(reason.core)
    BY <1>1, HandedOnKeeps, RemedyAssumption DEF HandedOn
  <2> QED
    BY <1>1, <1>3, <2>1, CoresMove
<1> QED
  BY <1>4, <1>5, <1>6

(* What was given up on is never advised as nothing to do, whatever is put *)
(* in front of it; nobody is told to answer a session that is gone; and a  *)
(* reason that was only handed on keeps its advice, as deep as reasons are *)
(* read (remedy/parse.rs: resolve_at).                                     *)
THEOREM AdviceStandsWrapped == RemedySpec => []AdviceFits
<1>1. RemedyInit => RemedyTypes
  <2> SUFFICES ASSUME RemedyInit
               PROVE  RemedyTypes
    OBVIOUS
  <2>1. << >> \in Seq(Wraps)
    OBVIOUS
  <2> QED
    BY <2>1 DEF RemedyInit, RemedyTypes
<1>2. RemedyTypes /\ [RemedyStep]_remedyVars => RemedyTypes'
  <2> SUFFICES ASSUME RemedyTypes, [RemedyStep]_remedyVars
               PROVE  RemedyTypes'
    OBVIOUS
  <2>1. CASE Wrapped
    <3>1. PICK w \in Wraps : reason' = [reason EXCEPT !.wraps = <<w>> \o @]
      BY <2>1 DEF Wrapped
    <3> DEFINE q == <<w>> \o reason.wraps
    <3>2. q \in Seq(Wraps)
      BY DEF RemedyTypes
    <3>3. reason' = [reason EXCEPT !.wraps = q]
      BY <3>1
    <3> HIDE DEF q
    <3> QED
      BY <2>1, <3>2, <3>3 DEF Wrapped, RemedyTypes
  <2>2. CASE SessionDies
    BY <2>2 DEF SessionDies, RemedyTypes
  <2>3. CASE UNCHANGED remedyVars
    BY <2>3 DEF remedyVars, RemedyTypes
  <2> QED
    BY <2>1, <2>2, <2>3 DEF RemedyStep
<1>3. RemedyTypes => AdviceFits
  BY AdviceRight
<1> QED
  BY <1>1, <1>2, <1>3, PTL DEF RemedySpec

-----------------------------------------------------------------------------
(* Lists kept in part                                                      *)

(* What is kept of each beginning of a list.                               *)
KeptParts(kept, s, S, T) ==
    /\ kept \in [0..Len(s) -> Seq(T)] /\ kept[0] = <<>>
    /\ \A n \in 1..Len(s) :
          kept[n] = IF s[n] \in S THEN Append(kept[n - 1], s[n]) ELSE kept[n - 1]

LEMMA KeepingSolves ==
    ASSUME NEW T, NEW s \in Seq(T), NEW S
    PROVE  \E kept : KeptParts(kept, s, S, T) /\ Keeping(s, S) = kept[Len(s)]
<1> DEFINE L == Len(s)
           next(n, k) == IF s[n] \in S THEN Append(k, s[n]) ELSE k
           Step == [n \in 1..L |-> [k \in Seq(T) |-> next(n, k)]]
           E == <<>>
           of(kept) == [n \in 0..L |->
                          IF n = 0 THEN <<>> ELSE next(n, kept[n - 1])]
           after == CHOOSE kept : kept = of(kept)
<1>1. L \in Nat /\ E \in Seq(T)
  OBVIOUS
<1>2. Step \in StepsOn(Seq(T), L)
  <2>1. \A n \in 1..L, k \in Seq(T) : next(n, k) \in Seq(T)
    OBVIOUS
  <2> HIDE DEF next
  <2> QED BY <2>1 DEF StepsOn
<1>3. PICK f : LeadsFrom(E, f, Step, Seq(T), L)
  <2> HIDE DEF Step, L, E
  <2> QED BY <1>1, <1>2, Recurs
<1>4. /\ f \in [0..L -> Seq(T)] /\ f[0] = <<>>
      /\ \A n \in 1..L : f[n] = next(n, f[n - 1])
  <2>1. /\ f \in [0..L -> Seq(T)] /\ f[0] = <<>>
        /\ \A n \in 1..L : f[n] = Step[n][f[n - 1]]
    <3> HIDE DEF Step
    <3> QED BY <1>3 DEF LeadsFrom
  <2>2. \A n \in 1..L : n - 1 \in 0..L /\ f[n - 1] \in Seq(T)
    <3> HIDE DEF Step
    <3> QED BY <1>1, <2>1
  <2> HIDE DEF next
  <2> QED BY <2>1, <2>2
<1>5. f = of(f)
  <2> HIDE DEF L, next, E
  <2> \A n \in 0..L : f[n] = IF n = 0 THEN <<>> ELSE next(n, f[n - 1])
    <3> TAKE n \in 0..L
    <3> CASE n = 0
      BY <1>4
    <3> CASE n # 0
      <4> n \in 1..L
        BY <1>1
      <4> QED BY <1>4
    <3> QED OBVIOUS
  <2> QED BY <1>4
<1>6. after = of(after)
  <2> HIDE DEF of
  <2> QED BY <1>5
<1>7. Keeping(s, S) = after[L]
  BY DEF Keeping
<1> HIDE DEF after
<1>8. /\ after \in [0..L -> Seq(T)] /\ after[0] = <<>>
      /\ \A n \in 1..L : after[n] = next(n, after[n - 1])
  <2>1. after[0] = <<>> /\ \A n \in 1..L : after[n] = next(n, after[n - 1])
    <3> HIDE DEF L, next
    <3>1. 0 \in 0..L
      BY <1>1
    <3>2. after[0] = <<>>
      BY <1>6, <3>1
    <3>3. ASSUME NEW n \in 1..L PROVE after[n] = next(n, after[n - 1])
      <4> n \in 0..L /\ n # 0
        BY <1>1
      <4> QED BY <1>6
    <3> QED BY <3>2, <3>3
  <2>2. \A n \in 0..L : after[n] \in Seq(T)
    <3>0. \A n \in 1..L, k \in Seq(T) : next(n, k) \in Seq(T)
      OBVIOUS
    <3>1. \A n \in 1..L : after[n - 1] \in Seq(T) => after[n] \in Seq(T)
      <4> HIDE DEF next, L
      <4> QED BY <2>1, <3>0
    <3>2. after[0] \in Seq(T)
      BY <1>1, <2>1
    <3> HIDE DEF L, next
    <3> QED BY <1>1, <3>1, <3>2, StaysIn
  <2>3. after = [n \in 0..L |-> after[n]]
    BY <1>6
  <2> QED BY <2>1, <2>2, <2>3
<1>9. KeptParts(after, s, S, T)
  BY <1>8 DEF KeptParts
<1> QED BY <1>7, <1>9

(* They are members of the list, and of the set.                           *)
LEMMA KeptIn ==
    ASSUME NEW T, NEW s \in Seq(T), NEW S
    PROVE  Keeping(s, S) \in Seq(T \cap S)
<1>0. PICK kept : KeptParts(kept, s, S, T) /\ Keeping(s, S) = kept[Len(s)]
  BY KeepingSolves
<1>1. /\ kept \in [0..Len(s) -> Seq(T)] /\ kept[0] = <<>>
      /\ \A n \in 1..Len(s) :
            kept[n] = IF s[n] \in S THEN Append(kept[n - 1], s[n]) ELSE kept[n - 1]
  BY <1>0 DEF KeptParts
<1>2. kept[0] \in Seq(T \cap S)
  BY <1>1
<1>3. ASSUME NEW n \in 1..Len(s), kept[n - 1] \in Seq(T \cap S)
      PROVE  kept[n] \in Seq(T \cap S)
  <2>1. s[n] \in T
    OBVIOUS
  <2>2. CASE s[n] \in S
    <3>1. kept[n] = Append(kept[n - 1], s[n])
      BY <1>1, <2>2
    <3> QED BY <1>3, <2>1, <2>2, <3>1
  <2>3. CASE s[n] \notin S
    BY <1>1, <1>3, <2>3
  <2> QED BY <2>2, <2>3
<1>4. Len(s) \in Nat /\ Len(s) \in 0..Len(s)
  OBVIOUS
<1>5. \A n \in 0..Len(s) : kept[n] \in Seq(T \cap S)
  BY <1>2, <1>3, <1>4, StaysIn
<1> QED BY <1>0, <1>4, <1>5

(* What is in the list once is kept once.                                  *)
LEMMA KeptOnce ==
    ASSUME NEW T, NEW s \in Seq(T), IsInjective(s), NEW S
    PROVE  IsInjective(Keeping(s, S))
<1>0. PICK kept : KeptParts(kept, s, S, T) /\ Keeping(s, S) = kept[Len(s)]
  BY KeepingSolves
<1>1. /\ kept \in [0..Len(s) -> Seq(T)] /\ kept[0] = <<>>
      /\ \A n \in 1..Len(s) :
            kept[n] = IF s[n] \in S THEN Append(kept[n - 1], s[n]) ELSE kept[n - 1]
  BY <1>0 DEF KeptParts
<1> DEFINE Fits(k, n) == /\ IsInjective(k)
                         /\ \A i \in DOMAIN k : \E j \in 1..n : k[i] = s[j]
           Good == {r \in [at : 0..Len(s), list : Seq(T)] : Fits(r.list, r.at)}
           f == [n \in 0..Len(s) |-> [at |-> n, list |-> kept[n]]]
<1>2. Len(s) \in Nat /\ 0 \in 0..Len(s) /\ Len(s) \in 0..Len(s)
  OBVIOUS
<1>3. \A n \in 0..Len(s) : f[n] \in Good <=> Fits(kept[n], n)
  <2> HIDE DEF Fits
  <2> QED BY <1>1
<1>4. Fits(kept[0], 0)
  BY <1>1 DEF IsInjective
<1>5. ASSUME NEW n \in 1..Len(s), Fits(kept[n - 1], n - 1)
      PROVE  Fits(kept[n], n)
  <2>1. n - 1 \in 0..Len(s) /\ n \in Nat /\ n \in DOMAIN s
    BY <1>2
  <2> DEFINE k == kept[n - 1]
  <2>2. /\ k \in Seq(T) /\ s[n] \in T /\ IsInjective(k)
        /\ \A i \in DOMAIN k : \E j \in 1..(n - 1) : k[i] = s[j]
    <3>1. IsInjective(k) /\ \A i \in DOMAIN k : \E j \in 1..(n - 1) : k[i] = s[j]
      BY <1>5
    <3>2. k \in Seq(T) /\ s[n] \in T
      BY <1>1, <2>1
    <3> HIDE DEF k
    <3> QED BY <3>1, <3>2
  <2>3. kept[n] = IF s[n] \in S THEN Append(k, s[n]) ELSE k
    BY <1>1
  <2> HIDE DEF k
  <2>4. \A i \in DOMAIN k : k[i] # s[n]
    <3> SUFFICES ASSUME NEW i \in DOMAIN k, k[i] = s[n] PROVE FALSE
      OBVIOUS
    <3>1. PICK j \in 1..(n - 1) : k[i] = s[j]
      BY <2>2
    <3>2. j \in DOMAIN s /\ j # n /\ s[j] = s[n]
      BY <3>1, <2>1
    <3> QED BY <3>2, <2>1 DEF IsInjective
  <2>5. \A i \in DOMAIN k : \E j \in 1..n : k[i] = s[j]
    BY <2>1, <2>2
  <2>6. CASE s[n] \in S
    <3>1. kept[n] = Append(k, s[n])
      BY <2>3, <2>6
    <3>2. /\ DOMAIN Append(k, s[n]) = 1..(Len(k) + 1)
          /\ \A i \in DOMAIN k : Append(k, s[n])[i] = k[i]
          /\ Append(k, s[n])[Len(k) + 1] = s[n]
          /\ \A i \in 1..(Len(k) + 1) : i \in DOMAIN k \/ i = Len(k) + 1
      BY <2>2
    <3>3. IsInjective(Append(k, s[n]))
      BY <2>2, <2>4, <3>2 DEF IsInjective
    <3>4. \A i \in DOMAIN Append(k, s[n]) : \E j \in 1..n : Append(k, s[n])[i] = s[j]
      BY <2>1, <2>5, <3>2
    <3> QED BY <3>1, <3>3, <3>4
  <2>7. CASE s[n] \notin S
    BY <2>2, <2>3, <2>5, <2>7
  <2> QED BY <2>6, <2>7
<1>6. \A n \in 1..Len(s) : f[n - 1] \in Good => f[n] \in Good
  <2> HIDE DEF Fits, Good, f
  <2> \A n \in 1..Len(s) : n \in 0..Len(s) /\ n - 1 \in 0..Len(s)
    BY <1>2
  <2> QED BY <1>3, <1>5
<1>7. f[Len(s)] \in Good
  <2>1. f[0] \in Good
    <3> HIDE DEF Fits, Good, f
    <3> QED BY <1>2, <1>3, <1>4
  <2> HIDE DEF Fits, Good, f
  <2>2. \A n \in 0..Len(s) : f[n] \in Good
    BY <1>2, <1>6, <2>1, StaysIn
  <2> QED BY <1>2, <2>2
<1>8. Fits(kept[Len(s)], Len(s))
  <2> HIDE DEF Fits, Good, f
  <2> QED BY <1>2, <1>3, <1>7
<1> QED BY <1>0, <1>8

(* A set of numbers up to some number has a greatest.                      *)
LEMMA GreatestOf ==
    ASSUME NEW L \in Nat, NEW S, S \subseteq 1..L, S # {}
    PROVE  \E x \in S : \A y \in S : y <= x
<1> DEFINE D == {L - x : x \in S}
<1>1. D \subseteq Nat /\ D # {}
  <2>1. \A x \in S : L - x \in Nat
    OBVIOUS
  <2>2. D # {}
    OBVIOUS
  <2> QED BY <2>1, <2>2
<1>2. PICK d \in D : \A e \in D : d <= e
  <2> HIDE DEF D
  <2> QED BY <1>1, LeastOf
<1>3. PICK x \in S : d = L - x
  OBVIOUS
<1>4. \A y \in S : L - x <= L - y
  BY <1>2, <1>3
<1> QED BY <1>4

-----------------------------------------------------------------------------
(* The registry of repositories and agents                                 *)

Places == Paths \cup {Nothing}
RowsOf(A) == {s \in Seq(A) : IsInjective(s)}
NodesOf(A) == [path : Places, pinned : BOOLEAN, rows : RowsOf(A)]
RegistriesOf(A) == Seq(NodesOf(A))

(* What only grows may be in every list.                                   *)
LEMMA RowsGrow ==
    ASSUME NEW A, NEW B, A \subseteq B
    PROVE  RegistriesOf(A) \subseteq RegistriesOf(B)
<1>1. \A s \in Seq(A) : s \in Seq(B)
  OBVIOUS
<1>2. RowsOf(A) \subseteq RowsOf(B)
  BY <1>1 DEF RowsOf
<1>3. NodesOf(A) \subseteq NodesOf(B)
  BY <1>2 DEF NodesOf
<1> HIDE DEF NodesOf
<1> QED BY <1>3 DEF RegistriesOf

LEMMA NodeOfRegistry ==
    ASSUME NEW A, NEW R \in RegistriesOf(A), NEW i \in DOMAIN R
    PROVE  /\ R[i] \in NodesOf(A) /\ R[i].path \in Places /\ R[i].pinned \in BOOLEAN
           /\ R[i].rows \in Seq(A) /\ IsInjective(R[i].rows)
<1>1. R[i] \in NodesOf(A)
  BY DEF RegistriesOf
<1> QED BY <1>1 DEF NodesOf, RowsOf

(* One node of a list given another row list.                              *)
LEMMA NodeChanged ==
    ASSUME NEW A, NEW R \in RegistriesOf(A), NEW i \in DOMAIN R, NEW n \in NodesOf(A)
    PROVE  [R EXCEPT ![i] = n] \in RegistriesOf(A)
BY DEF RegistriesOf

(* Where a path is found there is a node of it.                            *)
LEMMA FindsNode ==
    ASSUME NEW A, NEW R \in RegistriesOf(A), NEW p, Find(R, p) # 0
    PROVE  Find(R, p) \in DOMAIN R /\ R[Find(R, p)].path = p
<1>1. At(R, p) # {} /\ At(R, p) \subseteq Nat
  BY DEF Find, At, RegistriesOf
<1>2. \E i \in At(R, p) : \A j \in At(R, p) : i <= j
  BY <1>1, LeastOf
<1>3. Find(R, p) \in At(R, p)
  BY <1>1, <1>2 DEF Find
<1> QED BY <1>3 DEF At

LEMMA WithoutKeeps ==
    ASSUME NEW A, NEW R \in RegistriesOf(A), NEW a
    PROVE  Without(R, a) \in RegistriesOf(A)
<1> DEFINE g(i) == [R[i] EXCEPT !.rows = Keeping(R[i].rows, Range(Agents) \ {a})]
<1>1. ASSUME NEW i \in DOMAIN R PROVE g(i) \in NodesOf(A)
  <2>1. R[i] \in NodesOf(A) /\ R[i].rows \in Seq(A) /\ IsInjective(R[i].rows)
    BY NodeOfRegistry
  <2> DEFINE k == Keeping(R[i].rows, Range(Agents) \ {a})
  <2>2. k \in Seq(A \cap (Range(Agents) \ {a})) /\ IsInjective(k)
    BY <2>1, KeptIn, KeptOnce
  <2> HIDE DEF k
  <2>3. k \in RowsOf(A)
    BY <2>2 DEF RowsOf
  <2>4. [R[i] EXCEPT !.rows = k] \in NodesOf(A)
    BY <2>1, <2>3 DEF NodesOf
  <2> QED BY <2>4 DEF k
<1>2. Without(R, a) = [i \in DOMAIN R |-> g(i)]
  BY DEF Without
<1> HIDE DEF g
<1>3. R \in Seq(NodesOf(A))
  BY DEF RegistriesOf
<1> QED BY <1>1, <1>2, <1>3 DEF RegistriesOf

LEMMA PinKeeps ==
    ASSUME NEW A, NEW R \in RegistriesOf(A), NEW p \in Places
    PROVE  AddPinned(R, p) \in RegistriesOf(A)
<1>1. CASE Find(R, p) = 0
  <2>1. Node(p, TRUE, <<>>) \in NodesOf(A)
    BY DEF Node, NodesOf, RowsOf, IsInjective
  <2> DEFINE n == Node(p, TRUE, <<>>)
  <2> HIDE DEF NodesOf, n
  <2>2. n \in NodesOf(A) /\ R \in Seq(NodesOf(A))
    BY <2>1 DEF RegistriesOf, n
  <2>3. Append(R, n) \in RegistriesOf(A)
    BY <2>2 DEF RegistriesOf
  <2> QED BY <1>1, <2>3 DEF AddPinned, n
<1>2. CASE Find(R, p) # 0
  <2> DEFINE i == Find(R, p)
  <2>1. i \in DOMAIN R
    BY <1>2, FindsNode
  <2> HIDE DEF i
  <2>2. R[i] \in NodesOf(A)
    BY <2>1, NodeOfRegistry
  <2>3. [R[i] EXCEPT !.pinned = TRUE] \in NodesOf(A)
    BY <2>2 DEF NodesOf
  <2>4. [R EXCEPT ![i].pinned = TRUE] \in RegistriesOf(A)
    BY <2>1, <2>3, NodeChanged
  <2> QED BY <1>2, <2>4 DEF AddPinned, i
<1> QED BY <1>1, <1>2

LEMMA RenameKeeps ==
    ASSUME NEW A, NEW R \in RegistriesOf(A), NEW p \in Places, NEW q \in Places
    PROVE  ApplyRename(R, p, q) \in RegistriesOf(A)
<1>1. CASE Find(R, p) = 0
  BY <1>1 DEF ApplyRename
<1>2. CASE Find(R, p) # 0
  <2> DEFINE i == Find(R, p)
  <2>1. i \in DOMAIN R
    BY <1>2, FindsNode
  <2> HIDE DEF i
  <2>2. R[i] \in NodesOf(A)
    BY <2>1, NodeOfRegistry
  <2>3. [R[i] EXCEPT !.path = q] \in NodesOf(A)
    BY <2>2 DEF NodesOf
  <2>4. [R EXCEPT ![i].path = q] \in RegistriesOf(A)
    BY <2>1, <2>3, NodeChanged
  <2> QED BY <1>2, <2>4 DEF ApplyRename, i
<1> QED BY <1>1, <1>2

(* A row written where no row of its agent can be.                         *)
LEMMA PushKeeps ==
    ASSUME NEW A, NEW R \in RegistriesOf(A), NEW p, NEW a, a \notin A
    PROVE  PushRow(R, p, a) \in RegistriesOf(A \cup {a})
<1> DEFINE B == A \cup {a}
<1>0. R \in RegistriesOf(B)
  BY RowsGrow
<1>1. CASE Find(R, p) = 0
  BY <1>0, <1>1 DEF PushRow
<1>2. CASE Find(R, p) # 0
  <2> DEFINE i == Find(R, p)
  <2>1. i \in DOMAIN R
    BY <1>2, FindsNode
  <2> HIDE DEF i
  <2>2. R[i] \in NodesOf(A) /\ R[i].rows \in Seq(A) /\ IsInjective(R[i].rows)
    BY <2>1, NodeOfRegistry
  <2> DEFINE s == R[i].rows
  <2> HIDE DEF s
  <2>3. s \in Seq(A) /\ IsInjective(s)
    BY <2>2 DEF s
  <2>4. Append(s, a) \in Seq(B) /\ IsInjective(Append(s, a))
    BY <2>3 DEF IsInjective
  <2>5. Append(s, a) \in RowsOf(B)
    BY <2>4 DEF RowsOf
  <2>6. R[i] \in NodesOf(B)
    BY <1>0, <2>1, NodeOfRegistry
  <2>7. [R[i] EXCEPT !.rows = Append(s, a)] \in NodesOf(B)
    BY <2>5, <2>6 DEF NodesOf
  <2>8. [R EXCEPT ![i].rows = Append(s, a)] \in RegistriesOf(B)
    BY <1>0, <2>1, <2>7, NodeChanged
  <2> QED BY <1>2, <2>8 DEF PushRow, i, s
<1> QED BY <1>1, <1>2

LEMMA PersistKeeps ==
    ASSUME NEW A, NEW R \in RegistriesOf(A), NEW p, NEW a, a \notin A
    PROVE  PersistChild(R, p, a) \in RegistriesOf(A \cup {a})
<1>1. R \in RegistriesOf(A \cup {a})
  BY RowsGrow
<1>2. PushRow(R, p, a) \in RegistriesOf(A \cup {a})
  BY PushKeeps
<1>3. PersistChild(R, p, a) = R \/ PersistChild(R, p, a) = PushRow(R, p, a)
  BY DEF PersistChild, PushRow
<1> QED BY <1>1, <1>2, <1>3

LEMMA AdoptKeeps ==
    ASSUME NEW A, NEW R \in RegistriesOf(A), NEW D \in RegistriesOf(A)
    PROVE  AdoptStored(R, D) \in RegistriesOf(A)
<1> DEFINE g(n) == LET i == Find(D, R[n].path)
                   IN IF i = 0 THEN R[n] ELSE [R[n] EXCEPT !.rows = D[i].rows]
<1>1. ASSUME NEW n \in DOMAIN R PROVE g(n) \in NodesOf(A)
  <2>1. R[n] \in NodesOf(A)
    BY NodeOfRegistry
  <2>2. CASE Find(D, R[n].path) = 0
    BY <2>1, <2>2
  <2>3. CASE Find(D, R[n].path) # 0
    <3> DEFINE i == Find(D, R[n].path)
    <3>1. i \in DOMAIN D
      BY <2>3, FindsNode
    <3> HIDE DEF i
    <3>2. D[i] \in NodesOf(A)
      BY <3>1, NodeOfRegistry
    <3>3. [R[n] EXCEPT !.rows = D[i].rows] \in NodesOf(A)
      BY <2>1, <3>2 DEF NodesOf
    <3> QED BY <2>3, <3>3 DEF i
  <2> HIDE DEF g
  <2> QED BY <2>2, <2>3
<1>2. AdoptStored(R, D) = [n \in DOMAIN R |-> g(n)]
  BY DEF AdoptStored
<1> HIDE DEF g
<1>3. R \in Seq(NodesOf(A))
  BY DEF RegistriesOf
<1> QED BY <1>1, <1>2, <1>3 DEF RegistriesOf

(* A scan adds rows of agents that the node has none of.                   *)
LEMMA ReconcileKeeps ==
    ASSUME NEW A, NEW R \in RegistriesOf(A), trees \ young \subseteq A
    PROVE  ReconcileRows(R) \in RegistriesOf(A)
<1> DEFINE g(i) == [R[i] EXCEPT !.rows = @ \o UnknownTrees(R[i])]
<1>1. ASSUME NEW i \in DOMAIN R PROVE g(i) \in NodesOf(A)
  <2> DEFINE s == R[i].rows
             u == UnknownTrees(R[i])
  <2>1. R[i] \in NodesOf(A) /\ s \in Seq(A) /\ IsInjective(s)
    BY NodeOfRegistry
  <2>2. /\ u \in Seq(A) /\ IsInjective(u)
        /\ \A x \in DOMAIN u : u[x] \notin Range(s)
    <3> DEFINE S == trees \ (young \cup Range(s))
    <3> HIDE DEF S
    <3>1. CASE u = <<>>
      BY <3>1 DEF IsInjective
    <3>2. CASE u = Keeping(Agents, S)
      <4>1. u \in Seq(Range(Agents) \cap S) /\ IsInjective(u)
        BY <3>2, RegistryAssumption, KeptIn, KeptOnce
      <4> HIDE DEF u
      <4>2. \A x \in DOMAIN u : u[x] \in S
        BY <4>1
      <4>3. \A x \in DOMAIN u : u[x] \in A /\ u[x] \notin Range(s)
        BY <4>2 DEF S
      <4>4. u \in Seq(A)
        BY <4>1, <4>3
      <4> QED BY <4>1, <4>3, <4>4
    <3>3. u = <<>> \/ u = Keeping(Agents, S)
      BY DEF UnknownTrees, S
    <3> QED BY <3>1, <3>2, <3>3
  <2> HIDE DEF s, u
  <2>3. \A x \in DOMAIN s, y \in DOMAIN u : s[x] # u[y]
    BY <2>2 DEF Range
  <2>4. s \o u \in Seq(A) /\ IsInjective(s \o u)
    <3>1. s \o u \in Seq(A)
      BY <2>1, <2>2
    <3>2. \A x \in DOMAIN (s \o u) :
             \/ x \in DOMAIN s /\ (s \o u)[x] = s[x]
             \/ x - Len(s) \in DOMAIN u /\ (s \o u)[x] = u[x - Len(s)]
                /\ x \in Nat
      BY <2>1, <2>2
    <3>3. Len(s) \in Nat
      BY <2>1
    <3>4. ASSUME NEW x \in DOMAIN (s \o u), NEW y \in DOMAIN (s \o u),
                 (s \o u)[x] = (s \o u)[y]
          PROVE  x = y
      <4> DEFINE t == s \o u
      <4> HIDE DEF t
      <4>1. CASE x \in DOMAIN s /\ t[x] = s[x]
        BY <2>1, <2>3, <3>2, <3>4, <4>1 DEF IsInjective, t
      <4>2. CASE x - Len(s) \in DOMAIN u /\ t[x] = u[x - Len(s)] /\ x \in Nat
        <5>1. y - Len(s) \in DOMAIN u /\ t[y] = u[y - Len(s)] /\ y \in Nat
          BY <2>3, <3>2, <3>4, <4>2 DEF t
        <5>2. x - Len(s) = y - Len(s)
          BY <2>2, <3>4, <4>2, <5>1 DEF IsInjective, t
        <5> QED BY <3>3, <4>2, <5>1, <5>2
      <4> QED BY <3>2, <4>1, <4>2 DEF t
    <3> QED BY <3>1, <3>4 DEF IsInjective
  <2>5. s \o u \in RowsOf(A)
    BY <2>4 DEF RowsOf
  <2>6. [R[i] EXCEPT !.rows = s \o u] \in NodesOf(A)
    BY <2>1, <2>5 DEF NodesOf
  <2>7. [R[i] EXCEPT !.rows = @ \o UnknownTrees(R[i])] = [R[i] EXCEPT !.rows = s \o u]
    BY DEF s, u
  <2> QED BY <2>6, <2>7
<1>2. ReconcileRows(R) = [i \in DOMAIN R |-> g(i)]
  BY DEF ReconcileRows
<1> HIDE DEF g
<1>3. R \in Seq(NodesOf(A))
  BY DEF RegistriesOf
<1> QED BY <1>1, <1>2, <1>3 DEF RegistriesOf

LEMMA MergeKeeps ==
    ASSUME NEW A, NEW R \in RegistriesOf(A), NEW S
    PROVE  MergeDiscovered(R, S) \in RegistriesOf(A)
<1> DEFINE Known(p) == At(R, p) # {}
           Newest(p) == R[CHOOSE i \in At(R, p) : \A j \in At(R, p) : j <= i]
           found == Keeping(PathOrder, S)
           rest == {p \in Paths \ S : Known(p) /\ (Newest(p).pinned \/ Newest(p).rows # <<>>)}
           kept == Keeping(PathOrder, rest)
           first == [i \in DOMAIN found |-> IF Known(found[i]) THEN Newest(found[i])
                                            ELSE Node(found[i], FALSE, <<>>)]
           second == [i \in DOMAIN kept |-> Newest(kept[i])]
<1>1. ASSUME NEW p, Known(p) PROVE Newest(p) \in NodesOf(A)
  <2>1. At(R, p) \subseteq 1..Len(R) /\ Len(R) \in Nat
    BY DEF At, RegistriesOf
  <2>2. \E i \in At(R, p) : \A j \in At(R, p) : j <= i
    BY <1>1, <2>1, GreatestOf
  <2>3. (CHOOSE i \in At(R, p) : \A j \in At(R, p) : j <= i) \in DOMAIN R
    BY <2>2 DEF At
  <2> QED BY <2>3, NodeOfRegistry
<1> HIDE DEF Newest
<1>2. found \in Seq(Paths \cap S) /\ kept \in Seq(Paths \cap rest)
  <2> HIDE DEF rest
  <2> QED BY RegistryAssumption, KeptIn
<1>3. ASSUME NEW p \in Places PROVE Node(p, FALSE, <<>>) \in NodesOf(A)
  BY DEF Node, NodesOf, RowsOf, IsInjective
<1>4. first \in Seq(NodesOf(A))
  <2> HIDE DEF found, Known, NodesOf
  <2>1. \A i \in DOMAIN found : found[i] \in Places
    BY <1>2 DEF Places
  <2> DEFINE g(i) == IF Known(found[i]) THEN Newest(found[i])
                     ELSE Node(found[i], FALSE, <<>>)
  <2>2. \A i \in DOMAIN found : g(i) \in NodesOf(A)
    BY <1>1, <1>3, <2>1
  <2>3. first = [i \in DOMAIN found |-> g(i)]
    OBVIOUS
  <2> HIDE DEF g, first
  <2>4. found \in Seq(Paths)
    BY <1>2
  <2> QED BY <2>2, <2>3, <2>4
<1>5. second \in Seq(NodesOf(A))
  <2>1. \A i \in DOMAIN kept : Known(kept[i])
    <3> HIDE DEF kept, Known
    <3> QED BY <1>2
  <2> HIDE DEF kept, Known, NodesOf
  <2>2. \A i \in DOMAIN kept : second[i] \in NodesOf(A)
    BY <1>1, <2>1
  <2> HIDE DEF rest
  <2>3. kept \in Seq(Paths)
    BY <1>2
  <2> QED BY <2>2, <2>3
<1>6. MergeDiscovered(R, S) = first \o second
  BY DEF MergeDiscovered, Newest
<1> HIDE DEF first, second, NodesOf
<1> QED BY <1>4, <1>5, <1>6 DEF RegistriesOf

(* A row taken out of the middle.                                          *)
LEMMA RemoveKeeps ==
    ASSUME NEW A, NEW s \in Seq(A), IsInjective(s), NEW j \in DOMAIN s
    PROVE  /\ RemoveAt(s, j) \in Seq(A) /\ IsInjective(RemoveAt(s, j))
           /\ DOMAIN RemoveAt(s, j) = 1..(Len(s) - 1)
           /\ \A x \in 1..(Len(s) - 1) :
                 RemoveAt(s, j)[x] = IF x < j THEN s[x] ELSE s[x + 1]
<1> DEFINE b == SubSeq(s, 1, j - 1)
           e == SubSeq(s, j + 1, Len(s))
           t == b \o e
<1>0. j \in 1..Len(s) /\ Len(s) \in Nat
  OBVIOUS
<1>1. b \in Seq(A) /\ Len(b) = j - 1 /\ \A x \in 1..(j - 1) : b[x] = s[x]
  BY <1>0
<1>2. e \in Seq(A) /\ Len(e) = Len(s) - j /\ \A x \in 1..(Len(s) - j) : e[x] = s[j + x]
  BY <1>0
<1> HIDE DEF b, e
<1>3. t \in Seq(A) /\ DOMAIN t = 1..(Len(s) - 1)
  <2>1. t \in Seq(A) /\ Len(t) = Len(b) + Len(e)
    <3>1. b \in Seq(A) /\ e \in Seq(A)
      BY <1>1, <1>2
    <3> QED BY <3>1, ConcatProperties
  <2> HIDE DEF t
  <2>2. Len(t) = Len(s) - 1
    BY <1>0, <1>1, <1>2, <2>1
  <2> QED BY <2>1, <2>2
<1>4. \A x \in 1..(Len(s) - 1) : t[x] = IF x < j THEN b[x] ELSE e[x - (j - 1)]
  <2>1. \A x \in 1..(Len(b) + Len(e)) : t[x] = IF x <= Len(b) THEN b[x] ELSE e[x - Len(b)]
    <3>1. b \in Seq(A) /\ e \in Seq(A)
      BY <1>1, <1>2
    <3> QED BY <3>1, ConcatProperties
  <2> HIDE DEF t
  <2> TAKE x \in 1..(Len(s) - 1)
  <2>2. Len(b) + Len(e) = Len(s) - 1 /\ Len(b) = j - 1 /\ (x <= Len(b) <=> x < j)
    BY <1>0, <1>1, <1>2
  <2>3. t[x] = IF x <= Len(b) THEN b[x] ELSE e[x - Len(b)]
    BY <2>1, <2>2
  <2> QED BY <2>2, <2>3
<1>5. \A x \in 1..(Len(s) - 1) : t[x] = IF x < j THEN s[x] ELSE s[x + 1]
  <2> HIDE DEF t
  <2> TAKE x \in 1..(Len(s) - 1)
  <2>1. CASE x < j
    BY <1>0, <1>1, <1>4, <2>1
  <2>2. CASE ~(x < j)
    <3>1. x - (j - 1) \in 1..(Len(s) - j) /\ j + (x - (j - 1)) = x + 1
      BY <1>0, <2>2
    <3> QED BY <1>2, <1>4, <2>2, <3>1
  <2> QED BY <2>1, <2>2
<1>6. RemoveAt(s, j) = t
  BY DEF RemoveAt, b, e
<1> HIDE DEF t
<1>7. IsInjective(t)
  <2>1. ASSUME NEW x \in 1..(Len(s) - 1), NEW y \in 1..(Len(s) - 1), t[x] = t[y]
        PROVE  x = y
    <3> DEFINE of(z) == IF z < j THEN z ELSE z + 1
    <3>1. of(x) \in DOMAIN s /\ of(y) \in DOMAIN s /\ s[of(x)] = s[of(y)]
      BY <1>0, <1>5, <2>1
    <3>2. of(x) = of(y)
      <4> HIDE DEF of
      <4> QED BY <3>1 DEF IsInjective
    <3> QED BY <1>0, <3>2
  <2> QED BY <1>3, <2>1 DEF IsInjective
<1> QED BY <1>3, <1>5, <1>6, <1>7

-----------------------------------------------------------------------------
(* One row each, and the dialogs                                           *)

(* Agents whose launch is over; only they may have rows.                   *)
RowHolders == {a \in Range(Agents) : launch[a].by = "over"}

RegistryTypes ==
    /\ launch \in [Range(Agents) -> [by : {Nothing, "ui", "spawn", "over"}, path : Places]]
    /\ rename \in [by : {Nothing, "ui", "tool"}, from : Places, to : Places]
    /\ clone \in [by : {Nothing, "ui", "tool"}, path : Places]
    /\ dialog \in [agent : Range(Agents) \cup {Nothing}, node : Nat, row : Nat]
    /\ trees \subseteq Range(Agents)

(* Every copy of the file, kept or on its way, has one row for an agent at *)
(* most in a repository, and only of agents whose launch is over.          *)
CopiesFit ==
    /\ disk \in RegistriesOf(RowHolders) /\ mem \in RegistriesOf(RowHolders)
    /\ scan \in [at : {Nothing, "load", "look", "done"}, base : RegistriesOf(RowHolders),
                 result : RegistriesOf(RowHolders), save : BOOLEAN]
    /\ saves \in Seq([registry : RegistriesOf(RowHolders), base : RegistriesOf(RowHolders)])

(* A worktree is of a launch that began, and within its grace period while *)
(* the launch goes on: no scan takes it for one that nobody knows.         *)
LaunchesFit ==
    /\ \A a \in trees : launch[a].by # Nothing
    /\ \A a \in Range(Agents) : launch[a].by \in {"ui", "spawn"} => a \in young

RegistryInv == RegistryTypes /\ CopiesFit /\ LaunchesFit

(* What is known of the constants, for the provers.                        *)
LEMMA Registered ==
    /\ Agents \in Seq(Range(Agents)) /\ Residents \in Seq(Range(Agents))
    /\ IsInjective(Residents) /\ PathOrder \in Seq(Paths) /\ Home \in Paths
    /\ Nothing \notin Range(Agents)
<1>1. PathOrder \in Seq(Paths) /\ PathOrder # <<>>
  BY RegistryAssumption
<1>2. Home \in Paths
  BY <1>1 DEF Home
<1> QED BY <1>2, RegistryAssumption

LEMMA RegistryStarts ==
    ASSUME RegistryInit PROVE RegistryInv
<1>1. launch = [a \in Range(Agents) |-> IF a \in Range(Residents) THEN Over ELSE NoLaunch]
      /\ trees = Range(Residents) /\ Range(Residents) \subseteq Range(Agents)
  BY Registered DEF RegistryInit, Range
<1>2. RegistryTypes
  BY <1>1 DEF RegistryInit, RegistryTypes, NoRename, NoClone, NoDialog, Over, NoLaunch, Places
<1>3. LaunchesFit
  BY <1>1 DEF LaunchesFit, Over, NoLaunch, Nothing
<1>4. RowHolders = Range(Residents)
  BY <1>1 DEF RowHolders, Over, NoLaunch, Nothing
<1>5. PICK pinned \in BOOLEAN : disk = <<Node(Home, pinned, Residents)>>
  BY DEF RegistryInit
<1> DEFINE n == Node(Home, pinned, Residents)
<1>6. n \in NodesOf(RowHolders)
  <2>1. Residents \in Seq(RowHolders)
    BY <1>4, Registered DEF Range
  <2>2. Residents \in RowsOf(RowHolders)
    BY <2>1, Registered DEF RowsOf
  <2> QED BY <2>2, Registered DEF Node, NodesOf, Places
<1>7. disk \in RegistriesOf(RowHolders)
  <2> HIDE DEF n
  <2>1. disk = <<n>>
    BY <1>5 DEF n
  <2> QED BY <1>6, <2>1 DEF RegistriesOf
<1>8. <<>> \in RegistriesOf(RowHolders)
  BY DEF RegistriesOf
<1>9. CopiesFit
  BY <1>7, <1>8 DEF RegistryInit, CopiesFit, NoScan
<1> QED BY <1>2, <1>3, <1>9 DEF RegistryInv

(* What the rows of a list name may have rows.                             *)
LEMMA RowsHeld ==
    ASSUME NEW A, NEW R \in RegistriesOf(A)
    PROVE  Rows(R) \subseteq A
<1>1. ASSUME NEW i \in DOMAIN R, NEW a \in Range(R[i].rows) PROVE a \in A
  <2>1. R[i].rows \in Seq(A)
    BY NodeOfRegistry
  <2> QED BY <2>1 DEF Range
<1> QED BY <1>1 DEF Rows

(* A list may hold more agents once more launches are over.                *)
LEMMA CopiesGrow ==
    ASSUME CopiesFit, RowHolders \subseteq RowHolders'
    PROVE  /\ disk \in RegistriesOf(RowHolders') /\ mem \in RegistriesOf(RowHolders')
           /\ scan \in [at : {Nothing, "load", "look", "done"},
                        base : RegistriesOf(RowHolders'),
                        result : RegistriesOf(RowHolders'), save : BOOLEAN]
           /\ saves \in Seq([registry : RegistriesOf(RowHolders'),
                             base : RegistriesOf(RowHolders')])
<1> DEFINE D == RegistriesOf(RowHolders)
           E == RegistriesOf(RowHolders')
<1>1. D \subseteq E
  BY RowsGrow
<1> HIDE DEF D, E
<1>2. \A c \in [registry : D, base : D] : c \in [registry : E, base : E]
  BY <1>1
<1>3. /\ disk \in D /\ mem \in D
      /\ scan \in [at : {Nothing, "load", "look", "done"}, base : D, result : D,
                   save : BOOLEAN]
      /\ saves \in Seq([registry : D, base : D])
  BY DEF CopiesFit, D
<1>4. saves \in Seq([registry : E, base : E])
  <2> DEFINE C == [registry : D, base : D]
             F == [registry : E, base : E]
  <2>1. C \subseteq F /\ saves \in Seq(C)
    BY <1>2, <1>3
  <2> HIDE DEF C, F
  <2>2. saves \in Seq(F)
    BY <2>1
  <2> QED BY <2>2 DEF F
<1>5. scan \in [at : {Nothing, "load", "look", "done"}, base : E, result : E,
                save : BOOLEAN]
  BY <1>1, <1>3
<1> QED BY <1>1, <1>3, <1>4, <1>5 DEF E

(* What an open dialog denotes in a new copy.                              *)
DenotedIn(R, d) ==
    IF d.node \in DOMAIN R
    THEN LET rows == R[d.node].rows
         IN IF d.row \in DOMAIN rows THEN rows[d.row] ELSE Nothing
    ELSE Nothing

(* A dialog that is kept stays with its agent.                             *)
LEMMA RestoredStays ==
    ASSUME RegistryTypes, NEW A, NEW R \in RegistriesOf(A)
    PROVE  \/ Restored(R) = NoDialog
           \/ /\ Restored(R) \in [agent : Range(Agents) \cup {Nothing}, node : Nat, row : Nat]
              /\ DenotedIn(R, Restored(R)) = Denoted(mem)
<1> DEFINE a == Denoted(mem)
           i == IF a = Nothing THEN 0 ELSE Find(R, mem[dialog.node].path)
           Fit(j) == /\ R[i].rows[j] = a
                     /\ \A k \in 1 .. j - 1 : R[i].rows[k] # a
           row == CHOOSE j \in DOMAIN R[i].rows : Fit(j)
<1>1. SUFFICES ASSUME i # 0, a \in Range(R[i].rows)
      PROVE  /\ Restored(R) \in [agent : Range(Agents) \cup {Nothing}, node : Nat, row : Nat]
             /\ DenotedIn(R, Restored(R)) = Denoted(mem)
  BY DEF Restored
<1>2. i \in DOMAIN R /\ i \in Nat
  <2>1. Find(R, mem[dialog.node].path) # 0 /\ i = Find(R, mem[dialog.node].path)
    BY <1>1
  <2>2. i \in DOMAIN R
    BY <2>1, FindsNode
  <2> QED BY <2>2 DEF RegistriesOf
<1>3. Restored(R) = [dialog EXCEPT !.node = i, !.row = row]
  BY <1>1 DEF Restored
<1> HIDE DEF i, a
<1>4. R[i].rows \in Seq(A) /\ IsInjective(R[i].rows)
  BY <1>2, NodeOfRegistry
<1>5. PICK j \in DOMAIN R[i].rows : R[i].rows[j] = a
  BY <1>1 DEF Range
<1>6. \A k \in 1 .. j - 1 : R[i].rows[k] # a
  <2> TAKE k \in 1 .. j - 1
  <2>1. k \in DOMAIN R[i].rows /\ k # j
    BY <1>4
  <2> QED BY <1>4, <1>5, <2>1 DEF IsInjective
<1>7. row \in DOMAIN R[i].rows /\ R[i].rows[row] = a
  BY <1>5, <1>6
<1> HIDE DEF row
<1>8. row \in Nat
  BY <1>4, <1>7
<1>9. dialog \in [agent : Range(Agents) \cup {Nothing}, node : Nat, row : Nat]
  BY DEF RegistryTypes
<1>10. /\ Restored(R) \in [agent : Range(Agents) \cup {Nothing}, node : Nat, row : Nat]
       /\ Restored(R).node = i /\ Restored(R).row = row
  BY <1>2, <1>3, <1>8, <1>9
<1> QED BY <1>2, <1>7, <1>10 DEF DenotedIn, a

-----------------------------------------------------------------------------
(* The steps                                                               *)

LEMMA ScheduleFits ==
    ASSUME RegistryInv, Schedule PROVE RegistryInv'
<1>1. RowHolders' = RowHolders
  BY DEF Schedule, jobs, RowHolders
<1>2. RegistryTypes' /\ LaunchesFit'
  BY DEF RegistryInv, RegistryTypes, LaunchesFit, Schedule, jobs, disks
<1>3. CopiesFit'
  <2> DEFINE D == RegistriesOf(RowHolders)
  <2>1. /\ disk \in D /\ mem \in D /\ saves \in Seq([registry : D, base : D])
    BY DEF RegistryInv, CopiesFit
  <2> HIDE DEF D
  <2>2. scan' \in [at : {Nothing, "load", "look", "done"}, base : D, result : D,
                   save : BOOLEAN]
    BY <2>1 DEF Schedule, NoScan
  <2> QED BY <1>1, <2>1, <2>2 DEF CopiesFit, Schedule, D
<1> QED BY <1>2, <1>3 DEF RegistryInv

LEMMA LoadFits ==
    ASSUME RegistryInv, LoadStored PROVE RegistryInv'
<1>1. RowHolders' = RowHolders
  BY DEF LoadStored, jobs, RowHolders
<1>2. RegistryTypes' /\ LaunchesFit'
  BY DEF RegistryInv, RegistryTypes, LaunchesFit, LoadStored, jobs, disks
<1>3. CopiesFit'
  <2> DEFINE D == RegistriesOf(RowHolders)
  <2>1. /\ disk \in D /\ mem \in D /\ saves \in Seq([registry : D, base : D])
        /\ scan \in [at : {Nothing, "load", "look", "done"}, base : D, result : D,
                     save : BOOLEAN]
    BY DEF RegistryInv, CopiesFit
  <2>2. AdoptStored(scan.result, disk) \in D
    BY <2>1, AdoptKeeps
  <2> HIDE DEF D
  <2>3. scan' \in [at : {Nothing, "load", "look", "done"}, base : D, result : D,
                   save : BOOLEAN]
    BY <2>1, <2>2 DEF LoadStored
  <2> QED BY <1>1, <2>1, <2>3 DEF CopiesFit, LoadStored, D
<1> QED BY <1>2, <1>3 DEF RegistryInv

LEMMA LookFits ==
    ASSUME RegistryInv, Look PROVE RegistryInv'
<1>1. RowHolders' = RowHolders
  BY DEF Look, jobs, RowHolders
<1>2. RegistryTypes' /\ LaunchesFit'
  BY DEF RegistryInv, RegistryTypes, LaunchesFit, Look, jobs, disks
<1>3. CopiesFit'
  <2> DEFINE D == RegistriesOf(RowHolders)
             changed == ReposChanged(scan.result)
             repos == IF changed THEN MergeDiscovered(scan.result, FoundDirs)
                                 ELSE scan.result
             found == ReconcileRows(repos)
  <2>1. /\ disk \in D /\ mem \in D /\ saves \in Seq([registry : D, base : D])
        /\ scan \in [at : {Nothing, "load", "look", "done"}, base : D, result : D,
                     save : BOOLEAN]
    BY DEF RegistryInv, CopiesFit
  <2>2. repos \in D
    BY <2>1, MergeKeeps
  <2>3. trees \ young \subseteq RowHolders
    BY DEF RegistryInv, RegistryTypes, LaunchesFit, RowHolders
  <2>4. found \in D
    <3> HIDE DEF repos
    <3> QED BY <2>2, <2>3, ReconcileKeeps
  <2>5. scan' = [scan EXCEPT !.at = "done", !.result = found,
                             !.save = changed \/ found # repos]
    BY DEF Look
  <2> DEFINE save == changed \/ found # repos
  <2>6. save \in BOOLEAN
    <3> HIDE DEF found, repos
    <3> QED BY DEF ReposChanged
  <2>7. scan' = [scan EXCEPT !.at = "done", !.result = found, !.save = save]
    BY <2>5
  <2> HIDE DEF D, save, found, repos, changed
  <2>8. scan' \in [at : {Nothing, "load", "look", "done"}, base : D, result : D,
                   save : BOOLEAN]
    BY <2>1, <2>4, <2>6, <2>7
  <2> QED BY <1>1, <2>1, <2>8 DEF CopiesFit, Look, D
<1> QED BY <1>2, <1>3 DEF RegistryInv

LEMMA ApplyFits ==
    ASSUME RegistryInv, ApplyDiscovery PROVE RegistryInv'
<1>1. RowHolders' = RowHolders
  BY DEF ApplyDiscovery, jobs, RowHolders
<1> DEFINE D == RegistriesOf(RowHolders)
<1>2. /\ disk \in D /\ mem \in D /\ saves \in Seq([registry : D, base : D])
      /\ scan \in [at : {Nothing, "load", "look", "done"}, base : D, result : D,
                   save : BOOLEAN]
  BY DEF RegistryInv, CopiesFit
<1>3. dialog' \in [agent : Range(Agents) \cup {Nothing}, node : Nat, row : Nat]
  <2>1. /\ dialog \in [agent : Range(Agents) \cup {Nothing}, node : Nat, row : Nat]
        /\ NoDialog \in [agent : Range(Agents) \cup {Nothing}, node : Nat, row : Nat]
    BY DEF RegistryInv, RegistryTypes, NoDialog
  <2>2. Restored(scan.result) \in [agent : Range(Agents) \cup {Nothing}, node : Nat, row : Nat]
    <3>1. scan.result \in D
      BY <1>2
    <3> QED BY <2>1, <3>1, RestoredStays DEF RegistryInv
  <2>3. dialog' = dialog \/ dialog' = Restored(scan.result)
    BY DEF ApplyDiscovery
  <2> QED BY <2>1, <2>2, <2>3
<1>4. RegistryTypes' /\ LaunchesFit'
  BY <1>3 DEF RegistryInv, RegistryTypes, LaunchesFit, ApplyDiscovery, jobs, disks
<1>5. CopiesFit'
  <2> HIDE DEF D
  <2> DEFINE copy == [registry |-> scan.result, base |-> scan.base]
             Copies == [registry : D, base : D]
  <2>1. /\ disk' = disk
        /\ mem' = mem \/ mem' = scan.result
        /\ saves' = saves \/ saves' = Append(saves, copy)
        /\ scan' = NoScan
    BY DEF ApplyDiscovery
  <2>2. copy \in Copies
    BY <1>2
  <2>3. saves' \in Seq(Copies)
    <3>1. saves \in Seq(Copies)
      BY <1>2
    <3> HIDE DEF copy, Copies
    <3> QED BY <2>1, <2>2, <3>1
  <2>4. mem' \in D
    BY <1>2, <2>1
  <2>5. <<>> \in D
    BY DEF D, RegistriesOf
  <2>6. scan' \in [at : {Nothing, "load", "look", "done"}, base : D, result : D,
                   save : BOOLEAN]
    BY <2>1, <2>5 DEF NoScan
  <2> QED BY <1>1, <1>2, <2>1, <2>3, <2>4, <2>6 DEF CopiesFit, D
<1> QED BY <1>4, <1>5 DEF RegistryInv

LEMMA SaveFits ==
    ASSUME RegistryInv, SaveRows PROVE RegistryInv'
<1>1. RowHolders' = RowHolders
  BY DEF SaveRows, jobs, RowHolders
<1>2. RegistryTypes' /\ LaunchesFit'
  BY DEF RegistryInv, RegistryTypes, LaunchesFit, SaveRows, jobs, disks
<1>3. CopiesFit'
  <2> DEFINE D == RegistriesOf(RowHolders)
  <2>1. /\ disk \in D /\ mem \in D /\ saves \in Seq([registry : D, base : D])
        /\ scan \in [at : {Nothing, "load", "look", "done"}, base : D, result : D,
                     save : BOOLEAN]
    BY DEF RegistryInv, CopiesFit
  <2> HIDE DEF D
  <2>2. /\ saves # <<>>
        /\ disk' = disk \/ disk' = Head(saves).registry
        /\ saves' = Tail(saves) /\ mem' = mem /\ scan' = scan
    BY DEF SaveRows
  <2>3. Head(saves) \in [registry : D, base : D] /\ saves' \in Seq([registry : D, base : D])
    <3> DEFINE C == [registry : D, base : D]
    <3>1. saves \in Seq(C)
      BY <2>1
    <3> HIDE DEF C
    <3>2. saves # <<>> /\ saves' = Tail(saves)
      BY <2>2
    <3>3. Head(saves) \in C /\ saves' \in Seq(C)
      BY <3>1, <3>2
    <3> QED BY <3>3 DEF C
  <2>4. disk' \in D
    BY <2>1, <2>2, <2>3
  <2> QED BY <1>1, <2>1, <2>2, <2>3, <2>4 DEF CopiesFit, D
<1> QED BY <1>2, <1>3 DEF RegistryInv

LEMMA LaunchBegins ==
    ASSUME RegistryInv, NEW a \in Range(Agents), NEW by \in {"ui", "spawn"},
           NEW p \in Paths, LaunchAgent(a, by, p)
    PROVE  RegistryInv'
<1>1. /\ launch[a].by = Nothing
      /\ launch' = [launch EXCEPT ![a] = [by |-> by, path |-> p]]
      /\ trees' = trees \cup {a} /\ young' = young \cup {a}
  BY DEF LaunchAgent, NoLaunch
<1>2. launch' \in [Range(Agents) -> [by : {Nothing, "ui", "spawn", "over"}, path : Places]]
  BY <1>1 DEF RegistryInv, RegistryTypes, Places
<1>3. RegistryTypes'
  BY <1>1, <1>2 DEF RegistryInv, RegistryTypes, LaunchAgent, uiState
<1>4. \A b \in Range(Agents) : launch'[b] = IF b = a THEN [by |-> by, path |-> p] ELSE launch[b]
  BY <1>1 DEF RegistryInv, RegistryTypes
<1>5. LaunchesFit'
  BY <1>1, <1>3, <1>4 DEF RegistryInv, RegistryTypes, LaunchesFit, Nothing
<1>6. RowHolders' = RowHolders
  BY <1>1, <1>4 DEF RowHolders, Nothing
<1>7. CopiesFit'
  BY <1>6 DEF RegistryInv, CopiesFit, LaunchAgent, uiState
<1> QED BY <1>3, <1>5, <1>7 DEF RegistryInv

(* A launch that ends lets its agent have rows.                            *)
LEMMA LaunchEnds ==
    ASSUME RegistryInv, NEW a \in Range(Agents), launch[a].by \in {"ui", "spawn"},
           launch' = [launch EXCEPT ![a] = Over], UNCHANGED <<trees, young>>
    PROVE  /\ launch' \in [Range(Agents) -> [by : {Nothing, "ui", "spawn", "over"}, path : Places]]
           /\ LaunchesFit' /\ a \notin RowHolders /\ RowHolders' = RowHolders \cup {a}
<1>1. launch' \in [Range(Agents) -> [by : {Nothing, "ui", "spawn", "over"}, path : Places]]
  BY DEF RegistryInv, RegistryTypes, Places, Over
<1>2. \A b \in Range(Agents) : launch'[b] = IF b = a THEN Over ELSE launch[b]
  BY DEF RegistryInv, RegistryTypes
<1>3. LaunchesFit'
  BY <1>2 DEF RegistryInv, RegistryTypes, LaunchesFit, Nothing, Over
<1>4. a \notin RowHolders /\ RowHolders' = RowHolders \cup {a}
  BY <1>2 DEF RowHolders, Over
<1> QED BY <1>1, <1>3, <1>4

LEMMA SpawnedFits ==
    ASSUME RegistryInv, NEW a \in Range(Agents), Spawned(a) PROVE RegistryInv'
<1>1. /\ launch[a].by \in {"ui", "spawn"} /\ launch' = [launch EXCEPT ![a] = Over]
      /\ UNCHANGED <<trees, young, mem, scan, saves, dialog, rename, clone>>
      /\ disk' = PersistChild(disk, launch[a].path, a)
  BY DEF Spawned, disks, uiState
<1>2. /\ launch' \in [Range(Agents) -> [by : {Nothing, "ui", "spawn", "over"}, path : Places]]
      /\ LaunchesFit' /\ a \notin RowHolders /\ RowHolders' = RowHolders \cup {a}
  BY <1>1, LaunchEnds
<1>3. RegistryTypes'
  BY <1>1, <1>2 DEF RegistryInv, RegistryTypes
<1>4. disk' \in RegistriesOf(RowHolders')
  <2>1. disk \in RegistriesOf(RowHolders)
    BY DEF RegistryInv, CopiesFit
  <2> QED BY <1>1, <1>2, <2>1, PersistKeeps
<1>5. CopiesFit'
  BY <1>1, <1>2, <1>4, CopiesGrow DEF RegistryInv, CopiesFit
<1> QED BY <1>2, <1>3, <1>5 DEF RegistryInv

LEMMA LaunchedFits ==
    ASSUME RegistryInv, NEW a \in Range(Agents), Launched(a) PROVE RegistryInv'
<1>1. /\ launch[a].by \in {"ui", "spawn"} /\ launch' = [launch EXCEPT ![a] = Over]
      /\ UNCHANGED <<trees, young, scan, saves, dialog, rename, clone>>
      /\ disk' = PushRow(disk, launch[a].path, a) /\ mem' = disk'
  BY DEF Launched, disks, uiState
<1>2. /\ launch' \in [Range(Agents) -> [by : {Nothing, "ui", "spawn", "over"}, path : Places]]
      /\ LaunchesFit' /\ a \notin RowHolders /\ RowHolders' = RowHolders \cup {a}
  BY <1>1, LaunchEnds
<1>3. RegistryTypes'
  BY <1>1, <1>2 DEF RegistryInv, RegistryTypes
<1>4. disk' \in RegistriesOf(RowHolders')
  <2>1. disk \in RegistriesOf(RowHolders)
    BY DEF RegistryInv, CopiesFit
  <2> QED BY <1>1, <1>2, <2>1, PushKeeps
<1>5. CopiesFit'
  BY <1>1, <1>2, <1>4, CopiesGrow DEF RegistryInv, CopiesFit
<1> QED BY <1>2, <1>3, <1>5 DEF RegistryInv

LEMMA LaunchDiesFits ==
    ASSUME RegistryInv, NEW a \in Range(Agents), LaunchDies(a) PROVE RegistryInv'
<1>1. /\ launch[a].by \in {"ui", "spawn"} /\ launch' = [launch EXCEPT ![a] = Over]
      /\ UNCHANGED <<trees, young, disk, mem, scan, saves, dialog, rename, clone>>
  BY DEF LaunchDies, disks, uiState
<1>2. /\ launch' \in [Range(Agents) -> [by : {Nothing, "ui", "spawn", "over"}, path : Places]]
      /\ LaunchesFit' /\ RowHolders \subseteq RowHolders'
  BY <1>1, LaunchEnds
<1>3. RegistryTypes'
  BY <1>1, <1>2 DEF RegistryInv, RegistryTypes
<1>4. CopiesFit'
  BY <1>1, <1>2, CopiesGrow DEF RegistryInv, CopiesFit
<1> QED BY <1>2, <1>3, <1>4 DEF RegistryInv

LEMMA GraceFits ==
    ASSUME RegistryInv, ~SlowLaunches, NEW a \in Range(Agents), GraceEnds(a)
    PROVE  RegistryInv'
<1>1. /\ launch[a].by = "over" /\ young' = young \ {a}
      /\ UNCHANGED <<launch, trees, disk, mem, scan, saves, dialog, rename, clone>>
  BY DEF GraceEnds, uiState, jobs, Over
<1>2. RegistryTypes' /\ LaunchesFit'
  BY <1>1 DEF RegistryInv, RegistryTypes, LaunchesFit
<1>3. CopiesFit'
  BY <1>1 DEF RegistryInv, CopiesFit, RowHolders
<1> QED BY <1>2, <1>3 DEF RegistryInv

(* An agent with a row may lose its worktree: its launch is over.          *)
LEMMA AgentGoes ==
    ASSUME RegistryInv, NEW a \in RowHolders, trees' = trees \ {a}, young' = young \ {a},
           launch' = launch
    PROVE  LaunchesFit' /\ RowHolders' = RowHolders
BY DEF RegistryInv, RegistryTypes, LaunchesFit, RowHolders

LEMMA ReapedFits ==
    ASSUME RegistryInv, NEW a \in Range(Agents), Reaped(a) PROVE RegistryInv'
<1>1. /\ UNCHANGED <<launch, mem, scan, saves, dialog, rename, clone>>
      /\ trees' = trees \ {a} /\ young' = young \ {a} /\ disk' = Without(disk, a)
      /\ a \in Rows(disk)
  BY DEF Reaped, uiState, jobs
<1>2. disk \in RegistriesOf(RowHolders)
  BY DEF RegistryInv, CopiesFit
<1>3. LaunchesFit' /\ RowHolders' = RowHolders
  BY <1>1, <1>2, RowsHeld, AgentGoes
<1>4. RegistryTypes'
  BY <1>1 DEF RegistryInv, RegistryTypes
<1>5. disk' \in RegistriesOf(RowHolders)
  BY <1>1, <1>2, WithoutKeeps
<1>6. CopiesFit'
  BY <1>1, <1>3, <1>5 DEF RegistryInv, CopiesFit
<1> QED BY <1>3, <1>4, <1>6 DEF RegistryInv

(* A finished merge takes one row out of one node; an open dialog of       *)
(* another agent follows its own.                                          *)
LEMMA MergedRow ==
    ASSUME RegistryInv, NEW a \in Range(Agents), MergeFinished(a)
    PROVE  \E i \in DOMAIN mem : \E j \in DOMAIN mem[i].rows :
              /\ mem[i].rows[j] = a
              /\ mem' = [mem EXCEPT ![i].rows = RemoveAt(mem[i].rows, j)]
              /\ dialog' = IF dialog = NoDialog THEN dialog ELSE Remapped(i, j)
<1> DEFINE i == CHOOSE i \in DOMAIN mem : a \in Range(mem[i].rows)
           j == CHOOSE j \in DOMAIN mem[i].rows : mem[i].rows[j] = a
<1>1. \E k \in DOMAIN mem : a \in Range(mem[k].rows)
  BY DEF MergeFinished, Rows
<1>2. i \in DOMAIN mem /\ a \in Range(mem[i].rows)
  BY <1>1
<1>3. mem' = [mem EXCEPT ![i].rows = RemoveAt(mem[i].rows, j)]
      /\ dialog' = IF dialog = NoDialog THEN dialog ELSE Remapped(i, j)
  BY DEF MergeFinished
<1> HIDE DEF i
<1>4. j \in DOMAIN mem[i].rows /\ mem[i].rows[j] = a
  BY <1>2 DEF Range
<1> HIDE DEF j
<1> QED BY <1>2, <1>3, <1>4

LEMMA RemappedTyped ==
    ASSUME RegistryTypes, NEW i \in Nat \ {0}, NEW j \in Nat \ {0}
    PROVE  Remapped(i, j) \in [agent : Range(Agents) \cup {Nothing}, node : Nat, row : Nat]
<1>1. /\ dialog \in [agent : Range(Agents) \cup {Nothing}, node : Nat, row : Nat]
      /\ NoDialog \in [agent : Range(Agents) \cup {Nothing}, node : Nat, row : Nat]
  BY DEF RegistryTypes, NoDialog
<1>2. CASE dialog.node # i \/ dialog.row < j
  BY <1>1, <1>2 DEF Remapped
<1>3. CASE ~(dialog.node # i \/ dialog.row < j) /\ dialog.row = j
  BY <1>1, <1>3 DEF Remapped
<1>4. CASE ~(dialog.node # i \/ dialog.row < j) /\ dialog.row # j
  <2>1. Remapped(i, j) = [dialog EXCEPT !.row = @ - 1]
    BY <1>4 DEF Remapped
  <2>2. dialog.row - 1 \in Nat
    BY <1>1, <1>4
  <2> QED BY <1>1, <2>1, <2>2
<1> QED BY <1>2, <1>3, <1>4

LEMMA MergeFits ==
    ASSUME RegistryInv, NEW a \in Range(Agents), MergeFinished(a) PROVE RegistryInv'
<1>1. /\ UNCHANGED <<launch, scan, saves, rename, clone>>
      /\ trees' = trees \ {a} /\ young' = young \ {a} /\ disk' = Without(disk, a)
      /\ a \in Rows(mem)
  BY DEF MergeFinished, uiState, jobs
<1>2. disk \in RegistriesOf(RowHolders) /\ mem \in RegistriesOf(RowHolders)
  BY DEF RegistryInv, CopiesFit
<1>3. LaunchesFit' /\ RowHolders' = RowHolders
  BY <1>1, <1>2, RowsHeld, AgentGoes
<1>4. PICK i \in DOMAIN mem : \E j \in DOMAIN mem[i].rows :
         /\ mem[i].rows[j] = a
         /\ mem' = [mem EXCEPT ![i].rows = RemoveAt(mem[i].rows, j)]
         /\ dialog' = IF dialog = NoDialog THEN dialog ELSE Remapped(i, j)
  BY MergedRow
<1>5. PICK j \in DOMAIN mem[i].rows :
         /\ mem' = [mem EXCEPT ![i].rows = RemoveAt(mem[i].rows, j)]
         /\ dialog' = IF dialog = NoDialog THEN dialog ELSE Remapped(i, j)
  BY <1>4
<1>6. mem[i] \in NodesOf(RowHolders) /\ mem[i].rows \in Seq(RowHolders)
      /\ IsInjective(mem[i].rows)
  BY <1>2, NodeOfRegistry
<1>7. i \in Nat \ {0} /\ j \in Nat \ {0}
  <2>1. j \in Nat \ {0}
    BY <1>6
  <2>2. i \in Nat \ {0}
    BY <1>2 DEF RegistriesOf
  <2> QED BY <2>1, <2>2
<1>8. RegistryTypes'
  <2>1. dialog' \in [agent : Range(Agents) \cup {Nothing}, node : Nat, row : Nat]
    BY <1>5, <1>7, RemappedTyped DEF RegistryInv, RegistryTypes
  <2> QED BY <1>1, <2>1 DEF RegistryInv, RegistryTypes
<1>9. disk' \in RegistriesOf(RowHolders)
  BY <1>1, <1>2, WithoutKeeps
<1>10. mem' \in RegistriesOf(RowHolders)
  <2> DEFINE s == RemoveAt(mem[i].rows, j)
  <2>1. s \in RowsOf(RowHolders)
    BY <1>6, RemoveKeeps DEF RowsOf
  <2> HIDE DEF s
  <2>2. [mem[i] EXCEPT !.rows = s] \in NodesOf(RowHolders)
    BY <1>6, <2>1 DEF NodesOf
  <2>3. mem' = [mem EXCEPT ![i] = [mem[i] EXCEPT !.rows = s]]
    BY <1>5 DEF s
  <2> QED BY <1>2, <2>2, <2>3, NodeChanged
<1>11. CopiesFit'
  BY <1>1, <1>3, <1>9, <1>10 DEF RegistryInv, CopiesFit
<1> QED BY <1>3, <1>8, <1>11 DEF RegistryInv

LEMMA AskFits ==
    ASSUME RegistryInv, NEW i \in DOMAIN mem, NEW j \in DOMAIN mem[i].rows, Ask(i, j)
    PROVE  RegistryInv'
<1>1. /\ UNCHANGED <<launch, trees, young, disk, mem, scan, saves, rename, clone>>
      /\ dialog' = [agent |-> mem[i].rows[j], node |-> i, row |-> j]
  BY DEF Ask, disks, jobs
<1>2. mem \in RegistriesOf(RowHolders)
  BY DEF RegistryInv, CopiesFit
<1>3. mem[i].rows \in Seq(RowHolders)
  BY <1>2, NodeOfRegistry
<1>4. i \in Nat /\ j \in Nat /\ mem[i].rows[j] \in Range(Agents)
  <2>1. i \in Nat
    BY <1>2 DEF RegistriesOf
  <2>2. j \in Nat /\ mem[i].rows[j] \in RowHolders
    BY <1>3
  <2> QED BY <2>1, <2>2 DEF RowHolders
<1>5. RegistryTypes' /\ LaunchesFit'
  BY <1>1, <1>4 DEF RegistryInv, RegistryTypes, LaunchesFit
<1>6. CopiesFit'
  BY <1>1 DEF RegistryInv, CopiesFit, RowHolders
<1> QED BY <1>5, <1>6 DEF RegistryInv

LEMMA CancelFits ==
    ASSUME RegistryInv, Cancel PROVE RegistryInv'
<1>1. UNCHANGED <<launch, trees, young, disk, mem, scan, saves, rename, clone>>
      /\ dialog' = NoDialog
  BY DEF Cancel, disks, jobs
<1>2. RegistryTypes' /\ LaunchesFit'
  BY <1>1 DEF RegistryInv, RegistryTypes, LaunchesFit, NoDialog
<1>3. CopiesFit'
  BY <1>1 DEF RegistryInv, CopiesFit, RowHolders
<1> QED BY <1>2, <1>3 DEF RegistryInv

LEMMA ConfirmFits ==
    ASSUME RegistryInv, Confirm PROVE RegistryInv'
<1> DEFINE a == Denoted(mem)
<1>1. UNCHANGED <<launch, scan, saves, rename, clone>> /\ dialog' = NoDialog
  BY DEF Confirm, jobs
<1>2. disk \in RegistriesOf(RowHolders) /\ mem \in RegistriesOf(RowHolders)
  BY DEF RegistryInv, CopiesFit
<1>3. CASE a = Nothing
  <2>1. UNCHANGED <<trees, young, disk, mem>>
    BY <1>3 DEF Confirm
  <2>2. RegistryTypes' /\ LaunchesFit'
    BY <1>1, <2>1 DEF RegistryInv, RegistryTypes, LaunchesFit, NoDialog
  <2>3. CopiesFit'
    BY <1>1, <2>1 DEF RegistryInv, CopiesFit, RowHolders
  <2> QED BY <2>2, <2>3 DEF RegistryInv
<1>4. CASE a # Nothing
  <2>1. /\ trees' = trees \ {a} /\ young' = young \ {a}
        /\ disk' = Without(disk, a) /\ mem' = disk'
    BY <1>4 DEF Confirm
  <2>2. a \in RowHolders
    <3>1. dialog.node \in DOMAIN mem /\ dialog.row \in DOMAIN mem[dialog.node].rows
          /\ a = mem[dialog.node].rows[dialog.row]
      BY <1>4 DEF Denoted
    <3> HIDE DEF a
    <3>2. mem[dialog.node].rows \in Seq(RowHolders)
      BY <1>2, <3>1, NodeOfRegistry
    <3> QED BY <3>1, <3>2
  <2> HIDE DEF a
  <2>3. LaunchesFit' /\ RowHolders' = RowHolders
    BY <1>1, <2>1, <2>2, AgentGoes
  <2>4. RegistryTypes'
    BY <1>1, <2>1 DEF RegistryInv, RegistryTypes, NoDialog
  <2>5. disk' \in RegistriesOf(RowHolders)
    BY <1>2, <2>1, WithoutKeeps
  <2>6. CopiesFit'
    BY <1>1, <2>1, <2>3, <2>5 DEF RegistryInv, CopiesFit
  <2> QED BY <2>3, <2>4, <2>6 DEF RegistryInv
<1> QED BY <1>3, <1>4

LEMMA RenameDirFits ==
    ASSUME RegistryInv, NEW p \in Paths, NEW q \in Paths, NEW by \in {"ui", "tool"},
           RenameDir(by, p, q)
    PROVE  RegistryInv'
<1>1. UNCHANGED <<launch, trees, young, disk, mem, scan, saves, dialog, clone>>
      /\ rename' = [by |-> by, from |-> p, to |-> q]
  BY DEF RenameDir, uiState
<1>2. RegistryTypes' /\ LaunchesFit'
  BY <1>1 DEF RegistryInv, RegistryTypes, LaunchesFit, Places
<1>3. CopiesFit'
  BY <1>1 DEF RegistryInv, CopiesFit, RowHolders
<1> QED BY <1>2, <1>3 DEF RegistryInv

LEMMA CloneDirFits ==
    ASSUME RegistryInv, NEW p \in Paths, NEW by \in {"ui", "tool"}, CloneDir(by, p)
    PROVE  RegistryInv'
<1>1. UNCHANGED <<launch, trees, young, disk, mem, scan, saves, dialog, rename>>
      /\ clone' = [by |-> by, path |-> p]
  BY DEF CloneDir, uiState
<1>2. RegistryTypes' /\ LaunchesFit'
  BY <1>1 DEF RegistryInv, RegistryTypes, LaunchesFit, Places
<1>3. CopiesFit'
  BY <1>1 DEF RegistryInv, CopiesFit, RowHolders
<1> QED BY <1>2, <1>3 DEF RegistryInv

(* Steps that change nodes and no rows.                                    *)
LEMMA NodesChange ==
    ASSUME RegistryInv, UNCHANGED <<launch, trees, young, scan, saves, dialog>>,
           rename' \in {rename, NoRename}, clone' \in {clone, NoClone},
           disk' \in RegistriesOf(RowHolders), mem' \in RegistriesOf(RowHolders)
    PROVE  RegistryInv'
<1>1. RegistryTypes' /\ LaunchesFit'
  BY DEF RegistryInv, RegistryTypes, LaunchesFit, Places, NoRename, NoClone
<1>2. CopiesFit'
  BY DEF RegistryInv, CopiesFit, RowHolders
<1> QED BY <1>1, <1>2 DEF RegistryInv

LEMMA RenamedFits ==
    ASSUME RegistryInv, Renamed PROVE RegistryInv'
<1>1. /\ UNCHANGED <<launch, trees, young, scan, saves, dialog, clone>>
      /\ rename' = NoRename /\ disk' = ApplyRename(disk, rename.from, rename.to)
      /\ mem' = disk' \/ mem' = mem
  BY DEF Renamed, disks
<1>2. /\ disk \in RegistriesOf(RowHolders) /\ mem \in RegistriesOf(RowHolders)
      /\ rename.from \in Places /\ rename.to \in Places
  BY DEF RegistryInv, CopiesFit, RegistryTypes
<1>3. disk' \in RegistriesOf(RowHolders)
  BY <1>1, <1>2, RenameKeeps
<1> QED BY <1>1, <1>2, <1>3, NodesChange

LEMMA ClonedFits ==
    ASSUME RegistryInv, Cloned PROVE RegistryInv'
<1>1. /\ UNCHANGED <<launch, trees, young, scan, saves, dialog, rename>>
      /\ clone' = NoClone /\ disk' = AddPinned(disk, clone.path)
      /\ mem' = AddPinned(mem, clone.path) \/ mem' = mem
  BY DEF Cloned, disks
<1>2. /\ disk \in RegistriesOf(RowHolders) /\ mem \in RegistriesOf(RowHolders)
      /\ clone.path \in Places
  BY DEF RegistryInv, CopiesFit, RegistryTypes
<1>3. disk' \in RegistriesOf(RowHolders) /\ AddPinned(mem, clone.path) \in RegistriesOf(RowHolders)
  BY <1>1, <1>2, PinKeeps
<1> QED BY <1>1, <1>2, <1>3, NodesChange

LEMMA PinFits ==
    ASSUME RegistryInv, NEW p \in Paths, Pin(p) PROVE RegistryInv'
<1>1. /\ UNCHANGED <<launch, trees, young, scan, saves, dialog, rename, clone>>
      /\ disk' = AddPinned(disk, p) /\ mem' = disk'
  BY DEF Pin, disks, jobs
<1>2. disk \in RegistriesOf(RowHolders) /\ p \in Places
  BY DEF RegistryInv, CopiesFit, Places
<1>3. disk' \in RegistriesOf(RowHolders)
  BY <1>1, <1>2, PinKeeps
<1> QED BY <1>1, <1>3, NodesChange

LEMMA UnpinFits ==
    ASSUME RegistryInv, NEW p \in Paths, Unpin(p) PROVE RegistryInv'
<1> DEFINE S == {n \in Range(disk) : n.path # p \/ ~n.pinned \/ n.rows # <<>>}
<1>1. /\ UNCHANGED <<launch, trees, young, scan, saves, dialog, rename, clone>>
      /\ disk' = Keeping(disk, S) /\ mem' = disk'
  BY DEF Unpin, disks, jobs
<1> HIDE DEF S
<1>2. disk \in Seq(NodesOf(RowHolders))
  BY DEF RegistryInv, CopiesFit, RegistriesOf
<1>3. disk' \in Seq(NodesOf(RowHolders) \cap S)
  BY <1>1, <1>2, KeptIn
<1>4. disk' \in RegistriesOf(RowHolders)
  <2> HIDE DEF NodesOf
  <2>1. disk' \in Seq(NodesOf(RowHolders))
    BY <1>3
  <2> QED BY <2>1 DEF RegistriesOf
<1> QED BY <1>1, <1>4, NodesChange

LEMMA RestartFits ==
    ASSUME RegistryInv, UiRestarts PROVE RegistryInv'
<1>1. /\ UNCHANGED <<trees, young>> /\ dialog' = NoDialog /\ scan' = NoScan /\ saves' = <<>>
      /\ disk' = MergeDiscovered(disk, FoundDirs) /\ mem' = disk'
      /\ launch' = [a \in DOMAIN launch |->
                       IF launch[a].by = "ui" THEN Over ELSE launch[a]]
      /\ rename' \in {rename, NoRename} /\ clone' \in {clone, NoClone}
  BY DEF UiRestarts, disks
<1>2. \A a \in Range(Agents) :
         launch'[a] = IF launch[a].by = "ui" THEN Over ELSE launch[a]
  BY <1>1 DEF RegistryInv, RegistryTypes
<1>3. launch' \in [Range(Agents) -> [by : {Nothing, "ui", "spawn", "over"}, path : Places]]
  BY <1>1 DEF RegistryInv, RegistryTypes, Over, Places
<1>4. RegistryTypes'
  BY <1>1, <1>3 DEF RegistryInv, RegistryTypes, NoDialog, NoRename, NoClone, Places
<1>5. LaunchesFit'
  BY <1>1, <1>2 DEF RegistryInv, RegistryTypes, LaunchesFit, Over, Nothing
<1>6. RowHolders \subseteq RowHolders'
  BY <1>2 DEF RowHolders, Over
<1>7. disk' \in RegistriesOf(RowHolders')
  <2>1. disk \in RegistriesOf(RowHolders')
    BY <1>6, CopiesGrow DEF RegistryInv
  <2> QED BY <1>1, <2>1, MergeKeeps
<1>8. CopiesFit'
  <2>1. <<>> \in RegistriesOf(RowHolders')
    BY DEF RegistriesOf
  <2> QED BY <1>1, <1>7, <2>1 DEF CopiesFit, NoScan
<1> QED BY <1>4, <1>5, <1>8 DEF RegistryInv

LEMMA RegistryKeeps ==
    ASSUME RegistryInv, ~SlowLaunches, [RegistryStep]_registryVars PROVE RegistryInv'
<1>1. CASE Refresh
  BY <1>1, ScheduleFits, LoadFits, LookFits, ApplyFits, SaveFits DEF Refresh
<1>2. ASSUME NEW a \in Range(Agents), Agent(a) PROVE RegistryInv'
  BY <1>2, LaunchBegins, SpawnedFits, LaunchedFits, LaunchDiesFits, GraceFits, ReapedFits,
     MergeFits DEF Agent
<1>3. ASSUME NEW p \in Paths, Repository(p) PROVE RegistryInv'
  BY <1>3, RenameDirFits, CloneDirFits, PinFits, UnpinFits DEF Repository
<1>4. ASSUME NEW i \in DOMAIN mem, NEW j \in DOMAIN mem[i].rows, Ask(i, j)
      PROVE  RegistryInv'
  BY <1>4, AskFits
<1>5. CASE Renamed \/ Cloned \/ Confirm \/ Cancel \/ UiRestarts
  BY <1>5, RenamedFits, ClonedFits, ConfirmFits, CancelFits, RestartFits
<1>6. CASE UNCHANGED registryVars
  <2>1. UNCHANGED <<launch, trees, young, disk, mem, scan, saves, dialog, rename, clone>>
    BY <1>6 DEF registryVars, disks, uiState, jobs
  <2>2. RegistryTypes' /\ LaunchesFit'
    BY <2>1 DEF RegistryInv, RegistryTypes, LaunchesFit
  <2>3. CopiesFit'
    BY <2>1 DEF RegistryInv, CopiesFit, RowHolders
  <2> QED BY <2>2, <2>3 DEF RegistryInv
<1> QED BY <1>1, <1>2, <1>3, <1>4, <1>5, <1>6 DEF RegistryStep

(* What the file names, it names once.                                     *)
LEMMA FileOnce ==
    ASSUME RegistryInv PROVE OneRowEach
<1>1. disk \in RegistriesOf(RowHolders)
  BY DEF RegistryInv, CopiesFit
<1> QED BY <1>1, NodeOfRegistry DEF OneRowEach

-----------------------------------------------------------------------------
(* A dialog denotes who it was opened for                                  *)

LEMMA DenotedRight ==
    /\ Denoted(mem) = DenotedIn(mem, dialog)
    /\ Denoted(mem)' = DenotedIn(mem', dialog')
BY DEF Denoted, DenotedIn

LEMMA ApplyHolds ==
    ASSUME RegistryInv, ApplyDiscovery
    PROVE  dialog' = NoDialog \/ Denoted(mem)' = Denoted(mem)
<1>1. CASE mem # scan.base
  <2>1. mem' = mem /\ dialog' = dialog
    BY <1>1 DEF ApplyDiscovery
  <2> QED BY <2>1, DenotedRight
<1>2. CASE mem = scan.base /\ dialog # NoDialog
  <2>1. mem' = scan.result /\ dialog' = Restored(scan.result)
    BY <1>2 DEF ApplyDiscovery
  <2>2. scan.result \in RegistriesOf(RowHolders)
    BY DEF RegistryInv, CopiesFit
  <2>3. \/ Restored(scan.result) = NoDialog
        \/ DenotedIn(scan.result, Restored(scan.result)) = Denoted(mem)
    BY <2>2, RestoredStays DEF RegistryInv
  <2> QED BY <2>1, <2>3, DenotedRight
<1>3. CASE mem = scan.base /\ dialog = NoDialog
  BY <1>3 DEF ApplyDiscovery
<1> QED BY <1>1, <1>2, <1>3

LEMMA Remaps ==
    ASSUME RegistryTypes, NEW i \in Nat, NEW j \in Nat
    PROVE  /\ dialog.node # i \/ dialog.row < j => Remapped(i, j) = dialog
           /\ dialog.node = i /\ ~(dialog.row < j) /\ dialog.row = j
                => Remapped(i, j) = NoDialog
           /\ dialog.node = i /\ ~(dialog.row < j) /\ dialog.row # j
                => Remapped(i, j) = [dialog EXCEPT !.row = @ - 1]
<1>0. dialog \in [agent : Range(Agents) \cup {Nothing}, node : Nat, row : Nat]
  BY DEF RegistryTypes
<1>1. ASSUME dialog.node # i \/ dialog.row < j PROVE Remapped(i, j) = dialog
  BY <1>0, <1>1 DEF Remapped
<1>2. ASSUME dialog.node = i, ~(dialog.row < j), dialog.row = j
      PROVE  Remapped(i, j) = NoDialog
  BY <1>0, <1>2 DEF Remapped
<1>3. ASSUME dialog.node = i, ~(dialog.row < j), dialog.row # j
      PROVE  Remapped(i, j) = [dialog EXCEPT !.row = @ - 1]
  BY <1>0, <1>3 DEF Remapped
<1> QED BY <1>1, <1>2, <1>3, Zenon

LEMMA MergeHolds ==
    ASSUME RegistryInv, NEW a \in Range(Agents), MergeFinished(a), dialog # NoDialog
    PROVE  dialog' = NoDialog \/ Denoted(mem)' = Denoted(mem)
<1>1. PICK i \in DOMAIN mem : \E j \in DOMAIN mem[i].rows :
         /\ mem' = [mem EXCEPT ![i].rows = RemoveAt(mem[i].rows, j)]
         /\ dialog' = Remapped(i, j)
  BY MergedRow
<1>2. PICK j \in DOMAIN mem[i].rows :
         /\ mem' = [mem EXCEPT ![i].rows = RemoveAt(mem[i].rows, j)]
         /\ dialog' = Remapped(i, j)
  BY <1>1
<1> DEFINE s == mem[i].rows
           t == RemoveAt(s, j)
<1>3. mem \in RegistriesOf(RowHolders) /\ mem[i] \in NodesOf(RowHolders)
      /\ s \in Seq(RowHolders) /\ IsInjective(s)
  BY NodeOfRegistry DEF RegistryInv, CopiesFit
<1>4. DOMAIN t = 1..(Len(s) - 1)
      /\ \A x \in 1..(Len(s) - 1) : t[x] = IF x < j THEN s[x] ELSE s[x + 1]
  BY <1>3, RemoveKeeps
<1>5. /\ DOMAIN mem' = DOMAIN mem
      /\ \A k \in DOMAIN mem : mem'[k].rows = IF k = i THEN t ELSE mem[k].rows
  <2>1. mem' = [mem EXCEPT ![i] = [mem[i] EXCEPT !.rows = t]]
    BY <1>2
  <2>2. [mem[i] EXCEPT !.rows = t].rows = t
    BY <1>3 DEF NodesOf
  <2> HIDE DEF t
  <2> QED BY <2>1, <2>2
<1>6. dialog \in [agent : Range(Agents) \cup {Nothing}, node : Nat, row : Nat]
  BY DEF RegistryInv, RegistryTypes
<1>7. j \in 1..Len(s) /\ Len(s) \in Nat /\ DOMAIN s = 1..Len(s)
  BY <1>3
<1> DEFINE R == mem'
           d == dialog'
<1>8. DenotedIn(mem, dialog) = DenotedIn(R, d) \/ d = NoDialog
  <2> HIDE DEF t, s, R, d
  <2> RegistryTypes /\ i \in Nat /\ j \in Nat
    BY <1>3, <1>7 DEF RegistryInv, RegistriesOf
  <2>0. /\ d = Remapped(i, j) /\ DOMAIN R = DOMAIN mem
        /\ \A k \in DOMAIN mem : R[k].rows = IF k = i THEN t ELSE mem[k].rows
    BY <1>2, <1>5 DEF R, d
  <2>1. CASE dialog.node # i
    <3>1. d = dialog
      BY <2>0, <2>1, Remaps
    <3> QED BY <2>0, <2>1, <3>1 DEF DenotedIn
  <2>2. CASE dialog.node = i
    <3>1. DenotedIn(mem, dialog) = IF dialog.row \in 1..Len(s) THEN s[dialog.row] ELSE Nothing
      BY <2>2, <1>7 DEF DenotedIn, s
    <3>2. \A e : e.node = i =>
             DenotedIn(R, e) = IF e.row \in 1..(Len(s) - 1) THEN t[e.row] ELSE Nothing
      BY <2>0, <1>4 DEF DenotedIn
    <3>3. CASE dialog.row < j
      <4>1. d = dialog
        BY <2>0, <3>3, Remaps
      <4>2. dialog.row \in Nat
        BY <1>6
      <4>3. dialog.row \in 1..Len(s) <=> dialog.row \in 1..(Len(s) - 1)
        BY <1>7, <3>3, <4>2
      <4>4. dialog.row \in 1..(Len(s) - 1) => t[dialog.row] = s[dialog.row]
        BY <1>4, <3>3
      <4> QED BY <2>2, <3>1, <3>2, <4>1, <4>3, <4>4
    <3>4. CASE ~(dialog.row < j) /\ dialog.row = j
      BY <2>0, <2>2, <3>4, Remaps
    <3>5. CASE ~(dialog.row < j) /\ dialog.row # j
      <4>1. d = [dialog EXCEPT !.row = @ - 1]
        BY <2>0, <2>2, <3>5, Remaps
      <4>2. dialog.row \in Nat /\ d.node = i /\ d.row = dialog.row - 1 /\ dialog.row > j
        BY <1>6, <1>7, <2>2, <3>5, <4>1
      <4>3. dialog.row \in 1..Len(s) <=> d.row \in 1..(Len(s) - 1)
        BY <1>7, <4>2
      <4>4. d.row \in 1..(Len(s) - 1) => t[d.row] = s[dialog.row]
        BY <1>4, <1>7, <4>2
      <4> QED BY <3>1, <3>2, <4>2, <4>3, <4>4
    <3> QED BY <3>3, <3>4, <3>5
  <2> QED BY <2>1, <2>2
<1> QED BY <1>8, DenotedRight

LEMMA DialogStays ==
    ASSUME RegistryInv, [RegistryStep]_registryVars,
           scan' # scan \/ \E a \in Range(Agents) : MergeFinished(a),
           dialog # NoDialog, Denoted(mem) = dialog.agent
    PROVE  dialog' = NoDialog \/ Denoted(mem)' = dialog.agent
<1>1. CASE \E a \in Range(Agents) : MergeFinished(a)
  BY <1>1, MergeHolds
<1>2. CASE scan' # scan
  <2>1. Schedule \/ LoadStored \/ Look \/ ApplyDiscovery \/ UiRestarts
    <3>1. CASE Refresh
      BY <1>2, <3>1 DEF Refresh, SaveRows
    <3>2. ASSUME NEW a \in Range(Agents), Agent(a) PROVE FALSE
      BY <1>2, <3>2 DEF Agent, LaunchAgent, Spawned, Launched, LaunchDies, GraceEnds, Reaped,
         MergeFinished, uiState
    <3>3. ASSUME NEW p \in Paths, Repository(p) PROVE FALSE
      BY <1>2, <3>3 DEF Repository, RenameDir, CloneDir, Pin, Unpin, uiState
    <3>4. ASSUME NEW i \in DOMAIN mem, NEW j \in DOMAIN mem[i].rows, Ask(i, j) PROVE FALSE
      BY <1>2, <3>4 DEF Ask
    <3>5. CASE Renamed \/ Cloned \/ Confirm \/ Cancel
      BY <1>2, <3>5 DEF Renamed, Cloned, Confirm, Cancel
    <3>6. CASE UNCHANGED registryVars
      BY <1>2, <3>6 DEF registryVars, uiState
    <3> QED BY <3>1, <3>2, <3>3, <3>4, <3>5, <3>6 DEF RegistryStep
  <2>2. CASE Schedule \/ LoadStored \/ Look
    <3>1. mem' = mem /\ dialog' = dialog
      BY <2>2 DEF Schedule, LoadStored, Look
    <3> QED BY <3>1, DenotedRight
  <2>3. CASE ApplyDiscovery
    BY <2>3, ApplyHolds
  <2>4. CASE UiRestarts
    BY <2>4 DEF UiRestarts
  <2> QED BY <2>1, <2>2, <2>3, <2>4
<1> QED BY <1>1, <1>2

(* No save, scan, launch or adoption gives an agent a second row in a      *)
(* repository, as long as launches end within the grace period, and no     *)
(* refresh or finished merge turns an open dialog to another agent.        *)
THEOREM RowsAreSafe ==
    ASSUME ~SlowLaunches
    PROVE  RegistrySpec => RowsSafe
<1>1. RegistryInit => RegistryInv
  BY RegistryStarts
<1>2. RegistryInv /\ [RegistryStep]_registryVars => RegistryInv'
  BY RegistryKeeps
<1>3. RegistryInv => OneRowEach
  BY FileOnce
<1>4. RegistryInv /\ [RegistryStep]_registryVars =>
        [(scan' # scan \/ \E a \in Range(Agents) : MergeFinished(a))
           /\ dialog # NoDialog /\ Denoted(mem) = dialog.agent
           => dialog' = NoDialog \/ Denoted(mem)' = dialog.agent]_registryVars
  BY DialogStays
<1> QED BY <1>1, <1>2, <1>3, <1>4, PTL DEF RegistrySpec, RowsSafe, DialogsHold

=============================================================================
