---------------------------- MODULE TellingProofs ----------------------------
(***************************************************************************)
(* Proofs about what robco tells its operator: the channel tells what the  *)
(* decision log says (Notifications), and the Overseer's inbox shows what  *)
(* was not dismissed (Board).                                              *)
(***************************************************************************)
EXTENDS Notifications, Board, FunctionTheorems, FiniteSetTheorems,
        WellFoundedInduction, TLAPS

-----------------------------------------------------------------------------
(* The channel.  What is to be told of an advance is split between it, the *)
(* message that is rendered and the queue behind it: an admitted line of   *)
(* the advance is in one of them (Covered), the messages not yet sent are  *)
(* disjoint and in order (Orderly), and a line that still waits has been   *)
(* told once less than it may (Counted).                                   *)

(* The log, what is due for it, and what the bot knows of it.              *)
LogTypes == due \in Seq(Lines) /\ log \in Seq(Lines)

CursorTypes ==
    /\ offset \in 0..Len(log)
    /\ file \in {NoFile, offset}
    /\ {restarts, unheard} \subseteq Nat

PostTypes ==
    /\ posts \in Seq(SUBSET Nat)
    /\ \A k \in DOMAIN posts : posts[k] # {} /\ posts[k] \subseteq DOMAIN log
    /\ skipped \subseteq DOMAIN log

(* Every line of h comes after one of g.                                   *)
Before(g, h) == \E x \in g : \A y \in h : x < y

(* A queue of messages about the lines first..last, oldest first.          *)
Orderly(queue, first, last) ==
    /\ queue \in Seq(SUBSET (first..last))
    /\ \A k \in DOMAIN queue : queue[k] # {}
    /\ \A j, k \in DOMAIN queue :
          j < k => Before(queue[j], queue[k]) /\ queue[j] \cap queue[k] = {}

(* ... behind a message that may already be rendered.                      *)
Sound(rendered, queue, first, last) ==
    /\ rendered \subseteq first..last
    /\ Orderly(queue, first, last)
    /\ rendered # {} =>
          \A k \in DOMAIN queue :
              Before(rendered, queue[k]) /\ rendered \cap queue[k] = {}

(* The lines the two have still to tell.                                   *)
Waiting(rendered, queue) ==
    rendered \cup UNION {queue[k] : k \in DOMAIN queue}

FlightInv ==
    /\ DOMAIN flight = {"queue", "rendered", "translating", "end", "fresh"}
    /\ flight.end \in 0..Len(log)
    /\ flight = NoFlight \/ offset < flight.end
    /\ Sound(flight.rendered, flight.queue, offset + 1, flight.end)
    /\ flight.translating => flight.rendered = {} /\ flight.queue # <<>>

BotInv ==
    /\ batch.first \in Nat /\ batch.last \in Nat /\ batch.last <= Len(log)
    /\ bpc = "plan" => flight = NoFlight /\ batch.first = offset + 1
    /\ bpc = "drive" =>
          /\ offset < flight.end
          /\ ~flight.translating
          /\ flight.fresh => batch.first = flight.end + 1

Covered ==
    \A i \in (offset + 1)..flight.end :
        Admitted(log[i]) =>
            Posted(i) \/ i \in Waiting(flight.rendered, flight.queue)

Faults == restarts + unheard

Times(i) == Cardinality({k \in DOMAIN posts : i \in posts[k]})

Untold(i) ==
    /\ i > offset
    /\ i > flight.end \/ i \in Waiting(flight.rendered, flight.queue)

Counted ==
    \A i \in DOMAIN log :
        Times(i) <= IF Untold(i) THEN Faults ELSE Faults + 1

NotifyInv ==
    /\ LogTypes /\ CursorTypes /\ PostTypes
    /\ FlightInv /\ BotInv
    /\ Covered /\ NothingMissed /\ Counted /\ InOrder

-----------------------------------------------------------------------------
(* Lines and sets of lines                                                 *)

LEMMA LeastLine ==
    ASSUME NEW S, S \subseteq Nat, S # {}
    PROVE  Min(S) \in S /\ \A y \in S : Min(S) <= y
<1> DEFINE R == OpToRel(<, Nat)
<1>1. PICK x \in S : \A y \in S : ~(<<y, x>> \in R)
  BY NatLessThanWellFounded, WFMin
<1>2. \A y \in S : x <= y
  <2> TAKE y \in S
  <2>1. y \in Nat /\ x \in Nat
    OBVIOUS
  <2>2. ASSUME y < x
        PROVE  <<y, x>> \in R
    <3> DEFINE pair == <<y, x>>
    <3>1. pair \in Nat \X Nat /\ pair[1] = y /\ pair[2] = x
      BY <2>1
    <3> HIDE DEF pair
    <3>2. pair \in R
      BY <2>2, <3>1 DEF OpToRel
    <3> QED
      BY <3>2 DEF pair
  <2> HIDE DEF R
  <2> QED
    BY <1>1, <2>1, <2>2
<1> QED
  BY <1>2 DEF Min

LEMMA GreatestLine ==
    ASSUME NEW S, NEW n \in Nat, S \subseteq 0..n, S # {}
    PROVE  Max(S) \in S /\ \A y \in S : y <= Max(S)
<1> DEFINE above == {m \in Nat : \A y \in S : y <= m}
<1>1. n \in above /\ above \subseteq Nat
  OBVIOUS
<1>2. Min(above) \in above /\ \A m \in above : Min(above) <= m
  BY <1>1, LeastLine
<1>3. PICK m \in Nat : (\A y \in S : y <= m) /\ \A k \in Nat : (\A y \in S : y <= k) => m <= k
  BY <1>2
<1>4. m \in S
  <2> SUFFICES ASSUME m \notin S
               PROVE  FALSE
    OBVIOUS
  <2>1. PICK x : x \in S
    OBVIOUS
  <2>2. m - 1 \in Nat
    <3>1. x \in Nat /\ x <= m /\ x # m
      BY <2>1, <1>3
    <3> QED
      BY <3>1
  <2>3. \A y \in S : y <= m - 1
    BY <1>3
  <2> QED
    BY <2>2, <2>3, <1>3
<1> QED
  BY <1>3, <1>4 DEF Max

(* InTurn lists disjoint groups of lines, each once, the oldest first.     *)
LEMMA InTurnLists ==
    ASSUME NEW groups, IsFiniteSet(groups), groups \subseteq SUBSET Nat,
           \A g \in groups : g # {},
           \A g, h \in groups : g # h => g \cap h = {}
    PROVE  /\ InTurn(groups) \in Seq(groups)
           /\ \A g \in groups : \E k \in DOMAIN InTurn(groups) : InTurn(groups)[k] = g
           /\ \A j, k \in DOMAIN InTurn(groups) :
                 j < k => /\ Before(InTurn(groups)[j], InTurn(groups)[k])
                          /\ InTurn(groups)[j] \cap InTurn(groups)[k] = {}
<1> DEFINE older(g) == {h \in groups : Min(h) < Min(g)}
           rank == [g \in groups |-> Cardinality(older(g))]
           n == Cardinality(groups)
           q == InTurn(groups)
<1>n. n \in Nat
  BY FS_CardinalityType
<1>1. \A g \in groups : /\ Min(g) \in g /\ Min(g) \in Nat
                        /\ \A y \in g : Min(g) <= y
  BY LeastLine
<1>2. \A g \in groups : /\ IsFiniteSet(older(g)) /\ Cardinality(older(g)) \in Nat
                        /\ Cardinality(older(g)) < n
  <2> TAKE g \in groups
  <2> DEFINE o == older(g)
  <2>1. o \in SUBSET groups /\ g \notin o
    BY <1>1
  <2> HIDE DEF o
  <2>2. IsFiniteSet(o) /\ Cardinality(o) <= n /\ (n = Cardinality(o) => groups = o)
    BY <2>1, FS_Subset
  <2>3. Cardinality(o) \in Nat
    BY <2>2, FS_CardinalityType
  <2>4. IsFiniteSet(o) /\ Cardinality(o) \in Nat /\ Cardinality(o) < n
    BY <2>1, <2>2, <2>3, <1>n
  <2> QED
    BY <2>4 DEF o
<1>3. \A g, h \in groups : Min(g) < Min(h) => rank[g] < rank[h]
  <2> SUFFICES ASSUME NEW g \in groups, NEW h \in groups, Min(g) < Min(h)
               PROVE  Cardinality(older(g)) < Cardinality(older(h))
    OBVIOUS
  <2> DEFINE o == older(g)
             p == older(h)
  <2>1. o \cup {g} \in SUBSET p /\ g \notin o
    BY <1>1
  <2>2. IsFiniteSet(o) /\ IsFiniteSet(p) /\ Cardinality(o) \in Nat /\ Cardinality(p) \in Nat
    BY <1>2
  <2> HIDE DEF o, p
  <2>3. Cardinality(o \cup {g}) = Cardinality(o) + 1
    BY <2>1, <2>2, FS_AddElement
  <2>4. Cardinality(o \cup {g}) <= Cardinality(p)
    BY <2>1, <2>2, FS_Subset
  <2>5. Cardinality(o) < Cardinality(p)
    BY <2>2, <2>3, <2>4
  <2> QED
    BY <2>5 DEF o, p
<1>4. \A g, h \in groups : g # h => Min(g) # Min(h)
  BY <1>1
<1>5. \A g, h \in groups : rank[g] = rank[h] => g = h
  <2> TAKE g, h \in groups
  <2>1. rank[g] \in Nat /\ rank[h] \in Nat
    BY <1>2
  <2>2. g # h => Min(g) < Min(h) \/ Min(h) < Min(g)
    BY <1>1, <1>4
  <2> HIDE DEF rank
  <2> QED
    BY <2>1, <2>2, <1>3
<1>6. rank \in [groups -> 0..(n - 1)]
  BY <1>2, <1>n
<1>7. rank \in Surjection(groups, 0..(n - 1))
  <2>1. rank \in Injection(groups, 0..(n - 1))
    <3> HIDE DEF rank, n
    <3> QED
      BY <1>5, <1>6, Fun_IsInj
  <2>2. IsFiniteSet(0..(n - 1)) /\ Cardinality(0..(n - 1)) = n
    BY <1>n, FS_Interval
  <2> HIDE DEF rank
  <2> QED
    BY <2>1, <2>2, FS_Injection
<1>8. \A k \in 1..n : \E g \in groups : rank[g] = k - 1
  <2> TAKE k \in 1..n
  <2>1. k - 1 \in 0..(n - 1)
    BY <1>n
  <2> HIDE DEF rank
  <2> QED
    BY <2>1, <1>7 DEF Surjection
<1>9. \A k \in 1..n : q[k] \in groups /\ rank[q[k]] = k - 1
  <2> TAKE k \in 1..n
  <2>1. \E g \in groups : Cardinality(older(g)) = k - 1
    BY <1>8
  <2>2. q[k] = CHOOSE g \in groups : Cardinality(older(g)) = k - 1
    BY DEF InTurn
  <2>3. q[k] \in groups /\ Cardinality(older(q[k])) = k - 1
    <3> HIDE DEF older, q
    <3> QED
      BY <2>1, <2>2, Zenon
  <2> QED
    BY <2>3
<1>10. DOMAIN q = 1..n
  BY DEF InTurn
<1>11. q \in Seq(groups)
  <2> DEFINE pick(k) == CHOOSE g \in groups : Cardinality(older(g)) = k - 1
  <2>1. q = [k \in 1..n |-> pick(k)]
    BY DEF InTurn
  <2> HIDE DEF q, pick, rank
  <2>2. q \in [1..n -> groups]
    BY <2>1, <1>9
  <2> QED
    BY <2>2, <1>n
<1>12. \A g \in groups : \E k \in DOMAIN q : q[k] = g
  <2> TAKE g \in groups
  <2>1. rank[g] + 1 \in 1..n
    BY <1>6, <1>n
  <2> HIDE DEF rank, q, n
  <2>2. rank[q[rank[g] + 1]] = rank[g] /\ q[rank[g] + 1] \in groups
    BY <2>1, <1>6, <1>9, <1>n
  <2>3. q[rank[g] + 1] = g
    BY <2>2, <1>5
  <2> QED
    BY <2>1, <2>3, <1>10
<1>13. \A j, k \in DOMAIN q : j < k => Before(q[j], q[k]) /\ q[j] \cap q[k] = {}
  <2> SUFFICES ASSUME NEW j \in 1..n, NEW k \in 1..n, j < k
               PROVE  Before(q[j], q[k]) /\ q[j] \cap q[k] = {}
    BY <1>10
  <2> DEFINE g == q[j]
             h == q[k]
  <2>1. g \in groups /\ h \in groups /\ rank[g] = j - 1 /\ rank[h] = k - 1
    BY <1>9
  <2> HIDE DEF rank, q, n, g, h
  <2>2. g # h
    BY <2>1, <1>n
  <2>3. ~(Min(h) < Min(g))
    BY <2>1, <1>3, <1>n
  <2>4. Min(g) < Min(h)
    BY <2>1, <2>2, <2>3, <1>1, <1>4
  <2>5. Before(g, h)
    BY <2>1, <2>4, <1>1 DEF Before
  <2> QED
    BY <2>1, <2>2, <2>5 DEF g, h
<1> QED
  BY <1>11, <1>12, <1>13

-----------------------------------------------------------------------------
(* What a plan stands for                                                  *)

LEMMA OneMessage ==
    ASSUME NEW first, NEW last, NEW m \in SUBSET (first..last), m # {}
    PROVE  /\ Orderly(<<m>>, first, last)
           /\ \A i \in m : \E k \in DOMAIN <<m>> : i \in <<m>>[k]
<1> DEFINE q == <<m>>
<1>1. q \in Seq(SUBSET (first..last)) /\ DOMAIN q = {1} /\ q[1] = m
  OBVIOUS
<1> HIDE DEF q
<1>2. Orderly(q, first, last)
  BY <1>1 DEF Orderly
<1>3. \A i \in m : \E k \in DOMAIN q : i \in q[k]
  BY <1>1
<1> QED
  BY <1>2, <1>3 DEF q

LEMMA RunEnds ==
    ASSUME NEW first \in Nat, NEW last \in Nat, first <= last, IsDigest(log[first])
    PROVE  /\ RunEnd(first, last) \in first..last
           /\ \A i \in first..RunEnd(first, last) : IsDigest(log[i])
<1> DEFINE ends == {e \in first..last : \A i \in first..e : IsDigest(log[i])}
<1>1. first \in ends
  OBVIOUS
<1>2. ends \subseteq 0..last
  OBVIOUS
<1>3. Max(ends) \in ends
  <2> HIDE DEF ends
  <2> QED
    BY <1>1, <1>2, GreatestLine
<1> QED
  BY <1>3 DEF RunEnd

LEMMA RollEnds ==
    ASSUME NEW first \in Nat, NEW last \in Nat, first <= last, Rolls(first)
    PROVE  /\ RollEnd(first, last) \in first..last
           /\ \A i \in first..RollEnd(first, last) :
                 log[i].kind = "merged" \/ ~Admitted(log[i])
<1> DEFINE ends == {e \in first..last :
                       \A i \in first..e : log[i].kind = "merged" \/ ~Admitted(log[i])}
<1>1. first \in ends
  BY DEF Rolls
<1>2. ends \subseteq 0..last
  OBVIOUS
<1>3. Max(ends) \in ends
  <2> HIDE DEF ends
  <2> QED
    BY <1>1, <1>2, GreatestLine
<1> QED
  BY <1>3 DEF RollEnd

(* The alerts of a run fall into groups: every one that the level admits   *)
(* into one, and none into two.                                            *)
LEMMA AlertGroups ==
    ASSUME NEW first \in Nat, NEW last \in Nat,
           \A i \in first..last : IsDigest(log[i])
    PROVE  /\ IsFiniteSet(Alerts(first, last))
           /\ \A g \in Alerts(first, last) : g \subseteq first..last /\ g # {}
           /\ \A g, h \in Alerts(first, last) : g # h => g \cap h = {}
           /\ \A i \in first..last :
                 Admitted(log[i]) => \E g \in Alerts(first, last) : i \in g
<1> DEFINE alerts == {i \in first..last : log[i].kind = "alert"}
           like(j) == {i \in first..last : log[i] = log[j]}
           group == [j \in alerts |-> like(j)]
<1>1. Alerts(first, last) = {like(j) : j \in alerts}
  BY DEF Alerts
<1>2. \A j \in alerts : like(j) \subseteq first..last /\ j \in like(j)
  OBVIOUS
<1>3. IsFiniteSet(Alerts(first, last))
  <2>1. IsFiniteSet(alerts)
    <3>1. IsFiniteSet(first..last) /\ alerts \in SUBSET (first..last)
      BY FS_Interval
    <3> HIDE DEF alerts
    <3> QED
      BY <3>1, FS_Subset
  <2>2. group \in Surjection(alerts, Alerts(first, last))
    <3> HIDE DEF like, alerts
    <3> QED
      BY <1>1 DEF Surjection
  <2> HIDE DEF group, alerts
  <2> QED
    BY <2>1, <2>2, FS_Surjection
<1>4. \A j, k \in alerts : like(j) # like(k) => like(j) \cap like(k) = {}
  OBVIOUS
<1>5. ASSUME NEW i \in first..last, Admitted(log[i])
      PROVE  i \in alerts
  BY <1>5 DEF Admitted, IsDigest
<1> HIDE DEF like, alerts
<1> QED
  BY <1>1, <1>2, <1>3, <1>4, <1>5

LEMMA PlannedSound ==
    ASSUME NEW b, b.first \in Nat, b.last \in Nat, b.first <= b.last
    PROVE  LET planned == Planned(b)
           IN  /\ planned.end \in b.first..b.last
               /\ Orderly(planned.queue, b.first, planned.end)
               /\ \A i \in b.first..planned.end :
                     Admitted(log[i]) =>
                        \E k \in DOMAIN planned.queue : i \in planned.queue[k]
<1> DEFINE first == b.first
           last == b.last
           Right(plan) ==
             /\ plan.end \in first..last
             /\ Orderly(plan.queue, first, plan.end)
             /\ \A i \in first..plan.end :
                   Admitted(log[i]) => \E k \in DOMAIN plan.queue : i \in plan.queue[k]
<1>0. first \in Nat /\ last \in Nat /\ first <= last
  OBVIOUS
<1>r. ASSUME NEW end \in first..last, NEW queue, Orderly(queue, first, end),
             \A i \in first..end : Admitted(log[i]) => \E k \in DOMAIN queue : i \in queue[k]
      PROVE  Right([end |-> end, queue |-> queue])
  BY <1>r
<1>1. CASE IsDigest(log[first])
  <2> DEFINE e == RunEnd(first, last)
             groups == Alerts(first, e)
             whole == UNION groups
  <2>1. e \in first..last /\ \A i \in first..e : IsDigest(log[i])
    <3> HIDE DEF first, last
    <3> QED
      BY <1>0, <1>1, RunEnds
  <2>2. e \in Nat
    BY <1>0, <2>1
  <2> HIDE DEF e, first, last
  <2>3. /\ IsFiniteSet(groups)
        /\ \A g \in groups : g \subseteq first..e /\ g # {}
        /\ \A g, h \in groups : g # h => g \cap h = {}
        /\ \A i \in first..e : Admitted(log[i]) => \E g \in groups : i \in g
    BY <1>0, <2>1, <2>2, AlertGroups
  <2>4. CASE Cardinality(groups) >= DigestMin
    <3> HIDE DEF groups
    <3>1. groups # {}
      BY <2>4, FS_EmptySet, NotificationsAssumption
    <3>2. whole \in SUBSET (first..e) /\ whole # {}
      BY <2>3, <3>1
    <3> DEFINE q == <<whole>>
    <3>3. Orderly(q, first, e) /\ \A i \in whole : \E k \in DOMAIN q : i \in q[k]
      <4> HIDE DEF whole
      <4> QED
        BY <3>2, OneMessage
    <3>4. \A i \in first..e : Admitted(log[i]) => i \in whole
      BY <2>3
    <3>5. Planned(b) = [end |-> e, queue |-> q]
      BY <1>1, <2>4 DEF Planned, e, first, last, groups
    <3> HIDE DEF q, whole, Right
    <3>6. Right([end |-> e, queue |-> q])
      BY <2>1, <3>3, <3>4, <1>r
    <3> QED
      BY <3>5, <3>6 DEF Right, first, last
  <2>5. CASE ~(Cardinality(groups) >= DigestMin)
    <3> DEFINE q == InTurn(groups)
    <3>1. Planned(b) = [end |-> e, queue |-> q]
      BY <1>1, <2>5 DEF Planned, e, first, last
    <3> HIDE DEF groups
    <3>2. /\ q \in Seq(groups)
          /\ \A g \in groups : \E k \in DOMAIN q : q[k] = g
          /\ \A j, k \in DOMAIN q : j < k => Before(q[j], q[k]) /\ q[j] \cap q[k] = {}
      <4>1. groups \subseteq SUBSET Nat
        BY <2>3, <1>0, <2>2
      <4> QED
        BY <2>3, <4>1, InTurnLists
    <3> HIDE DEF q, Right
    <3>3. Orderly(q, first, e)
      <4> DEFINE subsets == SUBSET (first..e)
      <4>1. groups \subseteq subsets
        BY <2>3
      <4>2. q \in Seq(subsets)
        <5> HIDE DEF subsets
        <5>1. Len(q) \in Nat /\ q \in [1..Len(q) -> groups]
          BY <3>2
        <5>2. q \in [1..Len(q) -> subsets]
          BY <4>1, <5>1
        <5> QED
          BY <5>1, <5>2
      <4>3. \A k \in DOMAIN q : q[k] # {}
        BY <3>2, <2>3
      <4> QED
        BY <3>2, <4>2, <4>3 DEF Orderly
    <3>4. \A i \in first..e : Admitted(log[i]) => \E k \in DOMAIN q : i \in q[k]
      <4> TAKE i \in first..e
      <4> HAVE Admitted(log[i])
      <4>1. PICK g \in groups : i \in g
        BY <2>3
      <4>2. PICK k \in DOMAIN q : q[k] = g
        BY <3>2
      <4> QED
        BY <4>1, <4>2
    <3>5. Right([end |-> e, queue |-> q])
      BY <2>1, <3>3, <3>4, <1>r
    <3> QED
      BY <3>1, <3>5 DEF Right, first, last
  <2> QED
    BY <2>4, <2>5
<1>2. CASE ~IsDigest(log[first]) /\ Rolls(first)
  <2> DEFINE e == RollEnd(first, last)
             roll == {i \in first..e : log[i].kind = "merged"}
             q == <<roll>>
  <2>1. Planned(b) = [end |-> e, queue |-> q]
    BY <1>2 DEF Planned
  <2>2. /\ e \in first..last
        /\ \A i \in first..e : log[i].kind = "merged" \/ ~Admitted(log[i])
    <3> HIDE DEF first, last
    <3> QED
      BY <1>0, <1>2, RollEnds
  <2>3. roll \in SUBSET (first..e) /\ roll # {}
    <3>1. first \in roll
      BY <1>2, <2>2 DEF Rolls
    <3> QED
      BY <3>1
  <2> HIDE DEF first, last, e
  <2>4. Orderly(q, first, e) /\ \A i \in roll : \E k \in DOMAIN q : i \in q[k]
    <3> HIDE DEF roll
    <3> QED
      BY <2>3, OneMessage
  <2>5. \A i \in first..e : Admitted(log[i]) => i \in roll
    BY <2>2
  <2> HIDE DEF q, roll, Right
  <2>6. Right([end |-> e, queue |-> q])
    BY <2>2, <2>4, <2>5, <1>r
  <2> QED
    BY <2>1, <2>6 DEF Right, first, last
<1>3. CASE ~IsDigest(log[first]) /\ ~Rolls(first)
  <2> DEFINE one == {first}
             q == IF Admitted(log[first]) THEN <<one>> ELSE <<>>
  <2>1. Planned(b) = [end |-> first, queue |-> q]
    BY <1>3 DEF Planned
  <2> HIDE DEF first, last, Right
  <2>2. one \in SUBSET (first..first) /\ one # {} /\ first \in first..last
    BY <1>0
  <2>3. Right([end |-> first, queue |-> q])
    <3>1. CASE Admitted(log[first])
      <4> DEFINE single == <<one>>
      <4>1. Orderly(single, first, first) /\ \A i \in one : \E k \in DOMAIN single : i \in single[k]
        <5> HIDE DEF one
        <5> QED
          BY <2>2, OneMessage
      <4>2. \A i \in first..first : i \in one
        BY <1>0
      <4> HIDE DEF single, one
      <4>3. Right([end |-> first, queue |-> single])
        BY <2>2, <4>1, <4>2, <1>r
      <4> QED
        BY <3>1, <4>3 DEF single, one
    <3>2. CASE ~Admitted(log[first])
      <4>1. Orderly(q, first, first)
        <5>1. q \in Seq(SUBSET (first..first)) /\ DOMAIN q = {}
          BY <3>2
        <5> HIDE DEF q
        <5> QED
          BY <5>1 DEF Orderly
      <4>2. \A i \in first..first : ~Admitted(log[i])
        BY <3>2, <1>0
      <4> HIDE DEF q
      <4> QED
        BY <2>2, <4>1, <4>2, <1>r
    <3> QED
      BY <3>1, <3>2
  <2> QED
    BY <2>1, <2>3 DEF Right, first, last
<1> QED
  BY <1>1, <1>2, <1>3

-----------------------------------------------------------------------------
(* What is logged                                                          *)

LEMMA LineTypes ==
    ASSUME NEW t \in Tasks
    PROVE  /\ Line("merged", t, "") \in Lines /\ Line("opened", t, "") \in Lines
           /\ \A why \in Whys : Line("alert", t, why) \in Lines
           /\ \A kind \in {"alert", "quiet"} : Line(kind, t, "gate") \in Lines
           /\ Silent \in Lines
BY DEF Line, Lines, Whys, Silent

LEMMA OneLine == \A l \in Lines : <<l>> \in Seq(Lines)
OBVIOUS

LEMMA AppendedIn ==
    ASSUME log \in Seq(Lines), NEW l \in Lines
    PROVE  /\ Appended(l) \in Seq(Lines)
           /\ Len(Appended(l)) = Len(log) + 1
           /\ \A i \in DOMAIN log : Appended(l)[i] = log[i]
<1> DEFINE m == IF torn THEN [l EXCEPT !.kind = "lost"] ELSE l
<1>1. m \in Lines
  BY DEF Lines
<1>2. Appended(l) = Append(log, m)
  BY DEF Appended
<1> HIDE DEF m
<1> QED
  BY <1>1, <1>2

LEMMA ReconcileTypes ==
    ASSUME NEW t \in Tasks, NEW seen \in {"open", "merged", "blocked"}, NEW late \in BOOLEAN
    PROVE  ReconcileLines(t, seen, late) \in Seq(Lines)
<1> DEFINE before == next[t]
           after == Reconciled(next[t], seen)
           event == PhaseEvent(t, before, after, late)
           blocked == IF seen = "blocked" THEN <<Line("alert", t, "worker_blocked")>> ELSE <<>>
<1>1. event \in Seq(Lines)
  <2> HIDE DEF before, after
  <2>1. event \in {<<>>, <<Line("opened", t, "")>>, <<Line("merged", t, "")>>,
                   <<Line("alert", t, "task_escalated")>>}
    BY Zenon DEF PhaseEvent
  <2>2. <<>> \in Seq(Lines)
    OBVIOUS
  <2>3. "task_escalated" \in Whys
    BY DEF Whys
  <2> HIDE DEF event
  <2> QED
    BY <2>1, <2>2, <2>3, LineTypes, OneLine, Zenon
<1>2. blocked \in Seq(Lines)
  <2>1. "worker_blocked" \in Whys
    BY DEF Whys
  <2>2. blocked \in {<<>>, <<Line("alert", t, "worker_blocked")>>}
    OBVIOUS
  <2>3. <<>> \in Seq(Lines)
    OBVIOUS
  <2> HIDE DEF blocked
  <2> QED
    BY <2>1, <2>2, <2>3, LineTypes, OneLine, Zenon
<1>3. ReconcileLines(t, seen, late) = event \o blocked
  BY DEF ReconcileLines
<1> HIDE DEF event, blocked
<1> QED
  BY <1>1, <1>2, <1>3

LEMMA LogTyped == LogTypes /\ [Next]_vars => LogTypes'
<1> SUFFICES ASSUME LogTypes, [Next]_vars
             PROVE  LogTypes'
  OBVIOUS
<1> USE DEF LogTypes
<1>1. CASE AppendDue
  <2>1. Head(due) \in Lines /\ due' \in Seq(Lines)
    BY <1>1 DEF AppendDue
  <2> QED
    BY <1>1, <2>1, AppendedIn DEF AppendDue
<1>2. CASE Chatter
  <2>1. Silent \in Lines
    BY DEF Silent, Line, Lines, Whys
  <2> QED
    BY <1>2, <2>1, AppendedIn DEF Chatter, daemonVars
<1>3. CASE BeginPass
  BY <1>3, ReconcileTypes DEF BeginPass, logVars
<1>4. CASE MergePass
  <2>1. Silent \in Lines /\ \A t \in Tasks, kind \in {"alert", "quiet"} : Line(kind, t, "gate") \in Lines
    BY DEF Silent, Line, Lines, Whys
  <2>2. \E l \in Lines : due' = <<l>>
    BY <1>4, <2>1 DEF MergePass, MergePassDone
  <2> QED
    BY <1>4, <2>2 DEF MergePass, logVars
<1>5. CASE Crash
  BY <1>5 DEF Crash
<1>6. CASE Age \/ Save \/ BotStep \/ SendOk \/ SendFails \/ Reconnect \/ UNCHANGED vars
  BY <1>6 DEF Age, Save, BotStep, Read, Rest, Plan, Resume, Render, Complete, RetryAt, SendOk,
              SendFails, Reconnect, vars, daemonVars, logVars
<1> QED
  BY <1>1, <1>2, <1>3, <1>4, <1>5, <1>6 DEF Next, DaemonStep

-----------------------------------------------------------------------------
(* One action at a time                                                    *)

(* The daemon's own business, time that passes and a wait that is over.    *)
LEMMA QuietStep ==
    ASSUME NotifyInv, LogTypes',
           UNCHANGED <<log, offset, file, bpc, batch, flight, ghostVars>>
    PROVE  NotifyInv'
<1> USE DEF ghostVars
<1>1. CursorTypes' /\ PostTypes'
  BY DEF NotifyInv, CursorTypes, PostTypes
<1>2. FlightInv' /\ BotInv'
  BY DEF NotifyInv, FlightInv, BotInv
<1>3. Covered'
  BY DEF NotifyInv, Covered, Posted
<1>4. NothingMissed'
  BY DEF NotifyInv, NothingMissed, Told, Posted, LeftBehind
<1>5. Counted'
  BY DEF NotifyInv, Counted, Times, Untold, Faults
<1>6. InOrder'
  BY DEF NotifyInv, InOrder
<1> QED
  BY <1>1, <1>2, <1>3, <1>4, <1>5, <1>6 DEF NotifyInv

(* A line behind the others changes nothing about them.                    *)
LEMMA LogGrows ==
    ASSUME NotifyInv, LogTypes', NEW l \in Lines, log' = Appended(l),
           UNCHANGED <<botVars, ghostVars>>
    PROVE  NotifyInv'
<1> USE DEF ghostVars, botVars
<1> DEFINE n == Len(log)
<1>0. /\ n \in Nat /\ DOMAIN log = 1..n /\ DOMAIN log' = 1..(n + 1) /\ Len(log') = n + 1
      /\ \A i \in 1..n : log'[i] = log[i]
  <2>1. log \in Seq(Lines) /\ log' \in Seq(Lines)
    BY DEF NotifyInv, LogTypes
  <2>2. Len(log') = Len(log) + 1 /\ \A i \in DOMAIN log : log'[i] = log[i]
    BY <2>1, AppendedIn
  <2> QED
    BY <2>1, <2>2
<1> HIDE DEF n
<1>n. n = Len(log)
  BY DEF n
<1>1. CursorTypes' /\ PostTypes'
  <2>1. CursorTypes'
    BY <1>0, <1>n DEF NotifyInv, CursorTypes
  <2>2. PostTypes'
    BY <1>0 DEF NotifyInv, PostTypes
  <2> QED
    BY <2>1, <2>2
<1>2. FlightInv' /\ BotInv'
  <2>1. FlightInv'
    BY <1>0, <1>n DEF NotifyInv, FlightInv
  <2>2. BotInv'
    BY <1>0, <1>n DEF NotifyInv, BotInv
  <2> QED
    BY <2>1, <2>2
<1>3. Covered'
  <2>1. offset \in Nat /\ flight.end \in 0..n
    BY <1>n DEF NotifyInv, CursorTypes, FlightInv
  <2>2. \A i \in (offset + 1)..flight.end : i \in 1..n
    BY <2>1, <1>0
  <2> QED
    BY <2>2, <1>0 DEF NotifyInv, Covered, Posted
<1>4. NothingMissed'
  <2> SUFFICES ASSUME NEW i \in 1..offset, Admitted(log[i])
               PROVE  Told(i)'
    <3>1. \A i \in 1..offset : i \in 1..n
      BY <1>0, <1>n DEF NotifyInv, CursorTypes
    <3> QED
      BY <3>1, <1>0 DEF NothingMissed
  <2>1. i \in 1..n
    BY <1>0, <1>n DEF NotifyInv, CursorTypes
  <2>2. CASE Posted(i)
    BY <2>2 DEF Told, Posted
  <2>3. CASE LeftBehind(i)
    <3> DEFINE was == {j \in (i + 1)..n : log[j].kind # "lost"}
               is == {j \in (i + 1)..(n + 1) : log'[j].kind # "lost"}
    <3>1. was \in SUBSET is /\ is \in SUBSET ((i + 1)..(n + 1))
      BY <1>0, <2>1
    <3>2. IsFiniteSet((i + 1)..(n + 1))
      BY <1>0, <2>1, FS_Interval
    <3>3. Cardinality(was) >= Backlog
      BY <2>3, <1>n DEF LeftBehind
    <3>4. LeftBehind(i)' <=> i \in skipped /\ Cardinality(is) >= Backlog
      BY <1>0, <1>n DEF LeftBehind
    <3>5. i \in skipped
      BY <2>3 DEF LeftBehind
    <3> HIDE DEF was, is
    <3>6. IsFiniteSet(is) /\ IsFiniteSet(was) /\ Cardinality(was) <= Cardinality(is)
      BY <3>1, <3>2, FS_Subset
    <3>7. Cardinality(was) \in Nat /\ Cardinality(is) \in Nat
      BY <3>6, FS_CardinalityType
    <3>8. Cardinality(is) >= Backlog
      BY <3>3, <3>6, <3>7, NotificationsAssumption
    <3> QED
      BY <3>4, <3>5, <3>8 DEF Told
  <2>4. Told(i)
    BY DEF NotifyInv, NothingMissed
  <2> QED
    BY <2>2, <2>3, <2>4 DEF Told
<1>5. Counted'
  <2>1. \A i : Times(i)' = Times(i) /\ (Untold(i)' <=> Untold(i)) /\ Faults' = Faults
    BY DEF Times, Untold, Faults
  <2>2. Times(n + 1) = 0
    <3>1. \A k \in DOMAIN posts : n + 1 \notin posts[k]
      BY <1>0 DEF NotifyInv, PostTypes
    <3>2. {k \in DOMAIN posts : n + 1 \in posts[k]} = {}
      BY <3>1
    <3> QED
      BY <3>2, FS_EmptySet DEF Times
  <2>3. Faults \in Nat
    BY DEF NotifyInv, CursorTypes, Faults
  <2>4. \A i \in 1..n : Times(i) <= IF Untold(i) THEN Faults ELSE Faults + 1
    BY <1>0 DEF NotifyInv, Counted
  <2>5. \A i \in 1..(n + 1) : i \in 1..n \/ i = n + 1
    BY <1>0
  <2>6. \A i \in 1..(n + 1) : Times(i) <= IF Untold(i) THEN Faults ELSE Faults + 1
    BY <2>2, <2>3, <2>4, <2>5
  <2> QED
    BY <2>1, <2>6, <1>0 DEF Counted
<1>6. InOrder'
  <2>1. \A k \in DOMAIN posts : \A i \in 1..(Min(posts[k]) - 1) : i \in 1..n
    <3> TAKE k \in DOMAIN posts
    <3>1. posts[k] # {} /\ posts[k] \subseteq 1..n
      BY <1>0 DEF NotifyInv, PostTypes
    <3>2. Min(posts[k]) \in 1..n
      <4>1. posts[k] \subseteq Nat
        BY <3>1
      <4> QED
        BY <3>1, <4>1, LeastLine
    <3> QED
      BY <3>2, <1>0
  <2> QED
    BY <2>1, <1>0 DEF NotifyInv, InOrder
<1> QED
  BY <1>1, <1>2, <1>3, <1>4, <1>5, <1>6 DEF NotifyInv

(* What a step of the bot that sends nothing leaves as it is.              *)
LEMMA SameStory ==
    ASSUME NotifyInv, UNCHANGED <<log, offset, file, ghostVars>>
    PROVE  /\ CursorTypes' /\ PostTypes' /\ NothingMissed' /\ InOrder'
           /\ Faults' = Faults /\ \A i : Times(i)' = Times(i)
           /\ \A i : Posted(i)' <=> Posted(i)
<1> USE DEF ghostVars
<1>1. CursorTypes' /\ PostTypes'
  BY DEF NotifyInv, CursorTypes, PostTypes
<1>2. NothingMissed' /\ InOrder'
  BY DEF NotifyInv, NothingMissed, Told, Posted, LeftBehind, InOrder
<1>3. /\ Faults' = Faults /\ \A i : Times(i)' = Times(i)
      /\ \A i : Posted(i)' <=> Posted(i)
  BY DEF Faults, Times, Posted
<1> QED
  BY <1>1, <1>2, <1>3

(* ... and what it leaves as it is when the flight still stands for the    *)
(* same lines.                                                             *)
LEMMA SameFlight ==
    ASSUME NotifyInv, UNCHANGED <<log, offset, file, ghostVars>>,
           flight'.end = flight.end,
           Waiting(flight.rendered, flight.queue)' = Waiting(flight.rendered, flight.queue)
    PROVE  Covered' /\ Counted'
<1>1. /\ Faults' = Faults /\ \A i : Times(i)' = Times(i)
      /\ \A i : Posted(i)' <=> Posted(i)
  BY SameStory
<1>2. Covered'
  BY <1>1 DEF NotifyInv, Covered
<1>3. \A i : Untold(i)' <=> Untold(i)
  BY DEF Untold
<1>4. Counted'
  BY <1>1, <1>3 DEF NotifyInv, Counted
<1> QED
  BY <1>2, <1>4

(* The front of a sound queue leaves it for the channel.                   *)
LEMMA TakesUp ==
    ASSUME NEW first \in Int, NEW last \in Int, NEW queue,
           Orderly(queue, first, last), queue # <<>>
    PROVE  /\ Sound(Head(queue), Tail(queue), first, last)
           /\ Waiting(Head(queue), Tail(queue)) = Waiting({}, queue)
           /\ Head(queue) # {}
<1> DEFINE messages == SUBSET (first..last)
           head == Head(queue)
           tail == Tail(queue)
           n == Len(queue)
<1>1. queue \in Seq(messages)
  BY DEF Orderly
<1>2. /\ n \in Nat \ {0} /\ DOMAIN queue = 1..n
      /\ head = queue[1] /\ head \in messages
      /\ tail \in Seq(messages) /\ DOMAIN tail = 1..(n - 1)
      /\ \A k \in 1..(n - 1) : tail[k] = queue[k + 1]
  <2> HIDE DEF messages
  <2> QED
    BY <1>1
<1> HIDE DEF head, tail, n
<1>3. \A k \in DOMAIN tail : k \in DOMAIN queue /\ k + 1 \in DOMAIN queue /\ tail[k] = queue[k + 1] /\ 1 < k + 1
  BY <1>2
<1>4. Orderly(tail, first, last)
  <2>1. \A k \in DOMAIN tail : tail[k] # {}
    BY <1>3 DEF Orderly
  <2>2. ASSUME NEW j \in DOMAIN tail, NEW k \in DOMAIN tail, j < k
        PROVE  Before(tail[j], tail[k]) /\ tail[j] \cap tail[k] = {}
    <3>1. j + 1 < k + 1
      BY <1>2, <2>2
    <3> QED
      BY <1>3, <3>1 DEF Orderly
  <2> QED
    BY <1>2, <2>1, <2>2 DEF Orderly
<1>5. 1 \in DOMAIN queue
  BY <1>2
<1>6. \A k \in DOMAIN tail : Before(head, tail[k]) /\ head \cap tail[k] = {}
  <2> TAKE k \in DOMAIN tail
  <2>1. 1 \in DOMAIN queue /\ k + 1 \in DOMAIN queue /\ 1 < k + 1
    BY <1>3, <1>5
  <2>2. Before(queue[1], queue[k + 1]) /\ queue[1] \cap queue[k + 1] = {}
    BY <2>1 DEF Orderly
  <2> QED
    BY <1>2, <1>3, <2>2
<1>7. head # {}
  BY <1>2, <1>5 DEF Orderly
<1>8. Sound(head, tail, first, last)
  BY <1>2, <1>4, <1>6 DEF Sound
<1>9. Waiting(head, tail) = Waiting({}, queue)
  <2>1. ASSUME NEW k \in DOMAIN queue, k # 1
        PROVE  k - 1 \in DOMAIN tail /\ tail[k - 1] = queue[k]
    <3>1. k \in 1..n /\ k - 1 \in 1..(n - 1) /\ (k - 1) + 1 = k
      BY <1>2, <2>1
    <3> QED
      BY <1>2, <3>1
  <2>2. \A i : i \in Waiting(head, tail) <=> i \in head \/ \E k \in DOMAIN tail : i \in tail[k]
    BY DEF Waiting
  <2>3. \A i : i \in Waiting({}, queue) <=> \E k \in DOMAIN queue : i \in queue[k]
    BY DEF Waiting
  <2>4. ASSUME NEW i, i \in Waiting({}, queue)
        PROVE  i \in Waiting(head, tail)
    <3>1. PICK k \in DOMAIN queue : i \in queue[k]
      BY <2>3, <2>4
    <3> QED
      BY <2>1, <2>2, <3>1, <1>2
  <2>5. ASSUME NEW i, i \in Waiting(head, tail)
        PROVE  i \in Waiting({}, queue)
    BY <2>2, <2>3, <2>5, <1>2, <1>3, <1>5
  <2> QED
    BY <2>4, <2>5
<1> QED
  BY <1>7, <1>8, <1>9 DEF head, tail

(* Nothing is in flight.                                                   *)
LEMMA GroundFlight ==
    /\ DOMAIN NoFlight = {"queue", "rendered", "translating", "end", "fresh"}
    /\ NoFlight.end = 0 /\ ~NoFlight.translating
    /\ \A first : Sound(NoFlight.rendered, NoFlight.queue, first, 0)
<1>1. NoFlight.rendered = {} /\ NoFlight.queue = <<>>
  BY DEF NoFlight
<1>2. ASSUME NEW first
      PROVE  Sound({}, <<>>, first, 0)
  <2> DEFINE q == <<>>
             messages == SUBSET (first..0)
  <2>1. q \in Seq(messages) /\ DOMAIN q = {}
    OBVIOUS
  <2>2. Orderly(q, first, 0)
    <3> HIDE DEF q
    <3> QED
      BY <2>1 DEF Orderly
  <2> QED
    BY <2>2 DEF Sound
<1> QED
  BY <1>1, <1>2 DEF NoFlight

LEMMA TimesFinite ==
    ASSUME PostTypes
    PROVE  \A i : /\ IsFiniteSet({k \in DOMAIN posts : i \in posts[k]})
                  /\ Times(i) \in Nat
<1> TAKE i
<1> DEFINE ks == {k \in DOMAIN posts : i \in posts[k]}
<1>1. DOMAIN posts = 1..Len(posts) /\ Len(posts) \in Nat
  BY DEF PostTypes
<1>2. ks \in SUBSET (1..Len(posts)) /\ IsFiniteSet(1..Len(posts))
  BY <1>1, FS_Interval
<1>3. Times(i) = Cardinality(ks)
  BY DEF Times
<1> HIDE DEF ks
<1>4. IsFiniteSet(ks) /\ Cardinality(ks) \in Nat
  BY <1>2, FS_Subset, FS_CardinalityType
<1> QED
  BY <1>3, <1>4 DEF ks

LEMMA ReadStep == NotifyInv /\ LogTypes' /\ Read => NotifyInv'
<1> SUFFICES ASSUME NotifyInv, LogTypes', Read
             PROVE  NotifyInv'
  OBVIOUS
<1>0. UNCHANGED <<log, offset, file, flight, ghostVars>>
  BY DEF Read, logVars
<1>1. BoundedEnd(offset + 1, ReadEnd) \in 0..Len(log)
  <2> DEFINE n == Len(log)
             reads == {n, offset + ReadLimit}
             last == ReadEnd
             limits == {last, (offset + 1) + BatchLimit - 1}
             limit == Min(limits)
             ends == {e \in limit..last :
                        \A i \in limit..(e - 1) : IsDigest(log[i]) /\ IsDigest(log[i + 1])}
  <2>1. n \in Nat /\ offset \in 0..n
    BY DEF NotifyInv, CursorTypes, LogTypes
  <2> HIDE DEF n
  <2>2. last \in Nat /\ last <= n
    <3>1. reads \subseteq Nat /\ reads # {} /\ n \in reads
      BY <2>1, NotificationsAssumption
    <3>2. last = Min(reads)
      BY DEF ReadEnd, n
    <3> HIDE DEF reads, last
    <3>3. Min(reads) \in reads /\ Min(reads) <= n
      BY <3>1, LeastLine
    <3> QED
      BY <3>1, <3>2, <3>3
  <2> HIDE DEF last
  <2>3. limit \in Nat /\ limit <= last
    <3>1. limits \subseteq Nat /\ limits # {} /\ last \in limits
      BY <2>1, <2>2, NotificationsAssumption
    <3> HIDE DEF limits
    <3> QED
      BY <3>1, LeastLine
  <2>4. BoundedEnd(offset + 1, ReadEnd) = Max(ends)
    BY DEF BoundedEnd, last
  <2> HIDE DEF limit
  <2>5. limit \in ends /\ ends \subseteq 0..last
    BY <2>2, <2>3
  <2>6. Max(ends) \in ends
    <3> HIDE DEF ends
    <3> QED
      BY <2>2, <2>5, GreatestLine
  <2>7. Max(ends) \in 0..n
    BY <2>1, <2>2, <2>5, <2>6
  <2> QED
    BY <2>4, <2>7 DEF n
<1>2. BotInv'
  <2>1. /\ batch'.first = offset + 1 /\ batch'.last = BoundedEnd(offset + 1, ReadEnd)
        /\ bpc' = "plan" /\ flight' = NoFlight
    BY DEF Read
  <2>2. offset \in Nat /\ Len(log) \in Nat
    BY DEF NotifyInv, CursorTypes, LogTypes
  <2> QED
    BY <2>1, <2>2, <1>0, <1>1 DEF BotInv
<1>3. FlightInv'
  BY <1>0 DEF NotifyInv, FlightInv
<1>4. Covered' /\ Counted'
  BY <1>0, SameFlight
<1> QED
  BY <1>0, <1>2, <1>3, <1>4, SameStory DEF NotifyInv

LEMMA RestStep == NotifyInv /\ LogTypes' /\ Rest => NotifyInv'
<1> SUFFICES ASSUME NotifyInv, LogTypes', Rest
             PROVE  NotifyInv'
  OBVIOUS
<1>0. UNCHANGED <<log, offset, file, flight, ghostVars>>
  BY DEF Rest, logVars
<1>2. BotInv'
  <2>1. bpc' = "idle" /\ batch'.first = 1 /\ batch'.last = 0
    BY DEF Rest, NoBatch
  <2>2. Len(log) \in Nat
    BY DEF NotifyInv, LogTypes
  <2> QED
    BY <2>1, <2>2, <1>0 DEF BotInv
<1>3. FlightInv'
  BY <1>0 DEF NotifyInv, FlightInv
<1>4. Covered' /\ Counted'
  BY <1>0, SameFlight
<1> QED
  BY <1>0, <1>2, <1>3, <1>4, SameStory DEF NotifyInv

LEMMA PlanStep == NotifyInv /\ LogTypes' /\ Plan => NotifyInv'
<1> SUFFICES ASSUME NotifyInv, LogTypes', Plan
             PROVE  NotifyInv'
  OBVIOUS
<1> DEFINE planned == Planned(batch)
           end == planned.end
           queue == planned.queue
<1>0. UNCHANGED <<log, offset, file, ghostVars>>
  BY DEF Plan, logVars
<1>1. /\ flight = NoFlight /\ batch.first = offset + 1
      /\ batch.first \in Nat /\ batch.last \in Nat /\ batch.first <= batch.last
      /\ batch.last <= Len(log) /\ offset \in Nat /\ Len(log) \in Nat
  BY DEF Plan, NotifyInv, BotInv, CursorTypes, LogTypes
<1>2. /\ end \in (offset + 1)..batch.last
      /\ Orderly(queue, offset + 1, end)
      /\ \A i \in (offset + 1)..end :
            Admitted(log[i]) => \E k \in DOMAIN queue : i \in queue[k]
  BY <1>1, PlannedSound
<1>3. /\ flight'.end = end /\ flight'.queue = queue /\ flight'.rendered = {}
      /\ flight'.translating = FALSE /\ flight'.fresh = TRUE
      /\ batch'.first = end + 1 /\ batch'.last = batch.last /\ bpc' = "drive"
      /\ DOMAIN flight' = {"queue", "rendered", "translating", "end", "fresh"}
  <2>1. /\ flight' = [NoFlight EXCEPT !.queue = queue, !.end = end, !.fresh = TRUE]
        /\ batch' = [batch EXCEPT !.first = end + 1] /\ bpc' = "drive"
    BY DEF Plan
  <2> QED
    BY <2>1 DEF NoFlight
<1> HIDE DEF end, queue, planned
<1>4. end \in Nat /\ offset < end /\ end <= Len(log)
  BY <1>1, <1>2
<1>5. FlightInv'
  <2>1. Sound({}, queue, offset + 1, end)
    BY <1>2 DEF Sound
  <2>2. Sound(flight.rendered, flight.queue, offset + 1, flight.end)'
    BY <1>0, <1>3, <2>1
  <2> QED
    BY <1>0, <1>3, <1>4, <2>2, <1>1 DEF FlightInv
<1>6. BotInv'
  BY <1>0, <1>1, <1>3, <1>4 DEF BotInv
<1>7. Covered'
  <2>1. \A i : (\E k \in DOMAIN queue : i \in queue[k]) => i \in Waiting({}, queue)
    BY DEF Waiting
  <2>2. Waiting(flight.rendered, flight.queue)' = Waiting({}, queue)
    BY <1>3
  <2> QED
    BY <1>0, <1>2, <1>3, <2>1, <2>2 DEF Covered
<1>8. Counted'
  <2>1. \A i \in DOMAIN log : Untold(i) <=> i > offset
    <3>1. flight.end = 0 /\ DOMAIN log \subseteq Nat \ {0}
      BY <1>1 DEF NoFlight, NotifyInv, LogTypes
    <3> QED
      BY <3>1, <1>1 DEF Untold
  <2>2. \A i \in DOMAIN log : Untold(i)' => Untold(i)
    BY <1>0, <2>1 DEF Untold
  <2>3. Faults \in Nat /\ \A i : Times(i)' = Times(i) /\ Faults' = Faults
    BY <1>0, SameStory DEF NotifyInv, CursorTypes, Faults
  <2>4. ASSUME NEW i \in DOMAIN log
        PROVE  Times(i) <= IF Untold(i)' THEN Faults ELSE Faults + 1
    <3>1. Times(i) <= IF Untold(i) THEN Faults ELSE Faults + 1
      BY DEF NotifyInv, Counted
    <3>2. Times(i) \in Nat
      BY TimesFinite DEF NotifyInv
    <3> QED
      BY <2>2, <2>3, <3>1, <3>2
  <2> QED
    BY <1>0, <2>3, <2>4 DEF Counted
<1> QED
  BY <1>0, <1>5, <1>6, <1>7, <1>8, SameStory DEF NotifyInv

LEMMA ResumeStep == NotifyInv /\ LogTypes' /\ Resume => NotifyInv'
<1> SUFFICES ASSUME NotifyInv, LogTypes', Resume
             PROVE  NotifyInv'
  OBVIOUS
<1>0. UNCHANGED <<log, offset, file, batch, ghostVars>>
  BY DEF Resume, logVars
<1>1. /\ offset \in Nat /\ Len(log) \in Nat /\ flight.end \in 0..Len(log)
      /\ offset < flight.end /\ bpc' = "drive"
  BY DEF Resume, NotifyInv, FlightInv, CursorTypes, LogTypes
<1>2. /\ flight'.end = flight.end /\ ~flight'.translating /\ ~flight'.fresh
      /\ DOMAIN flight' = DOMAIN flight
      /\ Sound(flight'.rendered, flight'.queue, offset + 1, flight.end)
      /\ Waiting(flight.rendered, flight.queue)' = Waiting(flight.rendered, flight.queue)
  <2>1. CASE flight.translating
    <3>1. flight' = [flight EXCEPT !.rendered = Head(flight.queue), !.queue = Tail(@),
                                   !.translating = FALSE, !.fresh = FALSE]
      BY <2>1 DEF Resume
    <3>2. flight.rendered = {} /\ flight.queue # <<>>
      BY <2>1 DEF NotifyInv, FlightInv
    <3>3. Orderly(flight.queue, offset + 1, flight.end)
      BY DEF NotifyInv, FlightInv, Sound
    <3>4. /\ Sound(Head(flight.queue), Tail(flight.queue), offset + 1, flight.end)
          /\ Waiting(Head(flight.queue), Tail(flight.queue)) = Waiting({}, flight.queue)
      BY <1>1, <3>2, <3>3, TakesUp
    <3>5. /\ flight'.rendered = Head(flight.queue) /\ flight'.queue = Tail(flight.queue)
          /\ flight'.end = flight.end /\ flight'.translating = FALSE /\ flight'.fresh = FALSE
          /\ DOMAIN flight' = DOMAIN flight
      BY <3>1 DEF NotifyInv, FlightInv
    <3> QED
      BY <3>2, <3>4, <3>5
  <2>2. CASE ~flight.translating
    <3>1. flight' = [flight EXCEPT !.fresh = FALSE]
      BY <2>2 DEF Resume
    <3>2. /\ flight'.rendered = flight.rendered /\ flight'.queue = flight.queue
          /\ flight'.end = flight.end /\ flight'.translating = flight.translating
          /\ flight'.fresh = FALSE /\ DOMAIN flight' = DOMAIN flight
      BY <3>1 DEF NotifyInv, FlightInv
    <3>3. Sound(flight.rendered, flight.queue, offset + 1, flight.end)
      BY DEF NotifyInv, FlightInv
    <3> QED
      BY <2>2, <3>2, <3>3
  <2> QED
    BY <2>1, <2>2
<1>3. FlightInv'
  BY <1>0, <1>1, <1>2 DEF FlightInv, NotifyInv
<1>4. BotInv'
  BY <1>0, <1>1, <1>2 DEF BotInv, NotifyInv
<1>5. Covered' /\ Counted'
  BY <1>0, <1>2, SameFlight
<1> QED
  BY <1>0, <1>3, <1>4, <1>5, SameStory DEF NotifyInv

LEMMA RenderStep == NotifyInv /\ LogTypes' /\ Render => NotifyInv'
<1> SUFFICES ASSUME NotifyInv, LogTypes', Render
             PROVE  NotifyInv'
  OBVIOUS
<1>0. UNCHANGED <<log, offset, file, ghostVars>>
  BY DEF Render, logVars
<1>1. /\ offset \in Nat /\ Len(log) \in Nat /\ flight.end \in 0..Len(log)
      /\ offset < flight.end /\ ~flight.translating
      /\ flight.fresh => batch.first = flight.end + 1
  BY DEF Render, NotifyInv, FlightInv, BotInv, CursorTypes, LogTypes
<1>2. /\ flight.rendered = {} /\ flight.queue # <<>>
      /\ Sound(flight.rendered, flight.queue, offset + 1, flight.end)
      /\ Orderly(flight.queue, offset + 1, flight.end)
  BY DEF Render, NotifyInv, FlightInv, Sound
<1>3. CASE flight' = [flight EXCEPT !.rendered = Head(flight.queue), !.queue = Tail(@)]
           /\ UNCHANGED <<bpc, batch>>
  <2>1. /\ flight'.rendered = Head(flight.queue) /\ flight'.queue = Tail(flight.queue)
        /\ flight'.end = flight.end /\ flight'.translating = flight.translating
        /\ flight'.fresh = flight.fresh /\ DOMAIN flight' = DOMAIN flight
    BY <1>3 DEF NotifyInv, FlightInv
  <2>2. /\ Sound(Head(flight.queue), Tail(flight.queue), offset + 1, flight.end)
        /\ Waiting(Head(flight.queue), Tail(flight.queue)) = Waiting({}, flight.queue)
    BY <1>1, <1>2, TakesUp
  <2>3. FlightInv'
    BY <1>0, <1>1, <2>1, <2>2 DEF FlightInv, NotifyInv
  <2>4. BotInv'
    BY <1>0, <1>1, <1>3, <2>1 DEF BotInv, NotifyInv, Render
  <2>5. Covered' /\ Counted'
    BY <1>0, <1>2, <2>1, <2>2, SameFlight
  <2> QED
    BY <1>0, <2>3, <2>4, <2>5, SameStory DEF NotifyInv
<1>4. CASE flight' = [flight EXCEPT !.translating = TRUE] /\ bpc' = "idle" /\ batch' = NoBatch
  <2>1. /\ flight'.rendered = flight.rendered /\ flight'.queue = flight.queue
        /\ flight'.end = flight.end /\ DOMAIN flight' = DOMAIN flight
    BY <1>4 DEF NotifyInv, FlightInv
  <2>2. FlightInv'
    BY <1>0, <1>1, <1>2, <2>1 DEF FlightInv, NotifyInv
  <2>3. BotInv'
    BY <1>0, <1>1, <1>4 DEF BotInv, NoBatch
  <2>4. Covered' /\ Counted'
    BY <1>0, <2>1, SameFlight
  <2> QED
    BY <1>0, <2>2, <2>3, <2>4, SameStory DEF NotifyInv
<1> QED
  BY <1>3, <1>4 DEF Render

(* A message in the channel: its lines are told once more, the others as   *)
(* often as before, and everything older was told already.                 *)
LEMMA Posting ==
    ASSUME NotifyInv, flight.rendered # {},
           posts' = Append(posts, flight.rendered),
           UNCHANGED <<log, offset, file, skipped>>
    PROVE  /\ PostTypes' /\ NothingMissed' /\ InOrder'
           /\ \A i : Posted(i) => Posted(i)'
           /\ \A i \in flight.rendered : Posted(i)' /\ Times(i)' = Times(i) + 1
           /\ \A i : i \notin flight.rendered => Times(i)' = Times(i)
<1> DEFINE p == flight.rendered
           n == Len(posts)
<1>0. /\ offset \in Nat /\ Len(log) \in Nat /\ flight.end \in 0..Len(log)
      /\ p \subseteq (offset + 1)..flight.end /\ p # {} /\ DOMAIN log = 1..Len(log)
      /\ p \subseteq DOMAIN log /\ p \subseteq Nat
  BY DEF NotifyInv, FlightInv, Sound, CursorTypes, LogTypes
<1>1. /\ n \in Nat /\ DOMAIN posts = 1..n /\ DOMAIN posts' = 1..(n + 1)
      /\ posts' \in Seq(SUBSET Nat)
      /\ posts'[n + 1] = p /\ \A k \in 1..n : posts'[k] = posts[k]
  BY <1>0 DEF NotifyInv, PostTypes
<1> HIDE DEF n, p
<1>2. PostTypes'
  <2>1. \A k \in 1..(n + 1) : k \in 1..n \/ k = n + 1
    BY <1>1
  <2> QED
    BY <1>0, <1>1, <2>1 DEF NotifyInv, PostTypes
<1>3. \A i : Posted(i) => Posted(i)'
  BY <1>1 DEF Posted
<1>4. \A i \in p : Posted(i)'
  BY <1>1 DEF Posted
<1>5. NothingMissed'
  <2>1. \A i : LeftBehind(i) => LeftBehind(i)'
    BY DEF LeftBehind
  <2> QED
    BY <1>3, <2>1 DEF NotifyInv, NothingMissed, Told
<1>6. ASSUME NEW i
      PROVE  Times(i)' = Times(i) + (IF i \in p THEN 1 ELSE 0)
  <2> DEFINE before == {k \in DOMAIN posts : i \in posts[k]}
             after == {k \in DOMAIN posts' : i \in posts'[k]}
  <2>1. IsFiniteSet(before) /\ Times(i) \in Nat
    BY TimesFinite DEF NotifyInv
  <2>2. Times(i) = Cardinality(before) /\ Times(i)' = Cardinality(after)
    BY DEF Times
  <2>3. n + 1 \notin before
    BY <1>1
  <2>4. after = IF i \in p THEN before \cup {n + 1} ELSE before
    <3>1. \A k \in 1..(n + 1) : k \in 1..n \/ k = n + 1
      BY <1>1
    <3>2. \A k \in 1..n : k \in 1..(n + 1)
      BY <1>1
    <3>3. \A k : k \in after <=> k \in before \/ (k = n + 1 /\ i \in p)
      BY <1>1, <3>1, <3>2
    <3> HIDE DEF before, after
    <3> QED
      BY <3>3
  <2> HIDE DEF before, after
  <2>5. Cardinality(before \cup {n + 1}) = Cardinality(before) + 1
    BY <2>1, <2>3, FS_AddElement
  <2> QED
    BY <2>1, <2>2, <2>4, <2>5
<1>7. InOrder'
  <2> SUFFICES ASSUME NEW k \in 1..(n + 1), NEW i \in 1..(Min(posts'[k]) - 1), Admitted(log[i])
               PROVE  i \in skipped \/ \E j \in 1..(k - 1) : i \in posts'[j]
    BY <1>1 DEF InOrder
  <2>1. CASE k \in 1..n
    <3>1. i \in 1..(Min(posts[k]) - 1)
      BY <1>1, <2>1
    <3>2. i \in skipped \/ \E j \in 1..(k - 1) : i \in posts[j]
      BY <1>1, <2>1, <3>1 DEF NotifyInv, InOrder
    <3>3. \A j \in 1..(k - 1) : j \in 1..n
      BY <1>1, <2>1
    <3> QED
      BY <1>1, <3>2, <3>3
  <2>2. CASE k = n + 1
    <3>1. /\ i \in Nat \ {0} /\ i < Min(p) /\ Min(p) \in p /\ Min(p) \in Nat
          /\ \A y \in p : Min(p) <= y
      <4>1. Min(p) \in p /\ \A y \in p : Min(p) <= y
        BY <1>0, LeastLine
      <4>2. posts'[k] = p /\ Min(p) \in Nat
        BY <1>0, <1>1, <2>2, <4>1
      <4> QED
        BY <4>1, <4>2
    <3>2. CASE i <= offset
      <4>1. i \in 1..offset
        BY <3>1, <3>2, <1>0
      <4>2. Told(i)
        BY <4>1 DEF NotifyInv, NothingMissed
      <4>3. i \in skipped \/ \E j \in 1..n : i \in posts[j]
        BY <4>2, <1>1 DEF Told, Posted, LeftBehind
      <4>4. k - 1 = n
        BY <1>1, <2>2
      <4> QED
        BY <1>1, <4>3, <4>4
    <3>3. CASE i > offset
      <4>1. i \in (offset + 1)..flight.end
        BY <1>0, <3>1, <3>3
      <4>2. Posted(i) \/ i \in Waiting(p, flight.queue)
        BY <4>1 DEF NotifyInv, Covered, p
      <4>3. i \notin Waiting(p, flight.queue)
        <5>1. i \notin p
          BY <3>1
        <5>2. ASSUME NEW m \in DOMAIN flight.queue, i \in flight.queue[m]
              PROVE  FALSE
          <6>1. Before(p, flight.queue[m])
            BY <1>0 DEF NotifyInv, FlightInv, Sound, p
          <6>2. PICK x \in p : x < i
            BY <5>2, <6>1 DEF Before
          <6> QED
            BY <6>2, <3>1, <1>0
        <5> QED
          BY <5>1, <5>2 DEF Waiting
      <4>4. \E j \in 1..n : i \in posts[j]
        BY <4>2, <4>3, <1>1 DEF Posted
      <4>5. k - 1 = n
        BY <1>1, <2>2
      <4> QED
        BY <1>1, <4>4, <4>5
    <3>4. i <= offset \/ i > offset
      BY <3>1, <1>0
    <3> QED
      BY <3>2, <3>3, <3>4, Zenon
  <2> QED
    BY <1>1, <2>1, <2>2
<1>8. \A i \in p : Times(i)' = Times(i) + 1
  BY <1>6
<1>9. \A i : i \notin p => Times(i)' = Times(i)
  <2> TAKE i
  <2> HAVE i \notin p
  <2>1. Times(i) \in Nat
    BY TimesFinite DEF NotifyInv
  <2> QED
    BY <1>6, <2>1
<1> QED
  BY <1>2, <1>3, <1>4, <1>5, <1>7, <1>8, <1>9 DEF p

LEMMA SendOkStep == NotifyInv /\ LogTypes' /\ SendOk => NotifyInv'
<1> SUFFICES ASSUME NotifyInv, LogTypes', SendOk
             PROVE  NotifyInv'
  OBVIOUS
<1> DEFINE p == flight.rendered
           q == flight.queue
<1>0. /\ UNCHANGED <<log, offset, file, skipped, restarts, unheard, bpc, batch>>
      /\ posts' = Append(posts, p) /\ p # {} /\ bpc = "drive"
  BY DEF SendOk, Rendered, logVars
<1>1. /\ flight'.rendered = {} /\ flight'.queue = q /\ flight'.end = flight.end
      /\ flight'.translating = flight.translating /\ flight'.fresh = flight.fresh
      /\ DOMAIN flight' = DOMAIN flight
  BY DEF SendOk, NotifyInv, FlightInv
<1>2. /\ PostTypes' /\ NothingMissed' /\ InOrder'
      /\ \A i : Posted(i) => Posted(i)'
      /\ \A i \in p : Posted(i)' /\ Times(i)' = Times(i) + 1
      /\ \A i : i \notin p => Times(i)' = Times(i)
  BY <1>0, Posting
<1>3. /\ offset \in Nat /\ Len(log) \in Nat /\ flight.end \in 0..Len(log)
      /\ offset < flight.end /\ ~flight.translating /\ DOMAIN log = 1..Len(log)
      /\ Faults \in Nat /\ Faults' = Faults
  BY <1>0 DEF NotifyInv, FlightInv, BotInv, CursorTypes, LogTypes, Faults
<1>4. CursorTypes'
  BY <1>0 DEF NotifyInv, CursorTypes
<1>5. FlightInv'
  <2>1. Sound({}, q, offset + 1, flight.end)
    BY DEF NotifyInv, FlightInv, Sound
  <2>2. Sound(flight.rendered, flight.queue, offset + 1, flight.end)'
    BY <1>0, <1>1, <2>1
  <2> QED
    BY <1>0, <1>1, <1>3, <2>2 DEF NotifyInv, FlightInv
<1>6. BotInv'
  BY <1>0, <1>1, <1>3 DEF NotifyInv, BotInv
<1>7. Waiting(p, q) = p \cup Waiting({}, q) /\ p \cap Waiting({}, q) = {}
  <2>1. p \cap Waiting({}, q) = {}
    BY <1>0 DEF NotifyInv, FlightInv, Sound, Waiting
  <2> QED
    BY <2>1 DEF Waiting
<1>8. Waiting(flight.rendered, flight.queue)' = Waiting({}, q)
  BY <1>1
<1> HIDE DEF p, q
<1>9. Covered'
  <2> SUFFICES ASSUME NEW i \in (offset + 1)..flight.end, Admitted(log[i])
               PROVE  Posted(i)' \/ i \in Waiting({}, q)
    BY <1>0, <1>1, <1>8 DEF Covered
  <2>1. Posted(i) \/ i \in Waiting(p, q)
    BY DEF NotifyInv, Covered, p, q
  <2> QED
    BY <2>1, <1>2, <1>7
<1>10. Counted'
  <2> SUFFICES ASSUME NEW i \in DOMAIN log
               PROVE  Times(i)' <= IF Untold(i)' THEN Faults ELSE Faults + 1
    BY <1>0, <1>3 DEF Counted
  <2>1. Times(i) <= IF Untold(i) THEN Faults ELSE Faults + 1
    BY DEF NotifyInv, Counted
  <2>2. Times(i) \in Nat
    BY TimesFinite DEF NotifyInv
  <2>3. Untold(i) <=> i > offset /\ (i > flight.end \/ i \in Waiting(p, q))
    BY DEF Untold, p, q
  <2>4. Untold(i)' <=> i > offset /\ (i > flight.end \/ i \in Waiting({}, q))
    BY <1>0, <1>1, <1>8 DEF Untold
  <2>5. CASE i \in p
    <3>1. i \in (offset + 1)..flight.end
      BY <2>5 DEF NotifyInv, FlightInv, Sound, p
    <3>2. i > offset /\ ~(i > flight.end)
      BY <3>1, <1>3
    <3>3. Untold(i) /\ ~Untold(i)'
      BY <2>3, <2>4, <2>5, <3>2, <1>7
    <3> QED
      BY <3>3, <2>1, <2>2, <2>5, <1>2, <1>3
  <2>6. CASE i \notin p
    <3>1. Untold(i)' <=> Untold(i)
      BY <2>3, <2>4, <2>6, <1>7
    <3> QED
      BY <3>1, <2>1, <2>6, <1>2
  <2> QED
    BY <2>5, <2>6
<1> QED
  BY <1>2, <1>4, <1>5, <1>6, <1>9, <1>10 DEF NotifyInv

LEMMA SendFailsStep == NotifyInv /\ LogTypes' /\ SendFails => NotifyInv'
<1> SUFFICES ASSUME NotifyInv, LogTypes', SendFails
             PROVE  NotifyInv'
  OBVIOUS
<1>0. /\ UNCHANGED <<log, offset, file, flight, skipped, restarts>>
      /\ bpc' = "idle" /\ batch' = NoBatch /\ flight.rendered # {}
  BY DEF SendFails, Rendered, logVars
<1>1. BotInv'
  <2>1. bpc' = "idle" /\ batch'.first = 1 /\ batch'.last = 0
    BY <1>0 DEF NoBatch
  <2>2. Len(log) \in Nat
    BY DEF NotifyInv, LogTypes
  <2> QED
    BY <2>1, <2>2, <1>0 DEF BotInv
<1>2. FlightInv'
  BY <1>0 DEF NotifyInv, FlightInv
<1>3. CASE UNCHANGED <<posts, unheard>>
  <2>1. UNCHANGED <<log, offset, file, flight, ghostVars>>
    BY <1>0, <1>3 DEF ghostVars
  <2>2. Covered' /\ Counted'
    BY <2>1, SameFlight
  <2> QED
    BY <2>1, <2>2, <1>1, <1>2, SameStory DEF NotifyInv
<1>4. CASE posts' = Append(posts, flight.rendered) /\ unheard' = unheard + 1
  <2>1. /\ PostTypes' /\ NothingMissed' /\ InOrder'
        /\ \A i : Posted(i) => Posted(i)'
        /\ \A i \in flight.rendered : Posted(i)' /\ Times(i)' = Times(i) + 1
        /\ \A i : i \notin flight.rendered => Times(i)' = Times(i)
    BY <1>0, <1>4, Posting
  <2>2. CursorTypes' /\ Faults \in Nat /\ Faults' = Faults + 1
    BY <1>0, <1>4 DEF NotifyInv, CursorTypes, Faults
  <2>3. Covered'
    BY <1>0, <2>1 DEF NotifyInv, Covered
  <2>4. Counted'
    <3> SUFFICES ASSUME NEW i \in DOMAIN log
                 PROVE  Times(i)' <= IF Untold(i)' THEN Faults + 1 ELSE Faults + 2
      BY <1>0, <2>2 DEF Counted
    <3>1. Times(i) <= IF Untold(i) THEN Faults ELSE Faults + 1
      BY DEF NotifyInv, Counted
    <3>2. Times(i) \in Nat
      BY TimesFinite DEF NotifyInv
    <3>3. Untold(i)' <=> Untold(i)
      BY <1>0 DEF Untold
    <3>4. Times(i)' = Times(i) \/ Times(i)' = Times(i) + 1
      BY <2>1
    <3> QED
      BY <3>1, <3>2, <3>3, <3>4, <2>2
  <2> QED
    BY <1>1, <1>2, <2>1, <2>2, <2>3, <2>4 DEF NotifyInv
<1> QED
  BY <1>3, <1>4 DEF SendFails

(* The advance is done once every message of it is in the channel.         *)
LEMMA CompleteStep == NotifyInv /\ LogTypes' /\ Complete => NotifyInv'
<1> SUFFICES ASSUME NotifyInv, LogTypes', Complete
             PROVE  NotifyInv'
  OBVIOUS
<1> USE DEF ghostVars, logVars
<1>0. /\ UNCHANGED <<log, batch, posts, skipped, restarts, unheard>>
      /\ offset' = flight.end /\ file' = flight.end /\ flight' = NoFlight
      /\ flight.rendered = {} /\ flight.queue = <<>>
      /\ bpc' = IF flight.fresh THEN "plan" ELSE "idle"
  BY DEF Complete
<1>1. /\ offset \in Nat /\ Len(log) \in Nat /\ flight.end \in 0..Len(log)
      /\ offset < flight.end /\ DOMAIN log = 1..Len(log)
      /\ flight.fresh => batch.first = flight.end + 1
  BY DEF Complete, NotifyInv, FlightInv, BotInv, CursorTypes, LogTypes
<1>2. Waiting(flight.rendered, flight.queue) = {}
  BY <1>0 DEF Waiting
<1>3. CursorTypes' /\ PostTypes'
  <2>1. CursorTypes'
    BY <1>0, <1>1 DEF NotifyInv, CursorTypes
  <2>2. PostTypes'
    BY <1>0 DEF NotifyInv, PostTypes
  <2> QED
    BY <2>1, <2>2
<1>4. FlightInv'
  BY <1>0, <1>1, GroundFlight DEF FlightInv
<1>5. BotInv'
  BY <1>0, <1>1 DEF NotifyInv, BotInv
<1>6. Covered'
  <2>1. flight'.end = 0
    BY <1>0 DEF NoFlight
  <2>2. \A i \in (flight.end + 1)..0 : FALSE
    BY <1>1
  <2> QED
    BY <2>1, <2>2, <1>0 DEF Covered
<1>7. NothingMissed'
  <2> SUFFICES ASSUME NEW i \in 1..flight.end, Admitted(log[i])
               PROVE  Told(i)'
    BY <1>0 DEF NothingMissed
  <2>1. CASE i \in 1..offset
    <3>1. Told(i)
      BY <2>1 DEF NotifyInv, NothingMissed
    <3> QED
      BY <3>1, <1>0 DEF Told, Posted, LeftBehind
  <2>2. CASE i \in (offset + 1)..flight.end
    <3>1. Posted(i)
      BY <2>2, <1>2 DEF NotifyInv, Covered
    <3> QED
      BY <3>1, <1>0 DEF Told, Posted
  <2> QED
    BY <2>1, <2>2, <1>1
<1>8. Counted'
  <2>1. \A i : Times(i)' = Times(i) /\ Faults' = Faults
    BY <1>0 DEF Times, Faults
  <2>2. ASSUME NEW i \in DOMAIN log
        PROVE  Untold(i)' => Untold(i)
    BY <1>0, <1>1 DEF Untold
  <2>3. Faults \in Nat
    BY DEF NotifyInv, CursorTypes, Faults
  <2> SUFFICES ASSUME NEW i \in DOMAIN log
               PROVE  Times(i) <= IF Untold(i)' THEN Faults ELSE Faults + 1
    BY <1>0, <2>1 DEF Counted
  <2>4. Times(i) <= IF Untold(i) THEN Faults ELSE Faults + 1
    BY DEF NotifyInv, Counted
  <2>5. Times(i) \in Nat
    BY TimesFinite DEF NotifyInv
  <2> QED
    BY <2>2, <2>3, <2>4, <2>5
<1>9. InOrder'
  BY <1>0 DEF NotifyInv, InOrder
<1> QED
  BY <1>3, <1>4, <1>5, <1>6, <1>7, <1>8, <1>9 DEF NotifyInv

(* A start without a cursor file leaves behind only what has Backlog lines *)
(* behind it that parse.                                                   *)
LEMMA StartsBehind ==
    ASSUME log \in Seq(Lines)
    PROVE  /\ BacklogStart \in 0..Len(log)
           /\ \A i \in 1..BacklogStart :
                 log[i].kind # "lost" =>
                    Cardinality({j \in (i + 1)..Len(log) : log[j].kind # "lost"}) >= Backlog
<1> DEFINE n == Len(log)
           parsed == {i \in DOMAIN log : log[i].kind # "lost"}
           from(i) == {j \in parsed : j >= i}
           kept == {i \in parsed : Cardinality(from(i)) <= Backlog}
<1>1. n \in Nat /\ DOMAIN log = 1..n
  OBVIOUS
<1>2. BacklogStart = IF kept = {} THEN n ELSE Min(kept) - 1
  BY DEF BacklogStart
<1>3. parsed \subseteq 1..n /\ kept \subseteq parsed
  BY <1>1
<1> HIDE DEF n
<1>4. BacklogStart \in 0..n /\ \A i \in 1..BacklogStart : i \notin kept
  <2>1. CASE kept = {}
    BY <1>1, <1>2, <2>1
  <2>2. CASE kept # {}
    <3>1. kept \subseteq Nat
      BY <1>3, <1>1
    <3> HIDE DEF kept, parsed
    <3>2. Min(kept) \in kept /\ \A y \in kept : Min(kept) <= y
      BY <2>2, <3>1, LeastLine
    <3>3. Min(kept) \in 1..n
      BY <3>2, <1>3
    <3>4. BacklogStart = Min(kept) - 1
      BY <1>2, <2>2
    <3>5. \A i \in 1..(Min(kept) - 1) : i \notin kept
      BY <3>2, <3>3
    <3> QED
      BY <3>3, <3>4, <3>5, <1>1
  <2> QED
    BY <2>1, <2>2
<1>5. ASSUME NEW i \in 1..BacklogStart, log[i].kind # "lost"
      PROVE  Cardinality({j \in (i + 1)..n : log[j].kind # "lost"}) >= Backlog
  <2> DEFINE behind == {j \in (i + 1)..n : log[j].kind # "lost"}
             all == from(i)
  <2>1. i \in parsed /\ i \notin kept /\ i \in Nat
    BY <1>1, <1>4, <1>5
  <2>2. ~(Cardinality(all) <= Backlog)
    BY <2>1
  <2>3. all = behind \cup {i} /\ i \notin behind
    <3>1. \A j \in 1..n : j >= i <=> j = i \/ j \in (i + 1)..n
      BY <1>1, <2>1
    <3>2. \A j \in (i + 1)..n : j \in 1..n
      BY <1>1, <2>1
    <3>3. \A j : j \in all <=> j \in behind \/ j = i
      BY <3>1, <3>2, <2>1, <1>1, <1>5
    <3>4. i \notin behind
      BY <2>1, <1>1
    <3> HIDE DEF all, behind
    <3> QED
      BY <3>3, <3>4
  <2>4. IsFiniteSet((i + 1)..n) /\ behind \in SUBSET ((i + 1)..n)
    <3>1. i + 1 \in Int /\ n \in Int
      BY <2>1, <1>1
    <3>2. IsFiniteSet((i + 1)..n)
      BY <3>1, FS_Interval
    <3> QED
      BY <3>2
  <2> HIDE DEF behind, all
  <2>5. IsFiniteSet(behind) /\ Cardinality(behind) \in Nat
    BY <2>4, FS_Subset, FS_CardinalityType
  <2>6. Cardinality(all) = Cardinality(behind) + 1
    BY <2>3, <2>5, FS_AddElement
  <2>7. Cardinality(behind) >= Backlog
    BY <2>2, <2>5, <2>6, NotificationsAssumption
  <2> QED
    BY <2>7 DEF behind
<1> QED
  BY <1>4, <1>5 DEF n

LEMMA ReloadStep == NotifyInv /\ LogTypes' /\ Reload /\ log' = log => NotifyInv'
<1> SUFFICES ASSUME NotifyInv, LogTypes', Reload, log' = log
             PROVE  NotifyInv'
  OBVIOUS
<1>0. /\ offset' = StartOffset /\ flight' = NoFlight /\ batch' = NoBatch /\ bpc' = "idle"
      /\ UNCHANGED <<file, posts, unheard>> /\ restarts' = restarts + 1
      /\ skipped' = IF file = NoFile THEN skipped \cup (1..offset') ELSE skipped
  BY DEF Reload
<1>1. /\ offset \in 0..Len(log) /\ file \in {NoFile, offset} /\ Len(log) \in Nat
      /\ DOMAIN log = 1..Len(log) /\ restarts \in Nat /\ unheard \in Nat
  BY DEF NotifyInv, CursorTypes, LogTypes
<1>2. \/ file = NoFile /\ offset' = BacklogStart /\ skipped' = skipped \cup (1..offset')
      \/ file = offset /\ offset' = offset /\ skipped' = skipped
  BY <1>0, <1>1 DEF StartOffset, NoFile
<1>3. /\ BacklogStart \in 0..Len(log)
      /\ \A i \in 1..BacklogStart :
            log[i].kind # "lost" =>
               Cardinality({j \in (i + 1)..Len(log) : log[j].kind # "lost"}) >= Backlog
  BY StartsBehind DEF NotifyInv, LogTypes
<1>4. offset' \in 0..Len(log)
  BY <1>1, <1>2, <1>3
<1>5. CursorTypes'
  BY <1>0, <1>1, <1>2, <1>4 DEF CursorTypes
<1>6. PostTypes'
  <2>1. skipped' \subseteq 1..Len(log)
    BY <1>1, <1>2, <1>4 DEF NotifyInv, PostTypes
  <2> QED
    BY <2>1, <1>0, <1>1 DEF NotifyInv, PostTypes
<1>7. FlightInv'
  BY <1>0, <1>1, <1>4, GroundFlight DEF FlightInv
<1>8. BotInv'
  <2>1. batch'.first = 1 /\ batch'.last = 0
    BY <1>0 DEF NoBatch
  <2> QED
    BY <2>1, <1>0, <1>1 DEF BotInv
<1>9. Covered'
  <2>1. flight'.end = 0
    BY <1>0 DEF NoFlight
  <2> DEFINE start == offset'
  <2>2. start \in Nat
    BY <1>1, <1>4
  <2> SUFFICES ASSUME NEW i \in (start + 1)..0
               PROVE  FALSE
    BY <2>1 DEF Covered
  <2> HIDE DEF start
  <2> QED
    BY <2>2
<1>10. NothingMissed'
  <2> SUFFICES ASSUME NEW i \in 1..offset', Admitted(log[i])
               PROVE  Told(i)'
    BY DEF NothingMissed
  <2>1. CASE file = NoFile /\ offset' = BacklogStart /\ skipped' = skipped \cup (1..offset')
    <3>1. log[i].kind # "lost"
      BY DEF Admitted
    <3>2. LeftBehind(i)'
      BY <2>1, <3>1, <1>3 DEF LeftBehind
    <3> QED
      BY <3>2 DEF Told
  <2>2. CASE file = offset /\ offset' = offset /\ skipped' = skipped
    <3>1. Told(i)
      BY <2>2 DEF NotifyInv, NothingMissed
    <3> QED
      BY <3>1, <2>2, <1>0 DEF Told, Posted, LeftBehind
  <2> QED
    BY <2>1, <2>2, <1>2
<1>11. Counted'
  <2>1. \A i : Times(i)' = Times(i)
    BY <1>0 DEF Times
  <2>2. Faults \in Nat /\ Faults' = Faults + 1
    BY <1>0, <1>1 DEF Faults
  <2> SUFFICES ASSUME NEW i \in DOMAIN log
               PROVE  Times(i) <= IF Untold(i)' THEN Faults + 1 ELSE Faults + 2
    BY <2>1, <2>2 DEF Counted
  <2>3. Times(i) <= IF Untold(i) THEN Faults ELSE Faults + 1
    BY DEF NotifyInv, Counted
  <2>4. Times(i) \in Nat
    BY TimesFinite DEF NotifyInv
  <2> QED
    BY <2>2, <2>3, <2>4
<1>12. InOrder'
  <2>1. skipped \subseteq skipped'
    BY <1>2
  <2> QED
    BY <2>1, <1>0 DEF NotifyInv, InOrder
<1> QED
  BY <1>5, <1>6, <1>7, <1>8, <1>9, <1>10, <1>11, <1>12 DEF NotifyInv

-----------------------------------------------------------------------------
(* The invariant                                                           *)

LEMMA NotifyInits == Init => NotifyInv
<1> SUFFICES ASSUME Init
             PROVE  NotifyInv
  OBVIOUS
<1>1. /\ due = <<>> /\ log = <<>> /\ offset = 0 /\ file = NoFile /\ bpc = "idle"
      /\ batch = NoBatch /\ flight = NoFlight /\ posts = <<>> /\ skipped = {}
      /\ restarts = 0 /\ unheard = 0
  BY DEF Init
<1>2. LogTypes /\ CursorTypes /\ PostTypes
  BY <1>1 DEF LogTypes, CursorTypes, PostTypes
<1>3. FlightInv
  BY <1>1, GroundFlight DEF FlightInv
<1>4. BotInv
  BY <1>1 DEF BotInv, NoBatch
<1>5. flight.end = 0 /\ DOMAIN log = {} /\ DOMAIN posts = {}
  BY <1>1 DEF NoFlight
<1>6. Covered /\ NothingMissed
  BY <1>1, <1>5 DEF Covered, NothingMissed
<1>7. Counted /\ InOrder
  BY <1>5 DEF Counted, InOrder
<1> QED
  BY <1>2, <1>3, <1>4, <1>6, <1>7 DEF NotifyInv

LEMMA NotifySteps == NotifyInv /\ [Next]_vars => NotifyInv'
<1> SUFFICES ASSUME NotifyInv, [Next]_vars
             PROVE  NotifyInv'
  OBVIOUS
<1>0. LogTypes'
  BY LogTyped DEF NotifyInv
<1>1. CASE AppendDue
  <2>1. Head(due) \in Lines
    BY <1>1 DEF AppendDue, NotifyInv, LogTypes
  <2> QED
    BY <2>1, <1>0, <1>1, LogGrows DEF AppendDue
<1>2. CASE Chatter
  <2>1. Silent \in Lines
    BY DEF Silent, Line, Lines, Whys
  <2> QED
    BY <2>1, <1>0, <1>2, LogGrows DEF Chatter
<1>3. CASE Age \/ DaemonStep \/ RetryAt \/ UNCHANGED vars
  BY <1>0, <1>3, QuietStep
     DEF Age, DaemonStep, BeginPass, MergePass, Save, RetryAt, vars, logVars, botVars
<1>4. CASE Read \/ Rest \/ Plan \/ Resume \/ Render \/ Complete
  BY <1>0, <1>4, ReadStep, RestStep, PlanStep, ResumeStep, RenderStep, CompleteStep
<1>5. CASE SendOk \/ SendFails
  BY <1>0, <1>5, SendOkStep, SendFailsStep
<1>6. CASE Reconnect \/ Crash
  BY <1>0, <1>6, ReloadStep DEF Reconnect, Crash, logVars
<1> QED
  BY <1>1, <1>2, <1>3, <1>4, <1>5, <1>6 DEF Next, BotStep

(* What the channel says of the log (notify.rs, cursor.rs, rollup.rs):     *)
(* whatever fails, restarts or is lost, no line the cursor is past was     *)
(* missed, the lines are told in the log's order, and each once more at    *)
(* most for every restart and every answer that was lost.                  *)
THEOREM ChannelTellsRight == Spec => []ToldRight
<1>1. NotifyInv => ToldRight
  <2> SUFFICES ASSUME NotifyInv
               PROVE  RepeatsBounded
    BY DEF NotifyInv, ToldRight
  <2> SUFFICES ASSUME NEW i \in DOMAIN log
               PROVE  Times(i) <= (1 + restarts) + unheard
    BY DEF RepeatsBounded, Times
  <2>1. Times(i) <= IF Untold(i) THEN Faults ELSE Faults + 1
    BY DEF NotifyInv, Counted
  <2>2. Times(i) \in Nat
    BY TimesFinite DEF NotifyInv
  <2>3. restarts \in Nat /\ unheard \in Nat
    BY DEF NotifyInv, CursorTypes
  <2> QED
    BY <2>1, <2>2, <2>3 DEF Faults
<1> QED
  BY <1>1, NotifyInits, NotifySteps, PTL DEF Spec


-----------------------------------------------------------------------------
(* The inbox: types                                                        *)

DaemonTypes == lines \in Places /\ spoke \in BoardRows /\ work \in Ledgers
RowTypes == dismissed \in BoardRows /\ listed \in BoardRows /\ cleared \in BoardRows
ViewTypes == board \in Boards /\ capture \in Listings /\ other \in Listings
BoardTypes == DaemonTypes /\ RowTypes /\ ViewTypes

LEMMA PlacesAreNat == 0 \in Places /\ \A p \in Places : p \in Nat
  BY BoardAssumption DEF Places

LEMMA LaterBound ==
    \A p, q \in Places : Later(p, q) \in Places /\ Later(p, q) >= p /\ Later(p, q) >= q
  BY PlacesAreNat DEF Later

LEMMA AggregateTyped == DaemonTypes => \A w \in Ledgers : Aggregate(w) \in BoardRows
<1> SUFFICES ASSUME DaemonTypes, NEW w \in Ledgers
             PROVE  Aggregate(w) \in BoardRows
  OBVIOUS
<1>1. ASSUME NEW p \in Places, NEW e, e.at \in Places
      PROVE  /\ \A b \in BOOLEAN : (IF b THEN p ELSE 0) \in Places
             /\ \A b \in BOOLEAN : (IF b THEN e.at ELSE 0) \in Places
  BY <1>1, PlacesAreNat
<1>2. ASSUME NEW t \in Targets
      PROVE  Aggregate(w)[t] \in Places
  <2> DEFINE entry == IF t \in BoardTasks THEN w[t] ELSE NoWork
             said == IF InTail(spoke[t]) /\ entry.phase # "merged" THEN spoke[t] ELSE 0
             parked == IF entry.phase = "escalated" THEN entry.at ELSE 0
  <2>1. entry.at \in Places
    BY PlacesAreNat DEF Ledgers, NoWork
  <2>2. spoke[t] \in Places
    BY DEF DaemonTypes, BoardRows
  <2>3. said \in Places /\ parked \in Places
    <3> HIDE DEF entry
    <3> QED
      BY <2>1, <2>2, PlacesAreNat
  <2>4. Aggregate(w)[t] = Later(said, parked)
    BY DEF Aggregate
  <2> HIDE DEF said, parked
  <2> QED
    BY <2>3, <2>4, LaterBound
<1>3. Aggregate(w) = [t \in Targets |-> Aggregate(w)[t]]
  BY DEF Aggregate
<1> QED
  BY <1>2, <1>3 DEF BoardRows

LEMMA UndismissedTyped ==
    \A through, rows \in BoardRows :
        /\ Undismissed(through, rows) \in BoardRows
        /\ \A t \in Targets : /\ Undismissed(through, rows)[t] <= rows[t]
                              /\ Undismissed(through, rows)[t] > 0
                                 => Undismissed(through, rows)[t] > through[t]
  BY PlacesAreNat DEF Undismissed, Suppressed, BoardRows

LEMMA NothingListed == NoBoard \in Boards /\ Idle \in Listings
<1>1. NoRows \in BoardRows
  BY PlacesAreNat DEF NoRows, BoardRows
<1>2. NoLedger \in Ledgers
  BY PlacesAreNat DEF NoLedger, NoWork, Ledgers, WorkPhases
<1>3. NoBoard \in Boards
  BY <1>1 DEF NoBoard, Boards
<1> QED
  BY <1>2, <1>3 DEF Idle, Listings, Steps

(* A board whose rows are all among its targets.                           *)
Whole(b) == \A t \in Targets : b.rows[t] > 0 => t \in b.targets

(* What each read of a listing does to it.                                 *)
LEMMA ReadTyped ==
    ASSUME DaemonTypes, dismissed \in BoardRows, NEW r \in Listings, Reading(r),
           Whole(r.board)
    PROVE  /\ AfterRead(r) \in Listings /\ Whole(AfterRead(r).board)
           /\ AfterRead(r).step = "done" =>
                 \A t \in Targets : AfterRead(r).board.rows[t] > 0
                                    => AfterRead(r).board.rows[t] > dismissed[t]
<1>0. /\ r.work \in Ledgers /\ r.board \in Boards /\ r.board.rows \in BoardRows
      /\ r.board.targets \subseteq Targets /\ work \in Ledgers
  BY DEF Listings, Boards, DaemonTypes
<1>1. CASE r.step = "ledger"
  <2>1. AfterRead(r) = [r EXCEPT !.step = "tail", !.work = work]
    BY <1>1 DEF AfterRead
  <2>2. AfterRead(r) \in Listings
    BY <1>0, <2>1 DEF Listings, Steps
  <2>3. AfterRead(r).step = "tail" /\ AfterRead(r).board = r.board
    BY <2>1 DEF Listings
  <2> QED
    BY <2>2, <2>3
<1>2. CASE r.step = "tail"
  <2> DEFINE rows == Aggregate(r.work)
             found == [rows |-> rows, targets |-> TargetsOf(rows)]
  <2>1. AfterRead(r) = [Idle EXCEPT !.step = "dismissals", !.board = found]
    BY <1>2 DEF AfterRead
  <2>2. rows \in BoardRows
    BY <1>0, AggregateTyped
  <2>3. found \in Boards /\ Whole(found)
    <3> HIDE DEF rows
    <3> QED
      BY <2>2 DEF Boards, TargetsOf, Whole
  <2> HIDE DEF found
  <2>4. AfterRead(r) \in Listings
    BY <2>1, <2>3, NothingListed DEF Listings, Steps
  <2>5. AfterRead(r).step = "dismissals" /\ AfterRead(r).board = found
    BY <2>1, NothingListed DEF Listings
  <2> QED
    BY <2>3, <2>4, <2>5
<1>3. CASE r.step = "dismissals"
  <2> DEFINE rows == Undismissed(dismissed, r.board.rows)
             found == [r.board EXCEPT !.rows = rows]
  <2>1. AfterRead(r) = [r EXCEPT !.step = "done", !.board = found]
    BY <1>3 DEF AfterRead, Listings
  <2>2. /\ rows \in BoardRows
        /\ \A t \in Targets : rows[t] <= r.board.rows[t] /\ (rows[t] > 0 => rows[t] > dismissed[t])
    BY <1>0, UndismissedTyped
  <2> HIDE DEF rows
  <2>3. found \in Boards /\ found.rows = rows /\ found.targets = r.board.targets
    BY <1>0, <2>2 DEF Boards
  <2> HIDE DEF found
  <2>4. Whole(found)
    <3>1. ASSUME NEW t \in Targets, rows[t] > 0
          PROVE  r.board.rows[t] > 0
      <4>1. rows[t] \in Nat /\ r.board.rows[t] \in Nat
        BY <1>0, <2>2, PlacesAreNat DEF BoardRows
      <4> QED
        BY <2>2, <3>1, <4>1
    <3> QED
      BY <2>3, <3>1 DEF Whole
  <2>5. AfterRead(r) \in Listings /\ AfterRead(r).step = "done" /\ AfterRead(r).board = found
    BY <2>1, <2>3 DEF Listings, Steps
  <2> QED
    BY <2>2, <2>3, <2>4, <2>5
<1> QED
  BY <1>1, <1>2, <1>3 DEF Reading

(* What the UI lists when it refreshes by itself.                          *)
Fresh(through) ==
    [rows |-> Undismissed(through, Aggregate(work)), targets |-> TargetsOf(Aggregate(work))]

LEMMA FreshTyped ==
    ASSUME DaemonTypes, NEW through \in BoardRows
    PROVE  /\ Fresh(through) \in Boards /\ Whole(Fresh(through))
           /\ \A t \in Targets : Fresh(through).rows[t] > 0
                                 => Fresh(through).rows[t] > through[t]
<1> DEFINE rows == Aggregate(work)
           shown == Undismissed(through, rows)
<1>1. rows \in BoardRows
  BY AggregateTyped DEF DaemonTypes
<1>2. Fresh(through).rows = shown /\ Fresh(through).targets = TargetsOf(rows)
  BY DEF Fresh
<1>3. /\ shown \in BoardRows
      /\ \A t \in Targets : shown[t] <= rows[t] /\ (shown[t] > 0 => shown[t] > through[t])
  BY <1>1, UndismissedTyped
<1>4. Fresh(through) \in Boards
  <2> HIDE DEF shown, rows
  <2>1. TargetsOf(rows) \subseteq Targets
    BY DEF TargetsOf
  <2>2. Fresh(through) = [rows |-> shown, targets |-> TargetsOf(rows)]
    BY DEF Fresh, shown, rows
  <2> QED
    BY <1>3, <2>1, <2>2 DEF Boards
<1>5. \A t \in Targets : shown[t] > 0 => t \in TargetsOf(rows)
  <2> HIDE DEF shown, rows
  <2>1. \A t \in Targets : shown[t] \in Nat /\ rows[t] \in Nat
    BY <1>1, <1>3, PlacesAreNat DEF BoardRows
  <2> QED
    BY <1>3, <2>1 DEF TargetsOf
<1> HIDE DEF shown, rows
<1> QED
  BY <1>2, <1>3, <1>4, <1>5 DEF Whole

LEMMA DaemonTypesKept == DaemonTypes /\ [BoardStep]_boardVars => DaemonTypes'
<1> SUFFICES ASSUME DaemonTypes, [BoardStep]_boardVars
             PROVE  DaemonTypes'
  OBVIOUS
<1>0. lines \in Places /\ spoke \in BoardRows /\ work \in Ledgers
  BY DEF DaemonTypes
<1>1. ASSUME Logs
      PROVE  lines + 1 \in Places /\ lines' = lines + 1
  BY <1>0, <1>1, BoardAssumption DEF Logs, Places
<1>2. CASE LogsLine
  BY <1>0, <1>1, <1>2 DEF LogsLine, DaemonTypes
<1>3. CASE EscalatesItself
  <2>1. spoke' \in BoardRows
    BY <1>0, <1>1, <1>3 DEF EscalatesItself, BoardRows
  <2> QED
    BY <1>0, <1>1, <1>3, <2>1 DEF EscalatesItself, DaemonTypes
<1>4. ASSUME NEW t \in BoardTasks, Dispatches(t)
      PROVE  DaemonTypes'
  <2>1. work' \in Ledgers
    BY <1>0, <1>1, <1>4 DEF Dispatches, Ledgers, WorkPhases
  <2> QED
    BY <1>0, <1>1, <1>4, <2>1 DEF Dispatches, DaemonTypes
<1>5. ASSUME NEW t \in BoardTasks, NEW p \in WorkPhases, work' = [work EXCEPT ![t].phase = p]
      PROVE  work' \in Ledgers
  BY <1>0, <1>5 DEF Ledgers
<1>6. ASSUME NEW t \in BoardTasks, Escalates(t)
      PROVE  DaemonTypes'
  <2>1. work' \in Ledgers
    BY <1>5, <1>6 DEF Escalates, WorkPhases
  <2>2. spoke' \in BoardRows
    BY <1>0, <1>1, <1>6 DEF Escalates, BoardRows
  <2> QED
    BY <1>1, <1>6, <2>1, <2>2 DEF Escalates, DaemonTypes
<1>7. ASSUME NEW t \in BoardTasks, Settles(t)
      PROVE  DaemonTypes'
  <2>1. NoWork \in [phase : WorkPhases, at : Places]
    BY PlacesAreNat DEF NoWork, WorkPhases
  <2>2. CASE work' = [work EXCEPT ![t] = NoWork]
    BY <1>0, <1>7, <2>1, <2>2 DEF Settles, Ledgers, DaemonTypes
  <2>3. CASE \E p \in {"working", "merged"} : work' = [work EXCEPT ![t].phase = p]
    BY <1>0, <1>5, <1>7, <2>3 DEF Settles, WorkPhases, DaemonTypes
  <2> QED
    BY <1>7, <2>2, <2>3 DEF Settles
<1>8. ASSUME \/ Schedules \/ Captures \/ CaptureFails \/ BoardIngests \/ BoardReopens
             \/ Calls \/ Lists \/ Answers
             \/ \E t \in Targets : Acknowledges(t)
             \/ UNCHANGED boardVars
      PROVE  UNCHANGED <<lines, spoke, work>>
  BY <1>8 DEF Schedules, Captures, CaptureFails, BoardIngests, BoardReopens,
              Calls, Lists, Answers, Acknowledges, sourceVars, boardVars,
              BoardQuiet
<1>9. ASSUME UNCHANGED <<lines, spoke, work>>
      PROVE  DaemonTypes'
  BY <1>9 DEF DaemonTypes
<1> QED
  BY <1>2, <1>3, <1>4, <1>6, <1>7, <1>8, <1>9 DEF BoardStep

-----------------------------------------------------------------------------
(* What is listed, dismissed and shown                                     *)

(* A dismissal in the UI stands in the file for as long as cleared         *)
(* remembers it, and no dismissal reaches past what was listed.            *)
Ordered ==
    \A t \in Targets : cleared[t] <= dismissed[t] /\ dismissed[t] <= listed[t]

(* What is on a list was listed; a list knows the target of its rows.      *)
WasListed ==
    \A t \in Targets : /\ board.rows[t] <= listed[t]
                       /\ other.step = "done" => other.board.rows[t] <= listed[t]
AllWhole == Whole(board) /\ Whole(capture.board) /\ Whole(other.board)

(* A capture that will be shown has nothing the UI has dismissed.          *)
CaptureClean ==
    capture.step = "done" /\ ~superseded =>
        \A t \in Targets : capture.board.rows[t] > 0 => capture.board.rows[t] > cleared[t]

BoardInv ==
    /\ BoardTypes /\ Ordered /\ WasListed /\ AllWhole /\ CaptureClean
    /\ DismissedStaysOff

LEMMA BoardStarts == BoardInit => BoardInv
<1> SUFFICES ASSUME BoardInit
             PROVE  BoardInv
  OBVIOUS
<1>1. NoRows \in BoardRows /\ \A t \in Targets : NoRows[t] = 0
  BY PlacesAreNat DEF NoRows, BoardRows
<1>2. NoLedger \in Ledgers /\ 0 \in Places
  BY PlacesAreNat DEF NoLedger, NoWork, Ledgers, WorkPhases
<1>3. BoardTypes
  BY <1>1, <1>2, NothingListed DEF BoardInit, BoardTypes, DaemonTypes, RowTypes, ViewTypes
<1>4. NoBoard.rows = NoRows /\ Idle.board = NoBoard /\ Idle.step = "idle"
  BY DEF NoBoard, Idle
<1> QED
  BY <1>1, <1>3, <1>4
     DEF BoardInit, BoardInv, Ordered, WasListed, AllWhole, Whole, CaptureClean, DismissedStaysOff

(* A dismissal of rows somebody listed, with the targets the list had.     *)
LEMMA DismissKeeps ==
    ASSUME RowTypes, Ordered, NEW rows \in BoardRows, NEW live \in SUBSET Targets,
           NEW mine \in BOOLEAN, \A t \in Targets : rows[t] <= listed[t],
           \A t \in Targets : rows[t] > 0 => t \in live, Dismisses(rows, live, mine)
    PROVE  /\ dismissed' \in BoardRows /\ cleared' \in BoardRows
           /\ \A t \in Targets : cleared'[t] <= dismissed'[t] /\ dismissed'[t] <= listed[t]
           /\ ~mine => \A t \in Targets : cleared'[t] <= cleared[t]
<1>1. ASSUME NEW t \in Targets
      PROVE  /\ dismissed'[t] \in Places /\ cleared'[t] \in Places
             /\ cleared'[t] <= dismissed'[t] /\ dismissed'[t] <= listed[t]
             /\ ~mine => cleared'[t] <= cleared[t]
  <2>1. /\ rows[t] \in Nat /\ dismissed[t] \in Nat /\ cleared[t] \in Nat /\ listed[t] \in Nat
        /\ rows[t] \in Places /\ dismissed[t] \in Places /\ cleared[t] \in Places
        /\ 0 \in Places
    BY PlacesAreNat DEF RowTypes, BoardRows
  <2>2. /\ dismissed'[t] = Later(rows[t], IF t \in live THEN dismissed[t] ELSE 0)
        /\ cleared'[t] = Later(IF mine THEN rows[t] ELSE 0,
                               IF t \in live \/ rows[t] > 0 THEN cleared[t] ELSE 0)
    BY DEF Dismisses, DismissAt
  <2>3. cleared[t] <= dismissed[t] /\ dismissed[t] <= listed[t] /\ rows[t] <= listed[t]
    BY DEF Ordered
  <2>4. CASE t \in live
    BY <2>1, <2>2, <2>3, <2>4 DEF Later
  <2>5. CASE t \notin live
    <3>1. rows[t] = 0
      BY <2>1, <2>5
    <3> QED
      BY <2>1, <2>2, <2>3, <2>5, <3>1 DEF Later
  <2> QED
    BY <2>4, <2>5
<1>2. dismissed' = [t \in Targets |-> dismissed'[t]] /\ cleared' = [t \in Targets |-> cleared'[t]]
  BY DEF Dismisses, DismissAt
<1> QED
  BY <1>1, <1>2 DEF BoardRows

LEMMA SeenTyped ==
    ASSUME listed \in BoardRows, NEW rows \in BoardRows, Seen(rows)
    PROVE  /\ listed' \in BoardRows
           /\ \A t \in Targets : listed[t] <= listed'[t] /\ rows[t] <= listed'[t]
  BY LaterBound DEF Seen, BoardRows

LEMMA OnlyTyped ==
    ASSUME NEW rows \in BoardRows, NEW t \in Targets
    PROVE  /\ Only(t, rows) \in BoardRows
           /\ \A u \in Targets : Only(t, rows)[u] = 0 \/ Only(t, rows)[u] = rows[u]
  BY PlacesAreNat DEF Only, BoardRows

LEMMA BoardKept == BoardInv /\ [BoardStep]_boardVars => BoardInv'
<1> SUFFICES ASSUME BoardInv, [BoardStep]_boardVars
             PROVE  BoardInv'
  OBVIOUS
<1>0. /\ DaemonTypes' /\ DaemonTypes
      /\ dismissed \in BoardRows /\ listed \in BoardRows /\ cleared \in BoardRows
      /\ board \in Boards /\ capture \in Listings /\ other \in Listings
      /\ board.rows \in BoardRows /\ board.targets \subseteq Targets
      /\ capture.board \in Boards /\ capture.board.rows \in BoardRows
      /\ other.board.rows \in BoardRows /\ other.board.targets \subseteq Targets
      /\ Ordered /\ WasListed /\ AllWhole /\ CaptureClean /\ DismissedStaysOff
  BY DaemonTypesKept DEF BoardInv, BoardTypes, RowTypes, ViewTypes, Listings, Boards
<1>01. \A rows \in BoardRows : \A t \in Targets : rows[t] \in Nat
  BY PlacesAreNat DEF BoardRows
(* What every step shows: the parts it may change.                         *)
<1>1. ASSUME dismissed' \in BoardRows, cleared' \in BoardRows, listed' \in BoardRows,
             board' \in Boards, capture' \in Listings, other' \in Listings,
             Ordered', WasListed', AllWhole', CaptureClean', DismissedStaysOff'
      PROVE  BoardInv'
  BY <1>0, <1>1 DEF BoardInv, BoardTypes, RowTypes, ViewTypes
<1>2. ASSUME UNCHANGED <<dismissed, board, capture, superseded, other, listed, cleared>>
      PROVE  BoardInv'
  BY <1>0, <1>1, <1>2
     DEF Ordered, WasListed, AllWhole, CaptureClean, DismissedStaysOff, Whole
<1>3. ASSUME UNCHANGED <<dismissed, board, other, listed, cleared>>, capture' \in Listings,
             Whole(capture'.board), capture'.step # "done"
      PROVE  BoardInv'
  BY <1>0, <1>1, <1>3
     DEF Ordered, WasListed, AllWhole, CaptureClean, DismissedStaysOff, Whole
<1>4. Whole(NoBoard)
  BY DEF Whole, NoBoard, NoRows
<1>5. Idle.step = "idle" /\ Idle.board = NoBoard
  BY DEF Idle
<1>6. CASE Schedules
  <2>1. capture' = [Idle EXCEPT !.step = "ledger"]
    BY <1>6 DEF Schedules
  <2>2. capture' \in Listings /\ capture'.step = "ledger" /\ capture'.board = NoBoard
    BY <2>1, <1>5, NothingListed DEF Listings, Steps
  <2>3. UNCHANGED <<dismissed, board, other, listed, cleared>>
    BY <1>6 DEF Schedules
  <2> QED
    BY <1>3, <1>4, <2>2, <2>3
<1>7. CASE Captures
  <2>1. UNCHANGED <<dismissed, board, superseded, other, listed, cleared>> /\ capture' = AfterRead(capture)
        /\ Reading(capture)
    BY <1>7 DEF Captures
  <2>2. /\ capture' \in Listings /\ Whole(capture'.board)
        /\ capture'.step = "done" => \A t \in Targets : capture'.board.rows[t] > 0
                                                        => capture'.board.rows[t] > dismissed[t]
    BY <1>0, <2>1, ReadTyped DEF AllWhole
  <2>3. capture'.board.rows \in BoardRows
    BY <2>2 DEF Listings, Boards
  <2>4. CaptureClean'
    <3>1. ASSUME NEW t \in Targets, capture'.step = "done", capture'.board.rows[t] > 0
          PROVE  capture'.board.rows[t] > cleared[t]
      <4>1. cleared[t] <= dismissed[t] /\ capture'.board.rows[t] > dismissed[t]
        BY <1>0, <2>2, <3>1 DEF Ordered
      <4> QED
        BY <1>0, <1>01, <2>3, <4>1
    <3> QED
      BY <2>1, <3>1 DEF CaptureClean
  <2> QED
    BY <1>0, <1>1, <2>1, <2>2, <2>4 DEF Ordered, WasListed, AllWhole, DismissedStaysOff, Whole
<1>8. CASE CaptureFails
  <2>1. UNCHANGED <<dismissed, board, superseded, other, listed, cleared>>
    BY <1>8 DEF CaptureFails
  <2>2. CASE capture' = [capture EXCEPT !.step = "tail"]
    <3>1. capture' \in Listings /\ capture'.step = "tail" /\ capture'.board = capture.board
      BY <1>0, <2>2 DEF Listings, Steps
    <3> QED
      BY <1>0, <1>3, <2>1, <3>1 DEF AllWhole
  <2>3. CASE capture' = Idle
    BY <1>3, <1>4, <1>5, <2>1, <2>3, NothingListed
  <2> QED
    BY <1>8, <2>2, <2>3 DEF CaptureFails
<1>9. CASE BoardIngests
  <2>1. UNCHANGED <<dismissed, superseded, other, cleared>> /\ capture' = Idle
        /\ capture.step = "done"
    BY <1>9 DEF BoardIngests
  <2>2. CASE UNCHANGED <<board, listed>>
    BY <1>3, <1>4, <1>5, <2>1, <2>2, NothingListed
  <2>3. CASE ~superseded /\ board' = capture.board /\ Seen(board'.rows)
    <3>1. /\ listed' \in BoardRows
          /\ \A t \in Targets : listed[t] <= listed'[t] /\ board'.rows[t] <= listed'[t]
      BY <1>0, <2>3, SeenTyped
    <3>2. DismissedStaysOff'
      BY <1>0, <2>1, <2>3 DEF CaptureClean, DismissedStaysOff
    <3>3. Ordered'
      BY <1>0, <1>01, <2>1, <3>1 DEF Ordered
    <3>4. WasListed'
      BY <1>0, <1>01, <2>1, <2>3, <3>1 DEF WasListed
    <3>5. AllWhole' /\ CaptureClean'
      BY <1>0, <1>4, <1>5, <2>1, <2>3 DEF AllWhole, CaptureClean, Whole
    <3> QED
      BY <1>0, <1>1, <2>1, <2>3, <3>1, <3>2, <3>3, <3>4, <3>5, NothingListed
  <2> QED
    BY <1>9, <2>2, <2>3 DEF BoardIngests, Stale
(* The UI lists afresh, under a list of dismissals.                        *)
<1>10. ASSUME dismissed' \in BoardRows, cleared' \in BoardRows,
              \A t \in Targets : cleared'[t] <= dismissed'[t] /\ dismissed'[t] <= listed[t],
              board' = Fresh(dismissed'), Seen(board'.rows), UNCHANGED other,
              capture' = Idle \/ (UNCHANGED capture /\ superseded')
       PROVE  BoardInv'
  <2>1. /\ board' \in Boards /\ Whole(board')
        /\ \A t \in Targets : board'.rows[t] > 0 => board'.rows[t] > dismissed'[t]
    BY <1>0, <1>10, FreshTyped
  <2>2. board'.rows \in BoardRows
    BY <2>1 DEF Boards
  <2>3. /\ listed' \in BoardRows
        /\ \A t \in Targets : listed[t] <= listed'[t] /\ board'.rows[t] <= listed'[t]
    BY <1>0, <1>10, <2>2, SeenTyped
  <2>4. Ordered'
    BY <1>0, <1>01, <1>10, <2>3 DEF Ordered
  <2>5. WasListed'
    BY <1>0, <1>01, <1>10, <2>3 DEF WasListed
  <2>6. DismissedStaysOff'
    BY <1>01, <1>10, <2>1, <2>2 DEF DismissedStaysOff
  <2>7. AllWhole' /\ CaptureClean' /\ capture' \in Listings
    BY <1>0, <1>4, <1>5, <1>10, <2>1, NothingListed DEF AllWhole, CaptureClean, Whole
  <2> QED
    BY <1>0, <1>1, <1>10, <2>1, <2>3, <2>4, <2>5, <2>6, <2>7
<1>11. ASSUME NEW t \in Targets, Acknowledges(t)
       PROVE  BoardInv'
  <2> DEFINE rows == Only(t, board.rows)
  <2>1. /\ rows \in BoardRows
        /\ \A u \in Targets : rows[u] = 0 \/ rows[u] = board.rows[u]
    BY <1>0, OnlyTyped
  <2>2. /\ Dismisses(rows, board.targets, TRUE)
        /\ UNCHANGED <<capture, other>> /\ superseded' /\ Seen(board'.rows)
        /\ board' = Fresh(dismissed')
    BY <1>11 DEF Acknowledges, Fresh, sourceVars
  <2> HIDE DEF rows
  <2>3. \A u \in Targets : rows[u] <= listed[u]
    BY <1>0, <1>01, <2>1 DEF WasListed
  <2>4. \A u \in Targets : rows[u] > 0 => u \in board.targets
    BY <1>0, <1>01, <2>1 DEF AllWhole, Whole
  <2>5. /\ dismissed' \in BoardRows /\ cleared' \in BoardRows
        /\ \A u \in Targets : cleared'[u] <= dismissed'[u] /\ dismissed'[u] <= listed[u]
    BY <1>0, <2>1, <2>2, <2>3, <2>4, DismissKeeps DEF RowTypes
  <2> QED
    BY <1>10, <2>2, <2>5
<1>12. CASE BoardReopens
  <2>1. /\ UNCHANGED <<dismissed, cleared, other>> /\ capture' = Idle /\ Seen(board'.rows)
        /\ board' = Fresh(dismissed')
    BY <1>12 DEF BoardReopens, Fresh
  <2> QED
    BY <1>0, <1>10, <2>1 DEF Ordered
<1>13. CASE Calls
  <2>1. other' = [Idle EXCEPT !.step = "ledger"]
    BY <1>13 DEF Calls
  <2>2. other' \in Listings /\ other'.step = "ledger" /\ other'.board = NoBoard
    BY <2>1, <1>5, NothingListed DEF Listings, Steps
  <2>3. UNCHANGED <<dismissed, board, capture, superseded, listed, cleared>>
    BY <1>13 DEF Calls
  <2> QED
    BY <1>0, <1>1, <1>4, <2>2, <2>3
       DEF Ordered, WasListed, AllWhole, CaptureClean, DismissedStaysOff, Whole
<1>14. CASE Lists
  <2>1. /\ UNCHANGED <<dismissed, board, capture, superseded, cleared>>
        /\ other' = AfterRead(other) /\ Reading(other)
        /\ IF other'.step = "done" THEN Seen(other'.board.rows) ELSE UNCHANGED listed
    BY <1>14 DEF Lists
  <2>2. other' \in Listings /\ Whole(other'.board)
    BY <1>0, <2>1, ReadTyped DEF AllWhole
  <2>3. other'.board.rows \in BoardRows
    BY <2>2 DEF Listings, Boards
  <2>4. /\ listed' \in BoardRows
        /\ \A t \in Targets : /\ listed[t] <= listed'[t]
                              /\ other'.step = "done" => other'.board.rows[t] <= listed'[t]
    <3>1. CASE other'.step = "done"
      BY <1>0, <2>1, <2>3, <3>1, SeenTyped
    <3>2. CASE other'.step # "done"
      BY <1>0, <1>01, <2>1, <3>2
    <3> QED
      BY <3>1, <3>2
  <2>5. Ordered'
    BY <1>0, <1>01, <2>1, <2>4 DEF Ordered
  <2>6. WasListed'
    BY <1>0, <1>01, <2>1, <2>4 DEF WasListed
  <2>7. AllWhole' /\ CaptureClean' /\ DismissedStaysOff'
    BY <1>0, <2>1, <2>2 DEF AllWhole, CaptureClean, DismissedStaysOff, Whole
  <2> QED
    BY <1>0, <1>1, <2>1, <2>2, <2>4, <2>5, <2>6, <2>7
<1>15. CASE Answers
  <2>1. /\ UNCHANGED <<board, capture, superseded, listed>>
        /\ other.step = "done" /\ other' = Idle
    BY <1>15 DEF Answers
  <2>2. ASSUME NEW rows \in BoardRows, Dismisses(rows, other.board.targets, FALSE),
               \A t \in Targets : rows[t] = 0 \/ rows[t] = other.board.rows[t]
        PROVE  BoardInv'
    <3>1. \A t \in Targets : rows[t] <= listed[t]
      BY <1>0, <1>01, <2>1, <2>2 DEF WasListed
    <3>2. \A t \in Targets : rows[t] > 0 => t \in other.board.targets
      BY <1>0, <1>01, <2>2 DEF AllWhole, Whole
    <3>3. /\ dismissed' \in BoardRows /\ cleared' \in BoardRows
          /\ \A t \in Targets : cleared'[t] <= dismissed'[t] /\ dismissed'[t] <= listed[t]
          /\ \A t \in Targets : cleared'[t] <= cleared[t]
      BY <1>0, <2>2, <3>1, <3>2, DismissKeeps DEF RowTypes
    <3>4. Ordered'
      BY <2>1, <3>3 DEF Ordered
    <3>5. DismissedStaysOff'
      <4>1. \A t \in Targets : board.rows[t] > 0 => board.rows[t] > cleared'[t]
        BY <1>0, <1>01, <3>3 DEF DismissedStaysOff
      <4> QED
        BY <2>1, <4>1 DEF DismissedStaysOff
    <3>6. CaptureClean'
      <4>1. ASSUME capture.step = "done", ~superseded, NEW t \in Targets,
                   capture.board.rows[t] > 0
            PROVE  capture.board.rows[t] > cleared'[t]
        <5>1. capture.board.rows[t] > cleared[t]
          BY <1>0, <4>1 DEF CaptureClean
        <5> QED
          BY <1>0, <1>01, <3>3, <5>1
      <4> QED
        BY <2>1, <4>1 DEF CaptureClean
    <3>7. WasListed' /\ AllWhole'
      BY <1>0, <1>4, <1>5, <2>1 DEF WasListed, AllWhole, Whole
    <3> QED
      BY <1>0, <1>1, <2>1, <3>3, <3>4, <3>5, <3>6, <3>7, NothingListed
  <2>3. CASE UNCHANGED <<dismissed, cleared>>
    BY <1>0, <1>1, <1>4, <1>5, <2>1, <2>3, NothingListed
       DEF Ordered, WasListed, AllWhole, CaptureClean, DismissedStaysOff, Whole
  <2>4. ASSUME NEW t \in Targets, Dismisses(Only(t, other.board.rows), other.board.targets, FALSE)
        PROVE  BoardInv'
    BY <1>0, <2>2, <2>4, OnlyTyped
  <2>5. CASE Dismisses(other.board.rows, other.board.targets, FALSE)
    BY <1>0, <2>2, <2>5
  <2> QED
    BY <1>15, <2>3, <2>4, <2>5 DEF Answers
<1>16. ASSUME \/ LogsLine \/ EscalatesItself
              \/ \E t \in BoardTasks : Dispatches(t) \/ Escalates(t) \/ Settles(t)
              \/ UNCHANGED boardVars
       PROVE  UNCHANGED <<dismissed, board, capture, superseded, other, listed, cleared>>
  BY <1>16 DEF LogsLine, EscalatesItself, Dispatches, Escalates, Settles,
               sourceVars, boardVars, BoardQuiet
<1> QED
  BY <1>2, <1>6, <1>7, <1>8, <1>9, <1>11, <1>12, <1>13, <1>14, <1>15, <1>16 DEF BoardStep

(* What the operator dismissed stays off the screen, and only what a       *)
(* listing showed is ever dismissed, whatever captures, refreshes and      *)
(* other callers are under way (ui/actions/overseer_refresh.rs,            *)
(* overseer/dismissals.rs).                                                *)
THEOREM DismissalsHonest == BoardSpec => []BoardSafe
<1>1. BoardInv => BoardSafe
  BY DEF BoardInv, Ordered, BoardSafe, NothingUnseenMuted
<1> QED
  BY <1>1, BoardStarts, BoardKept, PTL DEF BoardSpec

===============================================================================
