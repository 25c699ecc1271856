----------------------------- MODULE CasesProofs -----------------------------
(***************************************************************************)
(* Proofs about the bot's conversations (Cases): a case has one thread, is *)
(* told again only for a fault and resolved by an answer only; what        *)
(* changes something was confirmed, once, and is within the hourly limit.  *)
(***************************************************************************)
EXTENDS Cases, FunctionTheorems, FiniteSetTheorems, TLAPS

-----------------------------------------------------------------------------
(* Types                                                                   *)

Books == [CaseIds -> CaseType]
Runs == [code : Nat, user : Users, cmd : Commands, at : Nat, life : Nat]
Histories == [ran : Seq(Runs), answered : SUBSET CaseIds, audited : SUBSET CaseIds,
              openings : [CaseIds -> Nat], notes : [CaseIds -> Nat]]

CaseTypes ==
    /\ ops \in Books /\ file \in Books
    /\ threads \in [CaseIds -> Seq({"active", "archived"})]
    /\ faults \in Nat
    /\ hist \in Histories

-----------------------------------------------------------------------------
(* What a case, an effect and a call under way stand for                   *)

(* A case as memory or the file has it: what is told of its end is true.   *)
CaseSound(c, o, answered, audited) ==
    /\ ~o.known => o = NoCase
    /\ o.opened => o.thread
    /\ o.resolution = "open" => ~o.posted /\ ~o.archived
    /\ o.resolution # "open" => c \in answered
    /\ o.resolution = "resolved" => (o.posted /\ o.archived) \/ c \in audited

CasesSound ==
    \A c \in CaseIds : /\ CaseSound(c, ops[c], hist.answered, hist.audited)
                       /\ CaseSound(c, file[c], hist.answered, hist.audited)

(* An effect still to be done is one its case has yet to see.              *)
EffectsDue ==
    \A c \in CaseIds :
        /\ OpenThread(c) \in todo => ops[c].known /\ ~ops[c].thread
        /\ Opening(c) \in todo => ops[c].thread /\ ~ops[c].opened
        /\ \A p, a \in BOOLEAN : Deliver(c, p, a) \in todo
             => /\ ops[c].resolution = "pending"
                /\ p # ops[c].posted /\ a # ops[c].archived

NoDelivery(c) == \A p, a \in BOOLEAN : Deliver(c, p, a) \notin todo

(* So is the one that waits for Discord.                                   *)
CallDue ==
    /\ doing.kind \in {"open", "found"} =>
         /\ doing.case \in CaseIds
         /\ ops[doing.case].known /\ ~ops[doing.case].thread
         /\ OpenThread(doing.case) \notin todo
    /\ doing.kind = "open" => threads[doing.case] = <<>>
    /\ doing.kind = "resolve" =>
         /\ doing.case \in CaseIds /\ doing.case \in hist.answered
         /\ todo = {} /\ ops[doing.case].known
    /\ doing.kind \in {"archive", "exhausted"} =>
         /\ doing.case \in CaseIds
         /\ ops[doing.case].resolution = "pending"
         /\ NoDelivery(doing.case)
    /\ doing.kind = "archive" => doing.posted \in BOOLEAN /\ doing.archive \in BOOLEAN

(* The end of a case has been told, though it may not be noted yet.        *)
Posted(c) ==
    \/ ops[c].posted
    \/ doing.kind = "archive" /\ doing.case = c /\ doing.posted

ToldOnce ==
    \A c \in CaseIds :
        /\ Len(threads[c]) <= 1
        /\ hist.openings[c] <= faults + 1
        /\ ~ops[c].opened => hist.openings[c] <= faults
        /\ hist.notes[c] <= faults + 1
        /\ ~Posted(c) => hist.notes[c] <= faults
        /\ hist.notes[c] > 0 => c \in hist.answered

ThreadInv == CaseTypes /\ CasesSound /\ EffectsDue /\ CallDue /\ ToldOnce

-----------------------------------------------------------------------------
(* Cases, one field at a time                                              *)

LEMMA NoCaseTyped == NoCase \in CaseType /\ [NoCase EXCEPT !.known = TRUE] \in CaseType
  BY DEF NoCase, CaseType

LEMMA MappedCase ==
  ASSUME NEW o \in CaseType
  PROVE  LET q == [o EXCEPT !.thread = TRUE]
         IN /\ q \in CaseType /\ q.thread
            /\ q.known = o.known /\ q.opened = o.opened /\ q.resolution = o.resolution
            /\ q.posted = o.posted /\ q.archived = o.archived
  BY DEF CaseType

LEMMA OpenedCase ==
  ASSUME NEW o \in CaseType
  PROVE  LET q == [o EXCEPT !.opened = TRUE]
         IN /\ q \in CaseType /\ q.opened
            /\ q.known = o.known /\ q.thread = o.thread /\ q.resolution = o.resolution
            /\ q.posted = o.posted /\ q.archived = o.archived
  BY DEF CaseType

LEMMA ResolvingCase ==
  ASSUME NEW o \in CaseType, NEW r \in {"pending", "resolved"}
  PROVE  LET q == [o EXCEPT !.resolution = r]
         IN /\ q \in CaseType /\ q.resolution = r
            /\ q.known = o.known /\ q.thread = o.thread /\ q.opened = o.opened
            /\ q.posted = o.posted /\ q.archived = o.archived
  BY DEF CaseType

LEMMA RecordedCase ==
  ASSUME ops \in Books, NEW c \in CaseIds, NEW p \in BOOLEAN, NEW a \in BOOLEAN,
         MaxAttempts \in Nat, ops[c].resolution = "pending"
  PROVE  LET q == Recorded(c, p, a)
         IN /\ q \in CaseType
            /\ q.known = ops[c].known /\ q.thread = ops[c].thread /\ q.opened = ops[c].opened
            /\ q.posted <=> ops[c].posted \/ p
            /\ q.archived <=> ops[c].archived \/ a
            /\ q.resolution \in {"pending", "resolved"}
            /\ q.resolution = "resolved" => q.posted /\ q.archived
<1> DEFINE o == ops[c]
           posted == o.posted \/ p
           archived == o.archived \/ a
           more == IF o.attempts < MaxAttempts THEN o.attempts + 1 ELSE o.attempts
           kept == [o EXCEPT !.posted = posted, !.archived = archived, !.attempts = more]
           final == IF kept.posted /\ kept.archived THEN "resolved" ELSE kept.resolution
<1>0. o \in CaseType
  BY DEF Books
<1>1. posted \in BOOLEAN /\ archived \in BOOLEAN
  OBVIOUS
<1>2. more \in Nat
  BY <1>0 DEF CaseType
<1>3. Recorded(c, p, a) = [kept EXCEPT !.resolution = final]
  BY DEF Recorded
<1>4. (posted <=> o.posted \/ p) /\ (archived <=> o.archived \/ a)
  OBVIOUS
<1>5. o.resolution = "pending"
  OBVIOUS
<1> HIDE DEF o, posted, archived, more
<1>6. /\ kept \in CaseType /\ kept.posted = posted /\ kept.archived = archived
      /\ kept.known = o.known /\ kept.thread = o.thread /\ kept.opened = o.opened
      /\ kept.resolution = o.resolution
  BY <1>0, <1>1, <1>2 DEF CaseType
<1>7. final \in {"pending", "resolved"} /\ (final = "resolved" => posted /\ archived)
  BY <1>5, <1>6
<1> HIDE DEF kept, final
<1>8. LET q == [kept EXCEPT !.resolution = final]
      IN /\ q \in CaseType /\ q.resolution = final
         /\ q.known = kept.known /\ q.thread = kept.thread /\ q.opened = kept.opened
         /\ q.posted = kept.posted /\ q.archived = kept.archived
  BY <1>6, <1>7, ResolvingCase
<1> QED
  BY <1>3, <1>4, <1>6, <1>7, <1>8 DEF o

(* Effects are told apart by their kinds and cases.                        *)
LEMMA EffectFields ==
    \A c : /\ OpenThread(c).kind = "open" /\ OpenThread(c).case = c
           /\ Opening(c).kind = "opening" /\ Opening(c).case = c
           /\ \A u, cmd : Submit(c, u, cmd).kind = "submit"
           /\ \A p, a : Deliver(c, p, a).kind = "deliver" /\ Deliver(c, p, a).case = c
           /\ \A p, a \in BOOLEAN :
                /\ Deliver(c, p, a).post = p /\ Deliver(c, p, a).archive = a
  BY DEF OpenThread, Opening, Deliver, Submit

LEMMA CallKinds ==
    /\ NoEffect.kind = "none"
    /\ \A c : OpenThread(c).kind = "open" /\ OpenThread(c).case = c
    /\ \A c : Resolve(c).kind = "resolve" /\ Resolve(c).case = c
  BY DEF NoEffect, OpenThread, Resolve

-----------------------------------------------------------------------------
(* Steps that tell and change no case                                      *)

(* The history a step adds to, as far as the threads are concerned.        *)
Untold ==
    /\ hist.answered \subseteq hist'.answered /\ hist'.audited = hist.audited
    /\ hist'.openings = hist.openings /\ hist'.notes = hist.notes

(* A case changes in memory, and in the file or not.                       *)
LEMMA OneCase ==
  ASSUME CaseTypes, CasesSound, NEW c \in CaseIds, NEW o \in CaseType,
         ops' = [ops EXCEPT ![c] = o], file' = file \/ file' = ops',
         CaseSound(c, o, hist'.answered, hist'.audited),
         hist.answered \subseteq hist'.answered, hist.audited \subseteq hist'.audited
  PROVE  ops' \in Books /\ file' \in Books /\ CasesSound'
<1>1. ops' \in Books /\ file' \in Books
  BY DEF CaseTypes, Books
<1>2. ASSUME NEW d \in CaseIds, NEW q, CaseSound(d, q, hist.answered, hist.audited)
      PROVE  CaseSound(d, q, hist'.answered, hist'.audited)
  BY <1>2 DEF CaseSound
<1>3. ASSUME NEW d \in CaseIds
      PROVE  CaseSound(d, ops'[d], hist'.answered, hist'.audited)
  BY <1>2 DEF CasesSound, CaseTypes, Books
<1>4. ASSUME NEW d \in CaseIds
      PROVE  CaseSound(d, file'[d], hist'.answered, hist'.audited)
  BY <1>2, <1>3 DEF CasesSound
<1> QED
  BY <1>1, <1>3, <1>4 DEF CasesSound

LEMMA SameCases ==
  ASSUME CaseTypes, CasesSound, UNCHANGED <<ops, file>>,
         hist.answered \subseteq hist'.answered, hist.audited \subseteq hist'.audited
  PROVE  ops' \in Books /\ file' \in Books /\ CasesSound'
  BY DEF CaseTypes, CasesSound, CaseSound

(* Nothing is told, no case moves, and no effect is added.                 *)
LEMMA NothingTold ==
  ASSUME ThreadInv, UNCHANGED <<ops, file, threads, doing>>, todo' \subseteq todo,
         faults' \in {faults, faults + 1}, hist' \in Histories, Untold
  PROVE  ThreadInv'
<1>1. CaseTypes'
  BY DEF ThreadInv, CaseTypes
<1>2. CasesSound'
  BY SameCases DEF ThreadInv, Untold
<1>3. EffectsDue'
  BY DEF ThreadInv, EffectsDue
<1>4. CallDue'
  BY DEF ThreadInv, CallDue, Untold, NoDelivery
<1>5. ToldOnce'
  <2>1. ASSUME NEW c \in CaseIds
        PROVE  hist.openings[c] \in Nat /\ hist.notes[c] \in Nat /\ faults \in Nat
    BY DEF ThreadInv, CaseTypes, Histories
  <2>2. ASSUME NEW c \in CaseIds
        PROVE  Posted(c)' <=> Posted(c)
    BY DEF Posted
  <2> QED
    BY <2>1, <2>2 DEF ThreadInv, ToldOnce, Untold
<1> QED
  BY <1>1, <1>2, <1>3, <1>4, <1>5 DEF ThreadInv

(* A restart, of the bot or of the daemon, forgets what memory has over    *)
(* the file.                                                               *)
LEMMA Reloaded ==
  ASSUME ThreadInv, Load, faults' = faults + 1, UNCHANGED <<file, threads, hist>>
  PROVE  ThreadInv'
<1>1. CaseTypes'
  BY DEF ThreadInv, CaseTypes, Load
<1>2. CasesSound'
  BY DEF ThreadInv, CasesSound, Load
<1>3. EffectsDue' /\ CallDue'
  BY CallKinds DEF Load, EffectsDue, CallDue
<1>4. ToldOnce'
  <2>1. ASSUME NEW c \in CaseIds
        PROVE  hist.openings[c] \in Nat /\ hist.notes[c] \in Nat /\ faults \in Nat
    BY DEF ThreadInv, CaseTypes, Histories
  <2> QED
    BY <2>1 DEF ThreadInv, ToldOnce
<1> QED
  BY <1>1, <1>2, <1>3, <1>4 DEF ThreadInv

(* What a run adds to the history.                                         *)
LEMMA RunTyped ==
  ASSUME hist \in Histories, now \in Nat, life \in Nat, NEW k \in Nat,
         NEW u \in Users, NEW cmd \in Commands, NEW reached \in BOOLEAN,
         Run(k, u, cmd, reached)
  PROVE  /\ hist' \in Histories
         /\ hist'.ran = Append(hist.ran, [code |-> k, user |-> u, cmd |-> cmd,
                                          at |-> now, life |-> life])
         /\ hist'.answered = IF reached /\ cmd.kind = "answer"
                             THEN hist.answered \cup {cmd.to} ELSE hist.answered
         /\ hist'.audited = hist.audited /\ hist'.openings = hist.openings
         /\ hist'.notes = hist.notes
<1> DEFINE run == [code |-> k, user |-> u, cmd |-> cmd, at |-> now, life |-> life]
           grown == Append(hist.ran, run)
           told == IF reached /\ cmd.kind = "answer"
                   THEN hist.answered \cup {cmd.to} ELSE hist.answered
<1>1. hist' = [hist EXCEPT !.ran = grown, !.answered = told]
  BY DEF Run
<1>2. grown \in Seq(Runs)
  BY DEF Runs, Histories
<1>3. told \in SUBSET CaseIds
  BY DEF Histories, Commands, Answer, Report
<1> HIDE DEF grown, told
<1>4. /\ hist' \in Histories /\ hist'.ran = grown /\ hist'.answered = told
      /\ hist'.audited = hist.audited /\ hist'.openings = hist.openings
      /\ hist'.notes = hist.notes
  BY <1>1, <1>2, <1>3 DEF Histories
<1> QED
  BY <1>4 DEF grown, told

-----------------------------------------------------------------------------
(* Threads: the effects of a tick                                          *)

BoundTypes == now \in Nat /\ life \in Nat /\ messages \in Nat

LEMMA TickDue ==
  ASSUME ThreadInv, Tick
  PROVE  ThreadInv'
<1>0. CaseTypes /\ CasesSound /\ ToldOnce /\ doing = NoEffect
  BY DEF ThreadInv, Tick, Idle
<1>1. /\ ops' = WithDiscovered \/ ops' = ops
      /\ file' = ops' \/ (file' = file /\ ops' = ops)
      /\ UNCHANGED <<threads, doing, hist, faults>>
  BY DEF Tick, SaveOk
<1>2. ASSUME NEW c \in CaseIds
      PROVE  /\ ops'[c] = ops[c] \/ (~ops[c].known /\ ops'[c] = [NoCase EXCEPT !.known = TRUE])
             /\ ops'[c] \in CaseType
             /\ ops'[c].thread = ops[c].thread /\ ops'[c].opened = ops[c].opened
             /\ ops'[c].posted = ops[c].posted /\ ops'[c].resolution = ops[c].resolution
             /\ CaseSound(c, ops'[c], hist.answered, hist.audited)
  <2>1. ops'[c] = ops[c] \/ (~ops[c].known /\ ops'[c] = [NoCase EXCEPT !.known = TRUE])
    BY <1>1 DEF WithDiscovered, Discovered
  <2>2. ops[c] \in CaseType /\ CaseSound(c, ops[c], hist.answered, hist.audited)
    BY <1>0 DEF CaseTypes, Books, CasesSound
  <2>3. CASE ops'[c] = ops[c]
    BY <2>1, <2>2, <2>3
  <2>4. CASE ~ops[c].known /\ ops'[c] = [NoCase EXCEPT !.known = TRUE]
    <3>1. ops[c] = NoCase
      BY <2>2, <2>4 DEF CaseSound
    <3>2. /\ ops'[c].known /\ ~ops'[c].thread /\ ~ops'[c].opened /\ ~ops'[c].posted
          /\ ~ops'[c].archived /\ ops'[c].resolution = "open"
      BY <2>4 DEF NoCase
    <3>3. ~ops[c].thread /\ ~ops[c].opened /\ ~ops[c].posted /\ ops[c].resolution = "open"
      BY <3>1 DEF NoCase
    <3>4. ops'[c].thread = FALSE /\ ops'[c].opened = FALSE /\ ops'[c].posted = FALSE
      BY <2>4 DEF NoCase
    <3>5. ops[c].thread = FALSE /\ ops[c].opened = FALSE /\ ops[c].posted = FALSE
      BY <3>1 DEF NoCase
    <3> QED
      BY <2>1, <2>4, <3>2, <3>3, <3>4, <3>5, NoCaseTyped DEF CaseSound
  <2> QED
    BY <2>1, <2>3, <2>4
<1>3. ops' \in Books /\ file' \in Books
  <2>1. ops' = [c \in CaseIds |-> ops'[c]]
    BY <1>0, <1>1 DEF WithDiscovered, CaseTypes, Books
  <2> QED
    BY <1>0, <1>1, <1>2, <2>1 DEF CaseTypes, Books
<1>4. CaseTypes'
  BY <1>0, <1>1, <1>3 DEF CaseTypes
<1>5. CasesSound'
  BY <1>0, <1>1, <1>2 DEF CasesSound
<1>6. EffectsDue'
  <2> SUFFICES ASSUME NEW c \in CaseIds
               PROVE  /\ OpenThread(c) \in todo' => ops'[c].known /\ ~ops'[c].thread
                      /\ Opening(c) \in todo' => ops'[c].thread /\ ~ops'[c].opened
                      /\ \A p, a \in BOOLEAN : Deliver(c, p, a) \in todo'
                           => /\ ops'[c].resolution = "pending"
                              /\ p # ops'[c].posted /\ a # ops'[c].archived
    BY DEF EffectsDue
  <2>1. \A e \in todo' : (\E d \in CaseIds : e \in EffectsOf(d)) \/ e \in Submitted
    BY DEF Tick
  <2>2. \A e \in Submitted : \E d, u, cmd : e = Submit(d, u, cmd)
    BY DEF Submitted
  <2>3. \A d \in CaseIds : \A e \in EffectsOf(d) :
          \/ e = OpenThread(d) /\ ops'[d].known /\ ~ops'[d].thread
          \/ e = Opening(d) /\ ops'[d].thread /\ ~ops'[d].opened
          \/ /\ e = Deliver(d, ~ops'[d].posted, ~ops'[d].archived)
             /\ ops'[d].resolution = "pending"
    BY DEF EffectsOf, Delivery
  <2>4. ASSUME NEW e \in todo', \A d, u, cmd : e # Submit(d, u, cmd)
        PROVE  \E d \in CaseIds :
                 \/ e = OpenThread(d) /\ ops'[d].known /\ ~ops'[d].thread
                 \/ e = Opening(d) /\ ops'[d].thread /\ ~ops'[d].opened
                 \/ /\ e = Deliver(d, ~ops'[d].posted, ~ops'[d].archived)
                    /\ ops'[d].resolution = "pending"
    BY <2>1, <2>2, <2>3, <2>4
  <2>5. ASSUME OpenThread(c) \in todo'
        PROVE  ops'[c].known /\ ~ops'[c].thread
    <3>1. PICK d \in CaseIds :
                 \/ OpenThread(c) = OpenThread(d) /\ ops'[d].known /\ ~ops'[d].thread
                 \/ OpenThread(c) = Opening(d)
                 \/ OpenThread(c) = Deliver(d, ~ops'[d].posted, ~ops'[d].archived)
      BY <2>4, <2>5, EffectFields
    <3>2. d = c /\ ops'[d].known /\ ~ops'[d].thread
      BY <3>1, EffectFields
    <3> QED
      BY <3>2
  <2>6. ASSUME Opening(c) \in todo'
        PROVE  ops'[c].thread /\ ~ops'[c].opened
    <3>1. PICK d \in CaseIds :
                 \/ Opening(c) = OpenThread(d)
                 \/ Opening(c) = Opening(d) /\ ops'[d].thread /\ ~ops'[d].opened
                 \/ Opening(c) = Deliver(d, ~ops'[d].posted, ~ops'[d].archived)
      BY <2>4, <2>6, EffectFields
    <3>2. d = c /\ ops'[d].thread /\ ~ops'[d].opened
      BY <3>1, EffectFields
    <3> QED
      BY <3>2
  <2>7. ASSUME NEW p \in BOOLEAN, NEW a \in BOOLEAN, Deliver(c, p, a) \in todo'
        PROVE  /\ ops'[c].resolution = "pending"
               /\ p # ops'[c].posted /\ a # ops'[c].archived
    <3>1. PICK d \in CaseIds :
                 \/ Deliver(c, p, a) = OpenThread(d)
                 \/ Deliver(c, p, a) = Opening(d)
                 \/ /\ Deliver(c, p, a) = Deliver(d, ~ops'[d].posted, ~ops'[d].archived)
                    /\ ops'[d].resolution = "pending"
      BY <2>4, <2>7, EffectFields
    <3> DEFINE q == ~ops'[d].posted
               b == ~ops'[d].archived
    <3>2. /\ ops'[d].posted \in BOOLEAN /\ ops'[d].archived \in BOOLEAN
          /\ q \in BOOLEAN /\ b \in BOOLEAN
          /\ q # ops'[d].posted /\ b # ops'[d].archived
      BY <1>2 DEF CaseType
    <3>3. Deliver(c, p, a) = Deliver(d, q, b) /\ ops'[d].resolution = "pending"
      BY <3>1, EffectFields
    <3> HIDE DEF q, b
    <3>4. c = d /\ p = q /\ a = b
      BY <3>2, <3>3, EffectFields
    <3> QED
      BY <3>2, <3>3, <3>4
  <2> QED
    BY <2>5, <2>6, <2>7
<1>7. CallDue'
  BY <1>0, <1>1, CallKinds DEF CallDue
<1>8. ToldOnce'
  <2>1. ASSUME NEW c \in CaseIds
        PROVE  (ops'[c].opened <=> ops[c].opened) /\ (Posted(c)' <=> Posted(c))
    BY <1>1, <1>2 DEF Posted
  <2> QED
    BY <1>0, <1>1, <2>1 DEF ToldOnce
<1> QED
  BY <1>4, <1>5, <1>6, <1>7, <1>8 DEF ThreadInv

(* A thread is made only where none is found, and none is lost by name.    *)
LEMMA ThreadMade ==
  ASSUME ThreadInv, LookForThread \/ CreateThread
  PROVE  ThreadInv'
<1>0. CaseTypes /\ CasesSound /\ EffectsDue /\ CallDue /\ ToldOnce
  BY DEF ThreadInv
<1>1. UNCHANGED <<ops, file, hist>> /\ todo' \subseteq todo /\ faults' \in {faults, faults + 1}
  BY DEF LookForThread, CreateThread, Drop, Fault, caseVars, boundVars
<1>2. CasesSound' /\ ops' \in Books /\ file' \in Books
  BY <1>0, <1>1, SameCases
<1>3. EffectsDue'
  BY <1>0, <1>1 DEF EffectsDue
<1>4. \/ UNCHANGED <<threads, doing>>
      \/ /\ UNCHANGED threads
         /\ \E c \in CaseIds :
              /\ OpenThread(c) \in todo /\ OpenThread(c) \notin todo'
              /\ \/ doing' = [kind |-> "found", case |-> c]
                 \/ doing' = OpenThread(c) /\ threads[c] = <<>>
      \/ /\ doing.kind = "open" /\ UNCHANGED todo
         /\ \/ UNCHANGED threads /\ doing' = NoEffect
            \/ /\ threads' = [threads EXCEPT ![doing.case] = Append(@, "active")]
               /\ doing' = [kind |-> "found", case |-> doing.case] \/ doing' = NoEffect
  BY DEF LookForThread, CreateThread, Take, Drop, Findable, caseVars
<1>5. CallDue'
  <2>1. CASE UNCHANGED <<threads, doing>>
    BY <1>0, <1>1, <2>1 DEF CallDue, NoDelivery
  <2>2. ASSUME UNCHANGED threads, NEW c \in CaseIds,
               OpenThread(c) \in todo, OpenThread(c) \notin todo',
               \/ doing' = [kind |-> "found", case |-> c]
               \/ doing' = OpenThread(c) /\ threads[c] = <<>>
        PROVE  CallDue'
    BY <1>0, <1>1, <2>2, CallKinds DEF CallDue, EffectsDue
  <2>3. CASE /\ doing.kind = "open" /\ UNCHANGED todo
             /\ doing' = [kind |-> "found", case |-> doing.case] \/ doing' = NoEffect
    BY <1>0, <1>1, <2>3, CallKinds DEF CallDue
  <2> QED
    BY <1>4, <2>1, <2>2, <2>3
<1>6. ASSUME NEW c \in CaseIds
      PROVE  threads'[c] \in Seq({"active", "archived"}) /\ Len(threads'[c]) <= 1
  <2>1. threads[c] \in Seq({"active", "archived"}) /\ Len(threads[c]) <= 1
    BY <1>0 DEF CaseTypes, ToldOnce
  <2>2. CASE UNCHANGED threads
    BY <2>1, <2>2
  <2>3. CASE doing.kind = "open" /\ threads' = [threads EXCEPT ![doing.case] = Append(@, "active")]
    <3>1. threads[doing.case] = <<>> /\ doing.case \in CaseIds
      BY <1>0, <2>3 DEF CallDue
    <3>2. /\ threads[doing.case] \in Seq({"active", "archived"})
          /\ Len(threads[doing.case]) = 0
      BY <1>0, <3>1 DEF CaseTypes
    <3>3. \/ threads'[c] = threads[c]
          \/ threads'[c] = Append(threads[doing.case], "active")
      BY <1>0, <2>3, <3>1 DEF CaseTypes
    <3>4. /\ Append(threads[doing.case], "active") \in Seq({"active", "archived"})
          /\ Len(Append(threads[doing.case], "active")) = 1
      BY <3>2
    <3> QED
      BY <2>1, <3>3, <3>4
  <2> QED
    BY <1>4, <2>2, <2>3
<1>7. CaseTypes'
  <2>1. DOMAIN threads' = CaseIds /\ threads' = [c \in CaseIds |-> threads'[c]]
    BY <1>0, <1>4 DEF CaseTypes
  <2> QED
    BY <1>0, <1>1, <1>2, <1>6, <2>1 DEF CaseTypes
<1>8. ToldOnce'
  <2>1. ASSUME NEW c \in CaseIds
        PROVE  Posted(c)' <=> Posted(c)
    BY <1>1, <1>4, CallKinds DEF Posted, LookForThread, CreateThread, Take
  <2>2. ASSUME NEW c \in CaseIds
        PROVE  hist.openings[c] \in Nat /\ hist.notes[c] \in Nat /\ faults \in Nat
    BY <1>0 DEF CaseTypes, Histories
  <2> QED
    BY <1>0, <1>1, <1>6, <2>1, <2>2 DEF ToldOnce
<1> QED
  BY <1>2, <1>3, <1>5, <1>7, <1>8 DEF ThreadInv

(* The mapping of a thread that is there.                                  *)
LEMMA ThreadMapped ==
  ASSUME ThreadInv, MapThread
  PROVE  ThreadInv'
<1> DEFINE c == doing.case
           o == [ops[c] EXCEPT !.thread = TRUE]
<1>0. CaseTypes /\ CasesSound /\ EffectsDue /\ ToldOnce
  BY DEF ThreadInv
<1>1. /\ c \in CaseIds /\ ops[c].known /\ ~ops[c].thread
      /\ OpenThread(c) \notin todo /\ doing.kind = "found"
  BY DEF ThreadInv, CallDue, MapThread
<1>2. /\ ops' = [ops EXCEPT ![c] = o] /\ (file' = file \/ file' = ops')
      /\ (todo' = todo \/ todo' = todo \cup {Opening(c)})
      /\ doing' = NoEffect /\ UNCHANGED <<threads, hist>> /\ faults' \in {faults, faults + 1}
  BY DEF MapThread, SaveOk, SaveFails, Fault
<1>3. ops[c] \in CaseType /\ CaseSound(c, ops[c], hist.answered, hist.audited)
  BY <1>0, <1>1 DEF CaseTypes, Books, CasesSound
<1>4. /\ o \in CaseType /\ o.thread
      /\ o.known = ops[c].known /\ o.opened = ops[c].opened /\ o.resolution = ops[c].resolution
      /\ o.posted = ops[c].posted /\ o.archived = ops[c].archived
  BY <1>3, MappedCase
<1> HIDE DEF c, o
<1>5. CaseSound(c, o, hist.answered, hist.audited)
  BY <1>1, <1>3, <1>4 DEF CaseSound
<1>6. ops' \in Books /\ file' \in Books /\ CasesSound'
  BY <1>0, <1>1, <1>2, <1>4, <1>5, OneCase
<1>7. \A d \in CaseIds : d # c => ops'[d] = ops[d]
  BY <1>0, <1>2 DEF CaseTypes, Books
<1>8. ops'[c] = o
  BY <1>0, <1>1, <1>2 DEF CaseTypes, Books
<1>9. CaseTypes' /\ CallDue'
  BY <1>0, <1>2, <1>6, CallKinds DEF CaseTypes, CallDue
<1>10. EffectsDue'
  <2>1. ASSUME NEW d \in CaseIds
        PROVE  /\ OpenThread(d) \in todo' => OpenThread(d) \in todo
               /\ Opening(d) \in todo' => Opening(d) \in todo \/ d = c
               /\ \A p, a \in BOOLEAN : Deliver(d, p, a) \in todo' => Deliver(d, p, a) \in todo
    BY <1>2, EffectFields
  <2>2. ASSUME NEW d \in CaseIds, d # c
        PROVE  ops'[d] = ops[d]
    BY <1>7, <2>2
  <2>3. ~ops[c].opened
    BY <1>1, <1>3 DEF CaseSound
  <2> QED
    BY <1>0, <1>1, <1>4, <1>8, <2>1, <2>2, <2>3 DEF EffectsDue
<1>11. ToldOnce'
  <2>1. ASSUME NEW d \in CaseIds
        PROVE  /\ ops'[d].opened = ops[d].opened
               /\ Posted(d)' <=> Posted(d)
    BY <1>1, <1>2, <1>4, <1>7, <1>8, CallKinds DEF Posted
  <2>2. ASSUME NEW d \in CaseIds
        PROVE  hist.openings[d] \in Nat /\ hist.notes[d] \in Nat /\ faults \in Nat
    BY <1>0 DEF CaseTypes, Histories
  <2> QED
    BY <1>0, <1>2, <2>1, <2>2 DEF ToldOnce
<1> QED
  BY <1>6, <1>9, <1>10, <1>11 DEF ThreadInv

(* The opening: told once more is a fault more, or a case less untold.     *)
LEMMA OpeningSent ==
  ASSUME ThreadInv, SendOpening
  PROVE  ThreadInv'
<1>0. CaseTypes /\ CasesSound /\ EffectsDue /\ CallDue /\ ToldOnce
  BY DEF ThreadInv
<1>1. PICK c \in CaseIds :
        /\ Opening(c) \in todo /\ todo' = todo \ {Opening(c)}
        /\ doing = NoEffect
        /\ \/ UNCHANGED <<ops, file, faults, hist>>
           \/ /\ hist' = [hist EXCEPT !.openings[c] = @ + 1]
              /\ \/ Save([ops EXCEPT ![c].opened = TRUE])
                 \/ UNCHANGED <<ops, file>> /\ Fault
  BY DEF SendOpening, Take, Drop
<1>2. UNCHANGED <<threads, doing>>
  BY DEF SendOpening, Drop
<1>3. CASE UNCHANGED <<ops, file, faults, hist>>
  <2>1. todo' \subseteq todo
    BY <1>1
  <2>2. faults' \in {faults, faults + 1} /\ hist' \in Histories /\ Untold
    BY <1>0, <1>3 DEF CaseTypes, Untold
  <2> QED
    BY <1>2, <1>3, <2>1, <2>2, NothingTold
<1>4. CASE /\ hist' = [hist EXCEPT !.openings[c] = @ + 1]
           /\ \/ Save([ops EXCEPT ![c].opened = TRUE])
              \/ UNCHANGED <<ops, file>> /\ Fault
  <2> DEFINE more == [hist.openings EXCEPT ![c] = @ + 1]
             o == [ops[c] EXCEPT !.opened = TRUE]
  <2>1. hist' = [hist EXCEPT !.openings = more]
    BY <1>4
  <2>2. hist \in Histories /\ faults \in Nat /\ hist.openings \in [CaseIds -> Nat]
    BY <1>0 DEF CaseTypes, Histories
  <2>3. more \in [CaseIds -> Nat]
    BY <2>2
  <2>4. /\ more[c] = hist.openings[c] + 1
        /\ \A d \in CaseIds : d # c => more[d] = hist.openings[d]
    BY <2>2
  <2>5. \/ /\ ops' = [ops EXCEPT ![c] = o] /\ (file' = ops' \/ file' = file)
           /\ faults' \in {faults, faults + 1}
        \/ UNCHANGED <<ops, file>> /\ faults' = faults + 1
    BY <1>4 DEF Save, SaveOk, SaveFails, Fault
  <2>6. /\ ops[c] \in CaseType /\ ops[c].thread /\ ~ops[c].opened
        /\ CaseSound(c, ops[c], hist.answered, hist.audited)
    BY <1>0, <1>1 DEF CaseTypes, Books, CasesSound, EffectsDue
  <2>7. /\ o \in CaseType /\ o.opened
        /\ o.known = ops[c].known /\ o.thread = ops[c].thread /\ o.resolution = ops[c].resolution
        /\ o.posted = ops[c].posted /\ o.archived = ops[c].archived
    BY <2>6, OpenedCase
  <2> HIDE DEF more, o
  <2>8. /\ hist' \in Histories /\ hist'.openings = more /\ hist'.notes = hist.notes
        /\ hist'.answered = hist.answered /\ hist'.audited = hist.audited
    BY <2>1, <2>2, <2>3 DEF Histories
  <2>9. CaseSound(c, o, hist'.answered, hist'.audited)
    BY <2>6, <2>7, <2>8 DEF CaseSound, NoCase
  <2>10. ops' \in Books /\ file' \in Books /\ CasesSound'
    <3>1. CASE UNCHANGED <<ops, file>>
      BY <1>0, <2>8, <3>1, SameCases
    <3>2. CASE ops' = [ops EXCEPT ![c] = o] /\ (file' = ops' \/ file' = file)
      BY <1>0, <2>7, <2>8, <2>9, <3>2, OneCase
    <3> QED
      BY <2>5, <3>1, <3>2
  <2>11. /\ \A d \in CaseIds : d # c => ops'[d] = ops[d]
         /\ ops'[c] = o \/ (ops'[c] = ops[c] /\ faults' = faults + 1)
    BY <1>0, <2>5 DEF CaseTypes, Books
  <2>12. \A d \in CaseIds :
           /\ ops'[d].known = ops[d].known /\ ops'[d].thread = ops[d].thread
           /\ ops'[d].resolution = ops[d].resolution
           /\ ops'[d].posted = ops[d].posted /\ ops'[d].archived = ops[d].archived
    BY <2>7, <2>11
  <2>13. CaseTypes'
    BY <1>0, <1>2, <2>2, <2>5, <2>8, <2>10 DEF CaseTypes
  <2>14. EffectsDue'
    <3>1. Opening(c) \notin todo' /\ todo' \subseteq todo
      BY <1>1
    <3> QED
      BY <1>0, <2>11, <2>12, <3>1 DEF EffectsDue
  <2>15. CallDue'
    BY <1>1, <1>2, CallKinds DEF CallDue
  <2>16. ToldOnce'
    <3>1. ASSUME NEW d \in CaseIds
          PROVE  /\ Posted(d)' <=> Posted(d)
                 /\ hist.openings[d] \in Nat /\ hist.notes[d] \in Nat
      BY <1>2, <2>2, <2>12 DEF Posted, Histories
    <3>2. faults' \in {faults, faults + 1} /\ UNCHANGED threads
      BY <1>2, <2>5
    <3>3. ASSUME NEW d \in CaseIds, d # c
          PROVE  hist'.openings[d] = hist.openings[d] /\ ops'[d] = ops[d]
      BY <2>4, <2>8, <2>11, <3>3
    <3>4. /\ hist'.openings[c] = hist.openings[c] + 1
          /\ hist.openings[c] <= faults
          /\ ops'[c].opened \/ faults' = faults + 1
      BY <1>0, <2>4, <2>6, <2>7, <2>8, <2>11 DEF ToldOnce
    <3>5. ASSUME NEW d \in CaseIds
          PROVE  /\ hist'.openings[d] <= faults' + 1
                 /\ ~ops'[d].opened => hist'.openings[d] <= faults'
      BY <1>0, <2>2, <3>1, <3>2, <3>3, <3>4 DEF ToldOnce
    <3>6. ASSUME NEW d \in CaseIds
          PROVE  /\ hist'.notes[d] <= faults' + 1
                 /\ ~Posted(d)' => hist'.notes[d] <= faults'
                 /\ hist'.notes[d] > 0 => d \in hist'.answered
      BY <1>0, <2>2, <2>8, <3>1, <3>2 DEF ToldOnce
    <3> QED
      BY <1>0, <3>2, <3>5, <3>6 DEF ToldOnce
  <2> QED
    BY <2>10, <2>13, <2>14, <2>15, <2>16 DEF ThreadInv
<1> QED
  BY <1>1, <1>3, <1>4

(* The resolution of a case that has its answer.                           *)
LEMMA ResolutionBegun ==
  ASSUME ThreadInv, BeginResolution
  PROVE  ThreadInv'
<1> DEFINE c == doing.case
           o == [ops[c] EXCEPT !.resolution = "pending"]
<1>0. CaseTypes /\ CasesSound /\ EffectsDue /\ ToldOnce
  BY DEF ThreadInv
<1>1. /\ c \in CaseIds /\ c \in hist.answered /\ ops[c].known /\ todo = {}
      /\ doing.kind = "resolve"
  BY DEF ThreadInv, CallDue, BeginResolution
<1>2. /\ \/ /\ ops[c].resolution = "open"
            /\ ops' = [ops EXCEPT ![c] = o] /\ file' = ops'
            /\ todo' = {Deliver(c, TRUE, TRUE)}
         \/ UNCHANGED <<ops, file, todo>>
      /\ doing' = NoEffect /\ UNCHANGED <<threads, hist, faults>>
  BY DEF BeginResolution, SaveOk
<1>3. ops[c] \in CaseType /\ CaseSound(c, ops[c], hist.answered, hist.audited)
  BY <1>0, <1>1 DEF CaseTypes, Books, CasesSound
<1>4. /\ o \in CaseType /\ o.resolution = "pending"
      /\ o.known = ops[c].known /\ o.thread = ops[c].thread /\ o.opened = ops[c].opened
      /\ o.posted = ops[c].posted /\ o.archived = ops[c].archived
  BY <1>3, ResolvingCase
<1> HIDE DEF c, o
<1>5. CaseSound(c, o, hist.answered, hist.audited)
  BY <1>1, <1>3, <1>4 DEF CaseSound
<1>6. ops' \in Books /\ file' \in Books /\ CasesSound'
  <2>1. CASE ops' = [ops EXCEPT ![c] = o] /\ file' = ops'
    BY <1>0, <1>1, <1>2, <1>4, <1>5, <2>1, OneCase
  <2>2. CASE UNCHANGED <<ops, file>>
    BY <1>0, <1>2, <2>2, SameCases
  <2> QED
    BY <1>2, <2>1, <2>2
<1>7. /\ \A d \in CaseIds : d # c => ops'[d] = ops[d]
      /\ ops'[c] = o \/ ops'[c] = ops[c]
  BY <1>0, <1>2 DEF CaseTypes, Books
<1>8. CaseTypes' /\ CallDue'
  BY <1>0, <1>2, <1>6, CallKinds DEF CaseTypes, CallDue
<1>9. EffectsDue'
  <2>1. CASE todo' = todo
    BY <1>1, <2>1 DEF EffectsDue
  <2>2. CASE /\ ops[c].resolution = "open" /\ ops' = [ops EXCEPT ![c] = o]
             /\ todo' = {Deliver(c, TRUE, TRUE)}
    <3>1. ops'[c] = o /\ ~o.posted /\ ~o.archived
      BY <1>0, <1>1, <1>3, <1>4, <2>2 DEF CaseTypes, Books, CaseSound
    <3> DEFINE yes == TRUE
    <3>2. /\ yes \in BOOLEAN /\ todo' = {Deliver(c, yes, yes)}
          /\ yes # ops'[c].posted /\ yes # ops'[c].archived
      BY <1>4, <2>2, <3>1 DEF CaseType
    <3> HIDE DEF yes
    <3>3. ASSUME NEW d \in CaseIds
          PROVE  /\ OpenThread(d) \notin todo' /\ Opening(d) \notin todo'
                 /\ \A p, a \in BOOLEAN : Deliver(d, p, a) \in todo'
                      => d = c /\ p = yes /\ a = yes
      <4>1. OpenThread(d) # Deliver(c, yes, yes) /\ Opening(d) # Deliver(c, yes, yes)
        BY EffectFields
      <4>2. ASSUME NEW p \in BOOLEAN, NEW a \in BOOLEAN, Deliver(d, p, a) = Deliver(c, yes, yes)
            PROVE  d = c /\ p = yes /\ a = yes
        BY <3>2, <4>2, EffectFields
      <4> QED
        BY <3>2, <4>1, <4>2
    <3> QED
      BY <1>4, <3>1, <3>2, <3>3 DEF EffectsDue
  <2> QED
    BY <1>2, <2>1, <2>2
<1>10. ToldOnce'
  <2>1. ASSUME NEW d \in CaseIds
        PROVE  /\ ops'[d].opened = ops[d].opened
               /\ Posted(d)' <=> Posted(d)
    BY <1>1, <1>2, <1>4, <1>7, CallKinds DEF Posted
  <2> QED
    BY <1>0, <1>2, <2>1 DEF ToldOnce
<1> QED
  BY <1>6, <1>8, <1>9, <1>10 DEF ThreadInv

(* The end of a case is told: once, unless the answer is lost.             *)
LEMMA ResolutionSent ==
  ASSUME ThreadInv, SendResolution
  PROVE  ThreadInv'
<1>0. CaseTypes /\ CasesSound /\ EffectsDue /\ CallDue /\ ToldOnce
  BY DEF ThreadInv
<1>1. PICK c \in CaseIds, post \in BOOLEAN, archive \in BOOLEAN :
        /\ Deliver(c, post, archive) \in todo
        /\ todo' = todo \ {Deliver(c, post, archive)}
        /\ \/ /\ doing' = [kind |-> "archive", case |-> c, posted |-> ~post,
                             archive |-> archive]
              /\ UNCHANGED <<hist, faults>>
           \/ /\ post
              /\ hist' = [hist EXCEPT !.notes[c] = @ + 1]
              /\ \E heard \in BOOLEAN :
                   /\ doing' = [kind |-> "archive", case |-> c,
                                posted |-> heard, archive |-> archive]
                   /\ IF heard THEN UNCHANGED faults ELSE Fault
  BY DEF SendResolution, Take
<1>2. doing = NoEffect /\ UNCHANGED <<ops, file, threads>>
  BY DEF SendResolution, Take, caseVars
<1>3. /\ ops[c].resolution = "pending" /\ post # ops[c].posted /\ archive # ops[c].archived
      /\ ops[c].posted \in BOOLEAN /\ ops[c].archived \in BOOLEAN
      /\ CaseSound(c, ops[c], hist.answered, hist.audited)
  BY <1>0, <1>1 DEF EffectsDue, CaseTypes, Books, CaseType, CasesSound
<1>4. PICK said \in BOOLEAN :
        /\ doing'.kind = "archive" /\ doing'.case = c
        /\ doing'.posted = said /\ doing'.archive = archive
        /\ \/ (said <=> ~post) /\ UNCHANGED <<hist, faults>>
           \/ /\ post /\ hist' = [hist EXCEPT !.notes[c] = @ + 1]
              /\ IF said THEN UNCHANGED faults ELSE faults' = faults + 1
  <2>1. CASE /\ doing' = [kind |-> "archive", case |-> c, posted |-> ~post,
                          archive |-> archive]
             /\ UNCHANGED <<hist, faults>>
    <3> DEFINE said == ~post
    <3>1. said \in BOOLEAN /\ (said <=> ~post)
      OBVIOUS
    <3>2. doing' = [kind |-> "archive", case |-> c, posted |-> said, archive |-> archive]
      BY <2>1
    <3> HIDE DEF said
    <3> QED
      BY <2>1, <3>1, <3>2
  <2>2. CASE /\ post
             /\ hist' = [hist EXCEPT !.notes[c] = @ + 1]
             /\ \E heard \in BOOLEAN :
                  /\ doing' = [kind |-> "archive", case |-> c,
                               posted |-> heard, archive |-> archive]
                  /\ IF heard THEN UNCHANGED faults ELSE Fault
    BY <2>2 DEF Fault
  <2> QED
    BY <1>1, <2>1, <2>2
<1> DEFINE more == [hist.notes EXCEPT ![c] = @ + 1]
<1>5. hist \in Histories /\ hist.notes \in [CaseIds -> Nat] /\ faults \in Nat
  BY <1>0 DEF CaseTypes, Histories
<1>6. more \in [CaseIds -> Nat]
  BY <1>5
<1>7. /\ more[c] = hist.notes[c] + 1
      /\ \A d \in CaseIds : d # c => more[d] = hist.notes[d]
  BY <1>5
<1>8. \/ hist' = hist
      \/ hist' = [hist EXCEPT !.notes = more]
  BY <1>4
<1> HIDE DEF more
<1>9. /\ hist' \in Histories /\ hist'.openings = hist.openings
      /\ hist'.answered = hist.answered /\ hist'.audited = hist.audited
  BY <1>5, <1>6, <1>8 DEF Histories
<1>10. ops' \in Books /\ file' \in Books /\ CasesSound' /\ CaseTypes'
  BY <1>0, <1>2, <1>4, <1>5, <1>9, SameCases DEF CaseTypes
<1>11. EffectsDue'
  <2>1. todo' \subseteq todo
    BY <1>1
  <2> QED
    BY <1>0, <1>2, <2>1 DEF EffectsDue
<1>12. CallDue'
  <2>1. NoDelivery(c)'
    <3> SUFFICES ASSUME NEW p \in BOOLEAN, NEW a \in BOOLEAN, Deliver(c, p, a) \in todo'
                 PROVE  FALSE
      BY DEF NoDelivery
    <3>1. Deliver(c, p, a) \in todo /\ Deliver(c, p, a) # Deliver(c, post, archive)
      BY <1>1
    <3>2. p # ops[c].posted /\ a # ops[c].archived
      BY <1>0, <3>1 DEF EffectsDue
    <3>3. p = post /\ a = archive
      BY <1>3, <3>2
    <3> QED
      BY <3>1, <3>3
  <2> QED
    BY <1>2, <1>3, <1>4, <2>1 DEF CallDue, NoDelivery
<1>13. ToldOnce'
  <2>1. ASSUME NEW d \in CaseIds
        PROVE  hist.openings[d] \in Nat /\ hist.notes[d] \in Nat
    BY <1>5 DEF Histories
  <2>2. faults' \in {faults, faults + 1}
    BY <1>4
  <2>3. ASSUME NEW d \in CaseIds, d # c
        PROVE  /\ hist'.notes[d] = hist.notes[d]
               /\ Posted(d)' <=> Posted(d)
    BY <1>2, <1>4, <1>5, <1>7, <1>8, <2>3, CallKinds DEF Posted, Histories
  <2>4. Posted(c) <=> ops[c].posted
    BY <1>2, CallKinds DEF Posted
  <2>5. Posted(c)' <=> ops[c].posted \/ said
    BY <1>2, <1>4 DEF Posted
  <2>6. CASE (said <=> ~post) /\ UNCHANGED <<hist, faults>>
    <3>1. Posted(c)' <=> Posted(c)
      BY <1>3, <2>4, <2>5, <2>6
    <3> QED
      BY <1>0, <1>2, <2>3, <2>6, <3>1 DEF ToldOnce
  <2>7. CASE /\ post /\ hist' = [hist EXCEPT !.notes = more]
             /\ IF said THEN UNCHANGED faults ELSE faults' = faults + 1
    <3>1. hist'.notes = more
      BY <1>5, <2>7 DEF Histories
    <3>2. /\ hist'.notes[c] = hist.notes[c] + 1
          /\ hist.notes[c] <= faults
      BY <1>0, <1>3, <1>7, <2>4, <2>7, <3>1 DEF ToldOnce
    <3>3. c \in hist.answered
      BY <1>3 DEF CaseSound
    <3>4. /\ hist'.notes[c] <= faults' + 1
          /\ ~Posted(c)' => hist'.notes[c] <= faults'
          /\ c \in hist'.answered
      BY <1>5, <1>9, <2>1, <2>5, <2>7, <3>2, <3>3
    <3>5. ASSUME NEW d \in CaseIds
          PROVE  /\ hist'.notes[d] <= faults' + 1
                 /\ ~Posted(d)' => hist'.notes[d] <= faults'
                 /\ hist'.notes[d] > 0 => d \in hist'.answered
      BY <1>0, <1>5, <1>9, <2>1, <2>2, <2>3, <3>4 DEF ToldOnce
    <3>6. ASSUME NEW d \in CaseIds
          PROVE  /\ Len(threads'[d]) <= 1
                 /\ hist'.openings[d] <= faults' + 1
                 /\ ~ops'[d].opened => hist'.openings[d] <= faults'
      BY <1>0, <1>2, <1>5, <1>9, <2>1, <2>2 DEF ToldOnce
    <3> QED
      BY <3>5, <3>6 DEF ToldOnce
  <2> QED
    BY <1>4, <2>6, <2>7 DEF more
<1> QED
  BY <1>10, <1>11, <1>12, <1>13 DEF ThreadInv

(* The thread is archived, or not, and the delivery recorded.              *)
LEMMA DeliveryArchived ==
  ASSUME ThreadInv, Archive
  PROVE  ThreadInv'
<1> DEFINE c == doing.case
<1>0. CaseTypes /\ CasesSound /\ EffectsDue /\ ToldOnce
  BY DEF ThreadInv
<1>1. /\ c = doing.case /\ c \in CaseIds /\ ops[c].resolution = "pending" /\ NoDelivery(c)
      /\ doing.kind = "archive" /\ doing.posted \in BOOLEAN /\ doing.archive \in BOOLEAN
  BY DEF ThreadInv, CallDue, Archive
<1>2. PICK done \in BOOLEAN :
        LET after == [ops EXCEPT ![c] =
                        IF ops[c].resolution = "pending"
                        THEN Recorded(c, doing.posted, ~doing.archive \/ done)
                        ELSE @]
        IN /\ threads' = ThreadsAfter(c, done)
           /\ Save(after)
           /\ doing' = IF Exhausted(after[c]) /\ file' = after
                       THEN [kind |-> "exhausted", case |-> c] ELSE NoEffect
  BY DEF Archive
<1> DEFINE put == ~doing.archive \/ done
           o == Recorded(c, doing.posted, put)
<1>3. put \in BOOLEAN
  OBVIOUS
<1>4. /\ ops' = [ops EXCEPT ![c] = o] /\ (file' = file \/ file' = ops')
      /\ faults' \in {faults, faults + 1}
      /\ threads' = ThreadsAfter(c, done)
      /\ doing' = NoEffect \/ (doing' = [kind |-> "exhausted", case |-> c] /\ Exhausted(ops'[c]))
  BY <1>1, <1>2 DEF Save, SaveOk, SaveFails, Fault
<1>5. UNCHANGED <<todo, hist>>
  BY DEF Archive
<1>6. ops[c] \in CaseType /\ CaseSound(c, ops[c], hist.answered, hist.audited)
  BY <1>0, <1>1 DEF CaseTypes, Books, CasesSound
<1> HIDE DEF put
<1>7. /\ o \in CaseType
      /\ o.known = ops[c].known /\ o.thread = ops[c].thread /\ o.opened = ops[c].opened
      /\ o.posted <=> ops[c].posted \/ doing.posted
      /\ o.resolution \in {"pending", "resolved"}
      /\ o.resolution = "resolved" => o.posted /\ o.archived
  BY <1>0, <1>1, <1>3, CasesAssumption, RecordedCase DEF CaseTypes
<1> HIDE DEF c, o
<1>8. CaseSound(c, o, hist.answered, hist.audited)
  BY <1>1, <1>6, <1>7 DEF CaseSound, NoCase
<1>9. ops' \in Books /\ file' \in Books /\ CasesSound'
  BY <1>0, <1>1, <1>4, <1>5, <1>7, <1>8, OneCase
<1>10. ops'[c] = o /\ \A d \in CaseIds : d # c => ops'[d] = ops[d]
  BY <1>0, <1>1, <1>4 DEF CaseTypes, Books
<1>11. \A d \in CaseIds : /\ threads'[d] \in Seq({"active", "archived"})
                          /\ Len(threads'[d]) = Len(threads[d])
  <2> TAKE d \in CaseIds
  <2>1. threads[d] \in Seq({"active", "archived"}) /\ threads \in [CaseIds -> Seq({"active", "archived"})]
    BY <1>0 DEF CaseTypes
  <2>2. threads'[d] = threads[d] \/ threads'[d] = [k \in 1..Len(threads[d]) |-> "archived"]
    <3>1. \/ threads' = threads
          \/ threads' = [threads EXCEPT ![c] = [k \in DOMAIN threads[c] |-> "archived"]]
      BY <1>4 DEF ThreadsAfter
    <3>2. threads'[d] = threads[d] \/ threads'[d] = [k \in DOMAIN threads[d] |-> "archived"]
      BY <2>1, <3>1
    <3> QED
      BY <2>1, <3>2
  <2>3. /\ [k \in 1..Len(threads[d]) |-> "archived"] \in Seq({"active", "archived"})
        /\ Len([k \in 1..Len(threads[d]) |-> "archived"]) = Len(threads[d])
    BY <2>1
  <2> QED
    BY <2>1, <2>2, <2>3
<1>12. CaseTypes'
  <2>1. threads' = [d \in CaseIds |-> threads'[d]]
    BY <1>0, <1>4 DEF CaseTypes, ThreadsAfter
  <2>2. threads' \in [CaseIds -> Seq({"active", "archived"})]
    BY <1>11, <2>1
  <2> QED
    BY <1>0, <1>4, <1>5, <1>9, <2>2 DEF CaseTypes
<1>13. EffectsDue'
  <2>1. ASSUME NEW d \in CaseIds
        PROVE  ops'[d].known = ops[d].known /\ ops'[d].thread = ops[d].thread
               /\ ops'[d].opened = ops[d].opened
    BY <1>7, <1>10
  <2> QED
    BY <1>0, <1>1, <1>5, <1>10, <2>1 DEF EffectsDue, NoDelivery
<1>14. CallDue'
  BY <1>1, <1>4, <1>5, CallKinds DEF CallDue, Exhausted, NoDelivery
<1>15. ToldOnce'
  <2>1. ASSUME NEW d \in CaseIds
        PROVE  /\ ops'[d].opened = ops[d].opened
               /\ Posted(d)' <=> Posted(d)
    BY <1>1, <1>4, <1>7, <1>10, CallKinds DEF Posted
  <2>2. ASSUME NEW d \in CaseIds
        PROVE  hist.openings[d] \in Nat /\ hist.notes[d] \in Nat /\ faults \in Nat
    BY <1>0 DEF CaseTypes, Histories
  <2> QED
    BY <1>0, <1>4, <1>5, <1>11, <2>1, <2>2 DEF ToldOnce
<1> QED
  BY <1>9, <1>12, <1>13, <1>14, <1>15 DEF ThreadInv

(* The last attempt has failed: the log says so before the case ends.      *)
LEMMA CaseExhausted ==
  ASSUME ThreadInv, Exhaust
  PROVE  ThreadInv'
<1> DEFINE c == doing.case
           o == [ops[c] EXCEPT !.resolution = "resolved"]
           logged == hist.audited \cup {c}
<1>0. CaseTypes /\ CasesSound /\ EffectsDue /\ ToldOnce
  BY DEF ThreadInv
<1>1. /\ c \in CaseIds /\ ops[c].resolution = "pending" /\ NoDelivery(c)
      /\ doing.kind = "exhausted"
  BY DEF ThreadInv, CallDue, Exhaust
<1>2. /\ hist' = [hist EXCEPT !.audited = logged]
      /\ ops' = [ops EXCEPT ![c] = o] /\ (file' = file \/ file' = ops')
      /\ faults' \in {faults, faults + 1}
      /\ doing' = NoEffect /\ UNCHANGED <<threads, todo>>
  BY DEF Exhaust, Save, SaveOk, SaveFails, Fault
<1>3. ops[c] \in CaseType /\ CaseSound(c, ops[c], hist.answered, hist.audited)
  BY <1>0, <1>1 DEF CaseTypes, Books, CasesSound
<1>4. /\ o \in CaseType /\ o.resolution = "resolved"
      /\ o.known = ops[c].known /\ o.thread = ops[c].thread /\ o.opened = ops[c].opened
      /\ o.posted = ops[c].posted /\ o.archived = ops[c].archived
  BY <1>3, ResolvingCase
<1>5. logged \in SUBSET CaseIds /\ c \in logged /\ hist.audited \subseteq logged
  BY <1>0, <1>1 DEF CaseTypes, Histories
<1> HIDE DEF c, o, logged
<1>6. /\ hist' \in Histories /\ hist'.audited = logged /\ hist'.answered = hist.answered
      /\ hist'.openings = hist.openings /\ hist'.notes = hist.notes
  BY <1>0, <1>2, <1>5 DEF CaseTypes, Histories
<1>7. CaseSound(c, o, hist'.answered, hist'.audited)
  BY <1>1, <1>3, <1>4, <1>5, <1>6 DEF CaseSound, NoCase
<1>8. ops' \in Books /\ file' \in Books /\ CasesSound'
  BY <1>0, <1>1, <1>2, <1>4, <1>5, <1>6, <1>7, OneCase
<1>9. ops'[c] = o /\ \A d \in CaseIds : d # c => ops'[d] = ops[d]
  BY <1>0, <1>1, <1>2 DEF CaseTypes, Books
<1>10. CaseTypes' /\ CallDue'
  BY <1>0, <1>2, <1>6, <1>8, CallKinds DEF CaseTypes, CallDue
<1>11. EffectsDue'
  BY <1>0, <1>1, <1>2, <1>4, <1>9 DEF EffectsDue, NoDelivery
<1>12. ToldOnce'
  <2>1. ASSUME NEW d \in CaseIds
        PROVE  /\ ops'[d].opened = ops[d].opened
               /\ Posted(d)' <=> Posted(d)
    BY <1>1, <1>2, <1>4, <1>9, CallKinds DEF Posted
  <2>2. ASSUME NEW d \in CaseIds
        PROVE  hist.openings[d] \in Nat /\ hist.notes[d] \in Nat /\ faults \in Nat
    BY <1>0 DEF CaseTypes, Histories
  <2> QED
    BY <1>0, <1>2, <1>6, <2>1, <2>2 DEF ToldOnce
<1> QED
  BY <1>8, <1>10, <1>11, <1>12 DEF ThreadInv

LEMMA ExhaustLeft ==
  ASSUME ThreadInv, ExhaustUnaudited
  PROVE  ThreadInv'
<1>0. CaseTypes /\ CasesSound /\ EffectsDue /\ ToldOnce
  BY DEF ThreadInv
<1>1. /\ doing.kind = "exhausted" /\ doing' = NoEffect /\ faults' = faults + 1
      /\ UNCHANGED <<ops, file, threads, todo, hist>>
  BY DEF ExhaustUnaudited, Fault, caseVars
<1>2. CaseTypes' /\ CasesSound' /\ EffectsDue' /\ CallDue'
  BY <1>0, <1>1, CallKinds DEF CaseTypes, CasesSound, EffectsDue, CallDue
<1>3. ToldOnce'
  <2>1. ASSUME NEW d \in CaseIds
        PROVE  hist.openings[d] \in Nat /\ hist.notes[d] \in Nat /\ faults \in Nat
    BY <1>0 DEF CaseTypes, Histories
  <2>2. ASSUME NEW d \in CaseIds
        PROVE  Posted(d)' <=> Posted(d)
    BY <1>1, CallKinds DEF Posted
  <2> QED
    BY <1>0, <1>1, <2>1, <2>2 DEF ToldOnce
<1> QED
  BY <1>2, <1>3 DEF ThreadInv

(* A thread nobody writes in.                                              *)
LEMMA ThreadQuiet ==
  ASSUME ThreadInv, GoesQuiet
  PROVE  ThreadInv'
<1>0. CaseTypes /\ CasesSound /\ EffectsDue /\ CallDue /\ ToldOnce
  BY DEF ThreadInv
<1>1. UNCHANGED <<ops, file, todo, doing, faults, hist>>
  BY DEF GoesQuiet, boundVars
<1>2. PICK c \in CaseIds : \E k \in DOMAIN threads[c] :
        threads' = [threads EXCEPT ![c] = [@ EXCEPT ![k] = "archived"]]
  BY DEF GoesQuiet
<1>2a. PICK k \in DOMAIN threads[c] :
         threads' = [threads EXCEPT ![c] = [@ EXCEPT ![k] = "archived"]]
  BY <1>2
<1>3. \A d \in CaseIds : /\ threads'[d] \in Seq({"active", "archived"})
                         /\ Len(threads'[d]) = Len(threads[d])
                         /\ (threads[d] = <<>> => threads'[d] = <<>>)
  <2> TAKE d \in CaseIds
  <2>1. threads[d] \in Seq({"active", "archived"}) /\ threads \in [CaseIds -> Seq({"active", "archived"})]
    BY <1>0 DEF CaseTypes
  <2>2. CASE d = c
    <3>1. threads'[d] = [threads[d] EXCEPT ![k] = "archived"] /\ k \in DOMAIN threads[d]
      BY <1>2a, <2>1, <2>2
    <3>2. /\ [threads[d] EXCEPT ![k] = "archived"] \in Seq({"active", "archived"})
          /\ Len([threads[d] EXCEPT ![k] = "archived"]) = Len(threads[d])
      BY <2>1, <3>1
    <3>3. threads[d] # <<>>
      BY <3>1
    <3> QED
      BY <3>1, <3>2, <3>3
  <2>3. CASE d # c
    BY <1>2a, <2>1, <2>3
  <2> QED
    BY <2>2, <2>3
<1>4. CaseTypes'
  <2>1. threads' = [d \in CaseIds |-> threads'[d]]
    BY <1>0, <1>2a DEF CaseTypes
  <2>2. threads' \in [CaseIds -> Seq({"active", "archived"})]
    BY <1>3, <2>1
  <2> QED
    BY <1>0, <1>1, <2>2 DEF CaseTypes
<1>5. CasesSound' /\ EffectsDue'
  BY <1>0, <1>1 DEF CasesSound, EffectsDue
<1>6. CallDue'
  BY <1>0, <1>1, <1>3 DEF CallDue, NoDelivery
<1>7. ToldOnce'
  <2>1. ASSUME NEW d \in CaseIds
        PROVE  Posted(d)' <=> Posted(d)
    BY <1>1 DEF Posted
  <2> QED
    BY <1>0, <1>1, <1>3, <2>1 DEF ToldOnce
<1> QED
  BY <1>4, <1>5, <1>6, <1>7 DEF ThreadInv

(* The message that confirms an answer begins its resolution.              *)
LEMMA AnswerConfirmed ==
  ASSUME ThreadInv, NEW c \in CaseIds, todo = {}, ops[c].thread,
         doing = NoEffect, doing' = Resolve(c), c \in hist'.answered,
         UNCHANGED <<ops, file, threads, todo, faults>>, hist' \in Histories, Untold
  PROVE  ThreadInv'
<1>0. CaseTypes /\ CasesSound /\ EffectsDue /\ CallDue /\ ToldOnce
  BY DEF ThreadInv
<1>1. ops[c].known
  BY <1>0 DEF CasesSound, CaseSound, NoCase
<1>2. CasesSound' /\ CaseTypes'
  BY <1>0, SameCases DEF CaseTypes, Untold
<1>3. EffectsDue' /\ CallDue'
  BY <1>0, <1>1, CallKinds DEF EffectsDue, CallDue
<1>4. ToldOnce'
  <2>1. ASSUME NEW d \in CaseIds
        PROVE  Posted(d)' <=> Posted(d)
    BY CallKinds DEF Posted
  <2> QED
    BY <1>0, <2>1 DEF ToldOnce, Untold
<1> QED
  BY <1>2, <1>3, <1>4 DEF ThreadInv

-----------------------------------------------------------------------------
(* Codes: types                                                            *)

Asked == [channel : Channels, user : Users, cmd : Commands, at : Nat]

GateTypes ==
    /\ asked \in Seq(Asked)
    /\ pending \subseteq DOMAIN asked
    /\ now \in Nat /\ life \in Nat

LEMMA Answers ==
  ASSUME NEW ch \in Channels, Answer(ch) \in Commands
  PROVE  ch \in CaseIds /\ Answer(ch).kind = "answer" /\ Answer(ch).to = ch
  BY DEF Answer, Commands, Report

LEMMA OpenCodes ==
  ASSUME GateTypes
  PROVE  Open \subseteq pending /\ \A k \in Open : k \in Nat \ {0} /\ asked[k] \in Asked
  BY DEF GateTypes, Open

-----------------------------------------------------------------------------
(* Threads: messages and generated actions                                 *)

(* What a command may add to the history of the threads: an answer given.  *)
LEMMA CommandTells ==
  ASSUME CaseTypes, GateTypes, NEW k \in Nat, NEW u \in Users, NEW cmd \in Commands,
         NEW reached \in BOOLEAN,
         \/ UNCHANGED hist
         \/ Refuse(k)
         \/ Run(k, u, cmd, reached)
  PROVE  hist' \in Histories /\ Untold
<1>1. CASE UNCHANGED hist
  BY <1>1 DEF CaseTypes, Untold
<1>2. CASE Refuse(k)
  BY <1>2 DEF CaseTypes, Untold, Refuse
<1>3. CASE Run(k, u, cmd, reached)
  BY <1>3, RunTyped DEF CaseTypes, GateTypes, Untold
<1> QED
  BY <1>1, <1>2, <1>3

LEMMA CommandTold ==
  ASSUME ThreadInv, GateTypes, Commanded
  PROVE  ThreadInv'
<1>1. PICK u \in Users, cmd \in Commands : UNCHANGED hist \/ Refuse(0) \/ Run(0, u, cmd, TRUE)
  BY DEF Commanded, Queue
<1>2. hist' \in Histories /\ Untold
  BY <1>1, CommandTells DEF ThreadInv
<1>3. UNCHANGED <<ops, file, threads, doing, todo, faults>>
  BY DEF Commanded, caseVars
<1> QED
  BY <1>2, <1>3, NothingTold DEF ThreadInv, CaseTypes

LEMMA SubmissionTold ==
  ASSUME ThreadInv, GateTypes, SubmitAction
  PROVE  ThreadInv'
<1>1. PICK u \in Users, cmd \in Commands : UNCHANGED hist \/ Refuse(0) \/ Run(0, u, cmd, TRUE)
  BY DEF SubmitAction
<1>2. hist' \in Histories /\ Untold
  BY <1>1, CommandTells DEF ThreadInv
<1>3. UNCHANGED <<ops, file, threads, doing, faults>> /\ todo' \subseteq todo
  BY DEF SubmitAction, caseVars, boundVars, Drop
<1> QED
  BY <1>2, <1>3, NothingTold DEF ThreadInv, CaseTypes

LEMMA ConfirmationTold ==
  ASSUME ThreadInv, GateTypes, Confirmed
  PROVE  ThreadInv'
<1>1. PICK u \in Users, ch \in Channels : \E k \in Open :
        /\ Receive(u) /\ Heard(ch)
        /\ \/ UNCHANGED <<doing, hist>>
           \/ Refuse(k) /\ UNCHANGED doing
           \/ \E succeeded, reached \in BOOLEAN :
                /\ succeeded => reached
                /\ Run(k, u, asked[k].cmd, reached)
                /\ doing' = IF Settles(ch, asked[k].cmd, succeeded)
                            THEN Resolve(ch) ELSE NoEffect
  BY DEF Confirmed
<1>2. PICK k \in Open :
        /\ Receive(u) /\ Heard(ch)
        /\ \/ UNCHANGED <<doing, hist>>
           \/ Refuse(k) /\ UNCHANGED doing
           \/ \E succeeded, reached \in BOOLEAN :
                /\ succeeded => reached
                /\ Run(k, u, asked[k].cmd, reached)
                /\ doing' = IF Settles(ch, asked[k].cmd, succeeded)
                            THEN Resolve(ch) ELSE NoEffect
  BY <1>1
<1>3. UNCHANGED <<ops, file, threads, todo, faults>>
  BY DEF Confirmed, caseVars
<1>4. CaseTypes /\ todo = {} /\ doing = NoEffect
  BY <1>2 DEF ThreadInv, Receive, Idle
<1>5. k \in Nat /\ asked[k].cmd \in Commands
  BY OpenCodes DEF Asked
<1>6. CASE UNCHANGED <<doing, hist>>
  <2>1. hist' \in Histories /\ Untold
    BY <1>4, <1>6 DEF CaseTypes, Untold
  <2> QED
    BY <1>3, <1>6, <2>1, NothingTold DEF ThreadInv, CaseTypes
<1>7. CASE Refuse(k) /\ UNCHANGED doing
  <2>1. hist' \in Histories /\ Untold
    BY <1>4, <1>7 DEF CaseTypes, Untold, Refuse
  <2> QED
    BY <1>3, <1>7, <2>1, NothingTold DEF ThreadInv, CaseTypes
<1>8. ASSUME NEW succeeded \in BOOLEAN, NEW reached \in BOOLEAN, succeeded => reached,
             Run(k, u, asked[k].cmd, reached),
             doing' = IF Settles(ch, asked[k].cmd, succeeded)
                      THEN Resolve(ch) ELSE NoEffect
      PROVE  ThreadInv'
  <2>1. hist' \in Histories /\ Untold
    BY <1>4, <1>5, <1>8, CommandTells
  <2>2. CASE ~Settles(ch, asked[k].cmd, succeeded)
    BY <1>3, <1>4, <1>8, <2>1, <2>2, NothingTold DEF CaseTypes
  <2>3. CASE Settles(ch, asked[k].cmd, succeeded)
    <3>1. succeeded /\ reached /\ asked[k].cmd = Answer(ch) /\ doing' = Resolve(ch)
      BY <1>8, <2>3 DEF Settles
    <3>2. ch \in CaseIds /\ asked[k].cmd.kind = "answer" /\ asked[k].cmd.to = ch
      BY <1>5, <3>1, Answers
    <3>3. ch \in hist'.answered
      BY <1>4, <1>5, <1>8, <3>1, <3>2, RunTyped DEF CaseTypes, GateTypes
    <3>4. ops[ch].thread
      BY <1>2, <3>2, CasesAssumption DEF Heard, IsThread
    <3> QED
      BY <1>3, <1>4, <2>1, <3>1, <3>2, <3>3, <3>4, AnswerConfirmed
  <2> QED
    BY <2>2, <2>3
<1> QED
  BY <1>2, <1>6, <1>7, <1>8

-----------------------------------------------------------------------------
(* Threads: every step                                                     *)

LEMMA RestartTold ==
  ASSUME ThreadInv, Reconnect \/ Crash
  PROVE  ThreadInv'
BY Reloaded DEF Reconnect, RunAgain, Crash, Fault

LEMMA OthersTell ==
  ASSUME ThreadInv,
         \/ Escalates \/ Configures \/ Clock \/ Launch \/ Concludes \/ OrphanEnds \/ Chatted
  PROVE  ThreadInv'
<1>1. UNCHANGED <<ops, file, threads, doing, todo, faults, hist>>
  BY DEF Escalates, Configures, Clock, Launch, Concludes, OrphanEnds, Chatted,
         caseVars, boundVars
<1> QED
  BY <1>1, NothingTold DEF ThreadInv, CaseTypes, Untold

LEMMA ThreadStep ==
  ASSUME ThreadInv, GateTypes, [Next]_vars
  PROVE  ThreadInv'
<1>1. CASE Effect
  BY <1>1, ThreadMade, ThreadMapped, OpeningSent, SubmissionTold, ResolutionBegun,
     ResolutionSent, DeliveryArchived, CaseExhausted DEF Effect
<1>2. CASE Message
  BY <1>2, CommandTold, ConfirmationTold, OthersTell DEF Message
<1>3. CASE \/ Escalates \/ Configures \/ Clock \/ Launch \/ Concludes \/ OrphanEnds
  BY <1>3, OthersTell
<1>4. CASE GoesQuiet \/ Tick \/ ExhaustUnaudited
  BY <1>4, ThreadQuiet, TickDue, ExhaustLeft
<1>5. CASE TickFails \/ ResolutionUnsaved \/ Reconnect \/ Crash
  BY <1>5, RestartTold DEF TickFails, ResolutionUnsaved
<1>6. CASE UNCHANGED vars
  BY <1>6, NothingTold DEF vars, caseVars, boundVars, ThreadInv, CaseTypes, Untold
<1> QED
  BY <1>1, <1>2, <1>3, <1>4, <1>5, <1>6 DEF Next

LEMMA ThreadsBegin ==
  ASSUME Init
  PROVE  ThreadInv
<1>1. CaseTypes
  <2>1. NoCase \in CaseType
    BY NoCaseTyped
  <2>2. ops \in Books /\ file \in Books /\ faults \in Nat
    BY <2>1 DEF Init, Books
  <2>3. threads \in [CaseIds -> Seq({"active", "archived"})]
    BY DEF Init
  <2>4. hist \in Histories
    BY DEF Init, Histories
  <2> QED
    BY <2>2, <2>3, <2>4 DEF CaseTypes
<1>2. CasesSound
  BY DEF Init, CasesSound, CaseSound, NoCase
<1>3. EffectsDue /\ CallDue
  BY CallKinds DEF Init, EffectsDue, CallDue
<1>4. ToldOnce
  BY DEF Init, ToldOnce
<1> QED
  BY <1>1, <1>2, <1>3, <1>4 DEF ThreadInv

LEMMA ThreadsAreSafe ==
  ASSUME ThreadInv
  PROVE  ThreadsSafe
<1>1. OneThread
  BY DEF ThreadInv, ToldOnce, OneThread, CaseTypes, Histories
<1>2. ResolvedByAnswer
  BY DEF ThreadInv, CasesSound, CaseSound, ToldOnce, ResolvedByAnswer
<1> QED
  BY <1>1, <1>2 DEF ThreadsSafe

-----------------------------------------------------------------------------
(* Commands: what a run stands for                                         *)

(* What ran had a code that is spent, which stands for what ran.           *)
RunsConfirmed ==
    \A i \in DOMAIN hist.ran :
        LET run == hist.ran[i]
        IN /\ run.at <= now /\ run.life <= life
           /\ run.code # 0 => run.code \in DOMAIN asked /\ run.code \notin pending
           /\ Impactful(run.cmd) =>
                /\ run.code # 0
                /\ asked[run.code].user = run.user /\ asked[run.code].cmd = run.cmd
                /\ run.at <= asked[run.code].at + TTL

CodesOnce ==
    \A i, j \in DOMAIN hist.ran :
        hist.ran[i].code = hist.ran[j].code /\ hist.ran[i].code # 0 => i = j

(* Of the last hour nothing is forgotten.                                  *)
HourKept ==
    /\ IsFiniteSet(actions)
    /\ \A i \in DOMAIN hist.ran :
         hist.ran[i].life = life /\ hist.ran[i].at + Hour > now
           => [at |-> hist.ran[i].at, nth |-> i] \in actions

InHour(ran, l, t) ==
    {i \in DOMAIN ran : ran[i].life = l /\ ran[i].at <= t /\ ran[i].at + Hour > t}

GateInv == GateTypes /\ RunsConfirmed /\ CodesOnce /\ HourKept /\ HourlyLimit

LEMMA FiniteHour ==
  ASSUME hist \in Histories
  PROVE  \A l, t : /\ IsFiniteSet(InHour(hist.ran, l, t))
                  /\ Cardinality(InHour(hist.ran, l, t)) \in Nat
<1> TAKE l, t
<1>1. DOMAIN hist.ran = 1..Len(hist.ran) /\ Len(hist.ran) \in Nat
  BY DEF Histories
<1>2. IsFiniteSet(DOMAIN hist.ran)
  BY <1>1, FS_Interval
<1>3. InHour(hist.ran, l, t) \subseteq DOMAIN hist.ran
  BY DEF InHour
<1> QED
  BY <1>2, <1>3, FS_Subset, FS_CardinalityType

(* What ran in this hour is remembered by its place.                       *)
LEMMA HourRemembered ==
  ASSUME GateInv, hist \in Histories
  PROVE  /\ IsFiniteSet(Recent) /\ Cardinality(Recent) \in Nat
         /\ Cardinality(InHour(hist.ran, life, now)) <= Cardinality(Recent)
<1> DEFINE S == InHour(hist.ran, life, now)
           f == [i \in S |-> [at |-> hist.ran[i].at, nth |-> i]]
<1>1. IsFiniteSet(Recent) /\ Cardinality(Recent) \in Nat
  <2>1. Recent \subseteq actions
    BY DEF Recent
  <2> QED
    BY <2>1, FS_Subset, FS_CardinalityType DEF GateInv, HourKept
<1>2. ASSUME NEW i \in S
      PROVE  f[i] \in Recent
  BY <1>2 DEF GateInv, HourKept, InHour, Recent
<1>3. ASSUME NEW i \in S, NEW j \in S, f[i] = f[j]
      PROVE  i = j
  <2>1. f[i].nth = i /\ f[j].nth = j
    OBVIOUS
  <2> QED
    BY <1>3, <2>1
<1>4. f \in Injection(S, Recent)
  <2>1. f \in [S -> Recent]
    BY <1>2
  <2> HIDE DEF f, S
  <2> QED
    BY <1>3, <2>1, Fun_IsInj
<1> HIDE DEF f
<1> QED
  BY <1>1, <1>4, FS_Injection

-----------------------------------------------------------------------------
(* Commands: the steps                                                     *)

(* Nothing runs and no code opens.                                         *)
LEMMA NothingRuns ==
  ASSUME GateInv, hist'.ran = hist.ran, UNCHANGED <<asked, now, life>>,
         pending' \subseteq pending, actions' \in {actions, Recent}
  PROVE  GateInv'
<1>1. GateTypes' /\ RunsConfirmed' /\ CodesOnce'
  BY DEF GateInv, GateTypes, RunsConfirmed, CodesOnce
<1>2. HourKept'
  <2>1. Recent \subseteq actions
    BY DEF Recent
  <2>2. IsFiniteSet(actions')
    BY <2>1, FS_Subset DEF GateInv, HourKept
  <2>3. ASSUME NEW i \in DOMAIN hist.ran, hist.ran[i].life = life,
               hist.ran[i].at + Hour > now
        PROVE  [at |-> hist.ran[i].at, nth |-> i] \in actions'
    BY <2>3 DEF GateInv, HourKept, Recent
  <2> QED
    BY <2>2, <2>3 DEF HourKept
<1>3. HourlyLimit'
  BY DEF GateInv, HourlyLimit
<1> QED
  BY <1>1, <1>2, <1>3 DEF GateInv

(* A command waits for its confirmation.                                   *)
LEMMA CommandQueued ==
  ASSUME GateInv, hist \in Histories, NEW r \in Asked, asked' = Append(asked, r),
         pending' \subseteq pending \cup {Len(asked) + 1},
         UNCHANGED <<actions, hist, now, life>>
  PROVE  GateInv'
<1>1. /\ asked' \in Seq(Asked) /\ Len(asked) \in Nat
      /\ DOMAIN asked = 1..Len(asked) /\ DOMAIN asked' = 1..(Len(asked) + 1)
      /\ \A k \in DOMAIN asked : asked'[k] = asked[k]
  BY DEF GateInv, GateTypes
<1>2. GateTypes'
  BY <1>1 DEF GateInv, GateTypes
<1>3. RunsConfirmed'
  <2> SUFFICES ASSUME NEW i \in DOMAIN hist.ran
               PROVE  LET run == hist.ran[i]
                      IN /\ run.at <= now /\ run.life <= life
                         /\ run.code # 0 => run.code \in DOMAIN asked' /\ run.code \notin pending'
                         /\ Impactful(run.cmd) =>
                              /\ run.code # 0
                              /\ asked'[run.code].user = run.user
                              /\ asked'[run.code].cmd = run.cmd
                              /\ run.at <= asked'[run.code].at + TTL
    BY DEF RunsConfirmed
  <2> QED
    BY <1>1 DEF GateInv, RunsConfirmed
<1>4. CodesOnce' /\ HourKept' /\ HourlyLimit'
  BY DEF GateInv, CodesOnce, HourKept, HourlyLimit
<1> QED
  BY <1>2, <1>3, <1>4 DEF GateInv

(* A command runs: typed, or confirmed with its code.                      *)
LEMMA CommandRan ==
  ASSUME GateInv, hist \in Histories, hist' \in Histories,
         NEW k \in Nat, NEW u \in Users, NEW cmd \in Commands, NEW reached \in BOOLEAN,
         Run(k, u, cmd, reached),
         \/ k = 0 /\ ~Impactful(cmd)
         \/ k \in Open /\ asked[k].user = u /\ asked[k].cmd = cmd,
         pending' \subseteq pending \ {k}, UNCHANGED <<now, life>>
  PROVE  GateInv'
<1> DEFINE run == [code |-> k, user |-> u, cmd |-> cmd, at |-> now, life |-> life]
           n == Len(hist.ran)
<1>1. /\ hist'.ran = Append(hist.ran, run)
      /\ actions' = Recent \cup {[at |-> now, nth |-> n + 1]}
      /\ UNCHANGED asked /\ ~Limited
  BY RunTyped DEF Run, GateInv, GateTypes
<1>2. /\ n \in Nat /\ DOMAIN hist.ran = 1..n /\ DOMAIN hist'.ran = 1..(n + 1)
      /\ \A i \in 1..n : hist'.ran[i] = hist.ran[i] /\ hist.ran[i] \in Runs
      /\ hist'.ran[n + 1] = run
  BY <1>1 DEF Histories
<1>3. /\ run.code = k /\ run.user = u /\ run.cmd = cmd /\ run.at = now /\ run.life = life
      /\ now \in Nat /\ life \in Nat
  BY DEF GateInv, GateTypes
<1>4. k # 0 => k \in pending /\ k \in DOMAIN asked
  BY OpenCodes DEF GateInv, GateTypes
<1>5. Impactful(cmd) => /\ k # 0 /\ asked[k].user = u /\ asked[k].cmd = cmd
                        /\ now <= asked[k].at + TTL
  <2>1. k \in Open => k # 0 /\ now <= asked[k].at + TTL
    <3> SUFFICES ASSUME k \in Open PROVE k # 0 /\ now <= asked[k].at + TTL
      OBVIOUS
    <3>1. k # 0 /\ asked[k].at \in Nat
      BY OpenCodes DEF GateInv, Asked
    <3> QED
      BY <1>3, <3>1, CasesAssumption DEF Open, Expires
  <2> QED
    BY <2>1
<1> HIDE DEF run, n
<1>6. GateTypes'
  BY <1>1 DEF GateInv, GateTypes
<1>7. RunsConfirmed'
  <2> SUFFICES ASSUME NEW i \in 1..(n + 1)
               PROVE  /\ hist'.ran[i].at <= now /\ hist'.ran[i].life <= life
                      /\ hist'.ran[i].code # 0 =>
                           /\ hist'.ran[i].code \in DOMAIN asked
                           /\ hist'.ran[i].code \notin pending'
                      /\ Impactful(hist'.ran[i].cmd) =>
                           /\ hist'.ran[i].code # 0
                           /\ asked[hist'.ran[i].code].user = hist'.ran[i].user
                           /\ asked[hist'.ran[i].code].cmd = hist'.ran[i].cmd
                           /\ hist'.ran[i].at <= asked[hist'.ran[i].code].at + TTL
    BY <1>1, <1>2 DEF RunsConfirmed
  <2>1. CASE i \in 1..n
    BY <1>2, <2>1 DEF GateInv, RunsConfirmed
  <2>2. CASE i = n + 1
    BY <1>2, <1>3, <1>4, <1>5, <2>2
  <2> QED
    BY <1>2, <2>1, <2>2
<1>8. CodesOnce'
  <2>1. \A i \in 1..n : hist.ran[i].code # 0 => hist.ran[i].code # k
    BY <1>2, <1>4 DEF GateInv, RunsConfirmed
  <2>2. ASSUME NEW i \in 1..(n + 1), NEW j \in 1..(n + 1),
               hist'.ran[i].code = hist'.ran[j].code, hist'.ran[i].code # 0
        PROVE  i = j
    <3>1. CASE i \in 1..n /\ j \in 1..n
      BY <1>2, <2>2, <3>1 DEF GateInv, CodesOnce
    <3>2. CASE i = n + 1 \/ j = n + 1
      BY <1>2, <1>3, <2>1, <2>2, <3>2
    <3> QED
      BY <1>2, <3>1, <3>2
  <2> QED
    BY <1>2, <2>2 DEF CodesOnce
<1>9. HourKept'
  <2>1. IsFiniteSet(actions')
    BY <1>1, HourRemembered, FS_AddElement
  <2>2. ASSUME NEW i \in 1..(n + 1), hist'.ran[i].life = life, hist'.ran[i].at + Hour > now
        PROVE  [at |-> hist'.ran[i].at, nth |-> i] \in actions'
    <3>1. CASE i \in 1..n
      <4>1. [at |-> hist.ran[i].at, nth |-> i] \in actions
        BY <1>2, <2>2, <3>1 DEF GateInv, HourKept
      <4>2. [at |-> hist.ran[i].at, nth |-> i] \in Recent
        BY <1>2, <2>2, <3>1, <4>1 DEF Recent
      <4> QED
        BY <1>1, <1>2, <3>1, <4>2
    <3>2. CASE i = n + 1
      BY <1>1, <1>2, <1>3, <3>2
    <3> QED
      BY <1>2, <3>1, <3>2
  <2> QED
    BY <1>2, <2>1, <2>2 DEF HourKept
<1>10. HourlyLimit'
  <2> SUFFICES ASSUME NEW t \in 0..now, NEW l \in 0..life
               PROVE  Cardinality(InHour(hist'.ran, l, t)) <= ActionLimit
    BY DEF HourlyLimit, InHour
  <2>1. Cardinality(InHour(hist.ran, l, t)) <= ActionLimit
    BY DEF GateInv, HourlyLimit, InHour
  <2>2. CASE l # life \/ t # now
    <3>1. \A i \in 1..(n + 1) : i \in InHour(hist'.ran, l, t) <=> i \in InHour(hist.ran, l, t)
      BY <1>2, <1>3, <2>2 DEF InHour
    <3>2. InHour(hist'.ran, l, t) = InHour(hist.ran, l, t)
      BY <1>2, <3>1 DEF InHour
    <3> QED
      BY <2>1, <3>2
  <2>3. CASE l = life /\ t = now
    <3>1. Cardinality(InHour(hist.ran, life, now)) < ActionLimit
      BY <1>1, HourRemembered, FiniteHour, CasesAssumption DEF Limited
    <3>2. InHour(hist'.ran, life, now) \subseteq InHour(hist.ran, life, now) \cup {n + 1}
      BY <1>2 DEF InHour
    <3>3. /\ IsFiniteSet(InHour(hist.ran, life, now) \cup {n + 1})
          /\ Cardinality(InHour(hist.ran, life, now) \cup {n + 1})
               <= Cardinality(InHour(hist.ran, life, now)) + 1
      <4> DEFINE S == InHour(hist.ran, life, now)
      <4>1. IsFiniteSet(S) /\ Cardinality(S) \in Nat
        BY FiniteHour
      <4> HIDE DEF S
      <4>2. /\ IsFiniteSet(S \cup {n + 1})
            /\ Cardinality(S \cup {n + 1}) <= Cardinality(S) + 1
        BY <4>1, FS_AddElement
      <4> QED
        BY <4>2 DEF S
    <3>4. /\ Cardinality(InHour(hist'.ran, life, now)) \in Nat
          /\ Cardinality(InHour(hist'.ran, life, now))
               <= Cardinality(InHour(hist.ran, life, now) \cup {n + 1})
          /\ Cardinality(InHour(hist.ran, life, now) \cup {n + 1}) \in Nat
          /\ Cardinality(InHour(hist.ran, life, now)) \in Nat
      BY <3>2, <3>3, FiniteHour, FS_Subset, FS_CardinalityType
    <3> QED
      BY <2>3, <3>1, <3>3, <3>4, CasesAssumption
  <2> QED
    BY <2>2, <2>3
<1> QED
  BY <1>6, <1>7, <1>8, <1>9, <1>10 DEF GateInv

(* An hour later nothing more has run.                                     *)
LEMMA ClockRuns ==
  ASSUME GateInv, hist \in Histories, Clock
  PROVE  GateInv'
<1>1. now' = now + 1 /\ UNCHANGED <<hist, asked, pending, actions, life>>
  BY DEF Clock, gateVars
<1>2. \A i \in DOMAIN hist.ran : hist.ran[i].at \in Nat /\ hist.ran[i].at <= now
  <2>1. \A i \in DOMAIN hist.ran : hist.ran[i] \in Runs
    BY DEF Histories
  <2>2. \A i \in DOMAIN hist.ran : hist.ran[i].at \in Nat
    BY <2>1 DEF Runs
  <2> QED
    BY <2>2 DEF GateInv, RunsConfirmed
<1>3. now \in Nat /\ life \in Nat /\ Hour \in Nat
  BY CasesAssumption DEF GateInv, GateTypes
<1>4. GateTypes' /\ RunsConfirmed' /\ CodesOnce'
  BY <1>1, <1>2, <1>3 DEF GateInv, GateTypes, RunsConfirmed, CodesOnce
<1>5. HourKept'
  BY <1>1, <1>2, <1>3 DEF GateInv, HourKept
<1>6. HourlyLimit'
  <2> SUFFICES ASSUME NEW t \in 0..(now + 1), NEW l \in 0..life
               PROVE  Cardinality(InHour(hist.ran, l, t)) <= ActionLimit
    BY <1>1 DEF HourlyLimit, InHour
  <2>1. \A s \in 0..now : Cardinality(InHour(hist.ran, l, s)) <= ActionLimit
    BY DEF GateInv, HourlyLimit, InHour
  <2>2. CASE t = now + 1
    <3>1. InHour(hist.ran, l, t) \subseteq InHour(hist.ran, l, now)
      BY <1>2, <1>3, <2>2 DEF InHour
    <3>2. Cardinality(InHour(hist.ran, l, t)) <= Cardinality(InHour(hist.ran, l, now))
      BY <3>1, FiniteHour, FS_Subset
    <3>3. Cardinality(InHour(hist.ran, l, now)) <= ActionLimit
      BY <1>3, <2>1
    <3> QED
      BY <3>2, <3>3, FiniteHour, CasesAssumption
  <2>3. CASE t \in 0..now
    BY <2>1, <2>3
  <2> QED
    BY <1>3, <2>2, <2>3
<1> QED
  BY <1>4, <1>5, <1>6 DEF GateInv

(* A new life has run nothing yet.                                         *)
LEMMA CrashRuns ==
  ASSUME GateInv, hist \in Histories, Crash
  PROVE  GateInv'
<1>1. life' = life + 1 /\ actions' = {} /\ pending' = {} /\ UNCHANGED <<hist, asked, now>>
  BY DEF Crash
<1>2. \A i \in DOMAIN hist.ran : hist.ran[i].life \in Nat /\ hist.ran[i].life <= life
  <2>1. \A i \in DOMAIN hist.ran : hist.ran[i] \in Runs
    BY DEF Histories
  <2>2. \A i \in DOMAIN hist.ran : hist.ran[i].life \in Nat
    BY <2>1 DEF Runs
  <2> QED
    BY <2>2 DEF GateInv, RunsConfirmed
<1>3. now \in Nat /\ life \in Nat /\ ActionLimit \in Nat
  BY CasesAssumption DEF GateInv, GateTypes
<1>4. GateTypes' /\ RunsConfirmed' /\ CodesOnce'
  BY <1>1, <1>2, <1>3 DEF GateInv, GateTypes, RunsConfirmed, CodesOnce
<1>5. HourKept'
  BY <1>1, <1>2, <1>3, FS_EmptySet DEF HourKept
<1>6. HourlyLimit'
  <2> SUFFICES ASSUME NEW t \in 0..now, NEW l \in 0..(life + 1)
               PROVE  Cardinality(InHour(hist.ran, l, t)) <= ActionLimit
    BY <1>1 DEF HourlyLimit, InHour
  <2>1. CASE l = life + 1
    <3>1. InHour(hist.ran, l, t) = {}
      BY <1>2, <1>3, <2>1 DEF InHour
    <3> QED
      BY <1>3, <3>1, FS_EmptySet
  <2>2. CASE l \in 0..life
    BY <2>2 DEF GateInv, HourlyLimit, InHour
  <2> QED
    BY <1>3, <2>1, <2>2
<1> QED
  BY <1>4, <1>5, <1>6 DEF GateInv

-----------------------------------------------------------------------------
(* Commands: messages and generated actions                                *)

LEMMA CommandStep ==
  ASSUME GateInv, hist \in Histories, hist' \in Histories, Commanded
  PROVE  GateInv'
<1>1. PICK u \in Users, ch \in Channels, cmd \in Commands :
        \/ Queue(ch, u, cmd)
        \/ /\ ~Impactful(cmd) /\ pending' = Open
           /\ Refuse(0) \/ Run(0, u, cmd, TRUE)
  BY DEF Commanded
<1>2. UNCHANGED <<now, life>>
  BY DEF Commanded
<1>3. Open \subseteq pending /\ 0 \notin Open
  BY OpenCodes DEF GateInv
<1>4. CASE Queue(ch, u, cmd)
  <2>1. [channel |-> ch, user |-> u, cmd |-> cmd, at |-> now] \in Asked
    BY DEF GateInv, GateTypes, Asked
  <2>2. pending' \subseteq pending \cup {Len(asked) + 1}
    BY <1>3, <1>4 DEF Queue
  <2> QED
    BY <1>2, <1>4, <2>1, <2>2, CommandQueued DEF Queue
<1>5. CASE pending' = Open /\ Refuse(0)
  BY <1>2, <1>3, <1>5, NothingRuns DEF Refuse
<1>6. CASE pending' = Open /\ ~Impactful(cmd) /\ Run(0, u, cmd, TRUE)
  <2>1. pending' \subseteq pending \ {0}
    BY <1>3, <1>6
  <2> QED
    BY <1>2, <1>6, <2>1, CommandRan
<1> QED
  BY <1>1, <1>4, <1>5, <1>6

LEMMA SubmissionStep ==
  ASSUME GateInv, hist \in Histories, hist' \in Histories, SubmitAction
  PROVE  GateInv'
<1>1. PICK ch \in Channels, u \in Users, cmd \in Commands :
        \/ /\ asked' = Append(asked, [channel |-> ch, user |-> u, cmd |-> cmd, at |-> now])
           /\ pending' = pending \cup {Len(asked) + 1}
           /\ UNCHANGED <<actions, hist>>
        \/ /\ ~Impactful(cmd) /\ UNCHANGED pending
           /\ Refuse(0) \/ Run(0, u, cmd, TRUE)
  BY DEF SubmitAction
<1>2. UNCHANGED <<now, life>>
  BY DEF SubmitAction, boundVars
<1>3. 0 \notin pending
  BY DEF GateInv, GateTypes
<1>4. CASE /\ asked' = Append(asked, [channel |-> ch, user |-> u, cmd |-> cmd, at |-> now])
           /\ pending' = pending \cup {Len(asked) + 1}
           /\ UNCHANGED <<actions, hist>>
  <2>1. [channel |-> ch, user |-> u, cmd |-> cmd, at |-> now] \in Asked
    BY DEF GateInv, GateTypes, Asked
  <2> QED
    BY <1>2, <1>4, <2>1, CommandQueued
<1>5. CASE UNCHANGED pending /\ Refuse(0)
  BY <1>2, <1>5, NothingRuns DEF Refuse
<1>6. CASE UNCHANGED pending /\ ~Impactful(cmd) /\ Run(0, u, cmd, TRUE)
  <2>1. pending' \subseteq pending \ {0}
    BY <1>3, <1>6
  <2> QED
    BY <1>2, <1>6, <2>1, CommandRan
<1> QED
  BY <1>1, <1>4, <1>5, <1>6

LEMMA ConfirmationStep ==
  ASSUME GateInv, hist \in Histories, hist' \in Histories, Confirmed
  PROVE  GateInv'
<1>1. PICK u \in Users, ch \in Channels : \E k \in Open :
        /\ pending' = Spent(k)
        /\ \/ UNCHANGED <<asked, actions, hist>>
           \/ Refuse(k)
           \/ Confirms(k, u, ch) /\ \E reached \in BOOLEAN : Run(k, u, asked[k].cmd, reached)
  BY DEF Confirmed
<1>2. PICK k \in Open :
        /\ pending' = Spent(k)
        /\ \/ UNCHANGED <<asked, actions, hist>>
           \/ Refuse(k)
           \/ Confirms(k, u, ch) /\ \E reached \in BOOLEAN : Run(k, u, asked[k].cmd, reached)
  BY <1>1
<1>3. UNCHANGED <<now, life>>
  BY DEF Confirmed
<1>4. pending' \subseteq pending \ {k} /\ k \in Nat /\ asked[k].cmd \in Commands
  BY <1>2, OpenCodes DEF GateInv, Spent, Asked
<1>5. CASE UNCHANGED <<asked, actions, hist>> \/ Refuse(k)
  BY <1>3, <1>4, <1>5, NothingRuns DEF Refuse
<1>6. ASSUME Confirms(k, u, ch), NEW reached \in BOOLEAN, Run(k, u, asked[k].cmd, reached)
      PROVE  GateInv'
  BY <1>3, <1>4, <1>6, CommandRan DEF Confirms
<1> QED
  BY <1>2, <1>5, <1>6

LEMMA OthersRun ==
  ASSUME GateInv,
         \/ Escalates \/ GoesQuiet \/ Configures \/ Launch \/ Concludes \/ OrphanEnds
         \/ Tick \/ Chatted
         \/ LookForThread \/ CreateThread \/ MapThread \/ SendOpening
         \/ BeginResolution \/ SendResolution \/ Archive \/ Exhaust
         \/ ExhaustUnaudited \/ Reconnect \/ UNCHANGED vars,
         hist \in Histories
  PROVE  GateInv'
<1>1. UNCHANGED <<asked, actions, now, life>>
  BY DEF Escalates, GoesQuiet, Configures, Launch, Concludes, OrphanEnds, Tick, Chatted,
         LookForThread, CreateThread, MapThread, SendOpening, BeginResolution,
         SendResolution, Archive, Exhaust, ExhaustUnaudited, Reconnect, RunAgain,
         gateVars, boundVars, vars
<1>2. pending' \subseteq pending
  BY DEF Escalates, GoesQuiet, Configures, Launch, Concludes, OrphanEnds, Tick, Chatted,
         LookForThread, CreateThread, MapThread, SendOpening, BeginResolution,
         SendResolution, Archive, Exhaust, ExhaustUnaudited, Reconnect, RunAgain,
         gateVars, boundVars, vars, Open
<1>3. hist'.ran = hist.ran
  <2>1. CASE SendOpening
    <3>1. PICK c \in CaseIds : hist' \in {hist, [hist EXCEPT !.openings[c] = @ + 1]}
      BY <2>1 DEF SendOpening
    <3> QED
      BY <3>1 DEF Histories
  <2>2. CASE SendResolution
    <3>1. PICK c \in CaseIds : hist' \in {hist, [hist EXCEPT !.notes[c] = @ + 1]}
      BY <2>2 DEF SendResolution
    <3> QED
      BY <3>1 DEF Histories
  <2>3. CASE Exhaust
    BY <2>3 DEF Exhaust, Histories
  <2>4. CASE ~SendOpening /\ ~SendResolution /\ ~Exhaust
    BY <2>4
       DEF Escalates, GoesQuiet, Configures, Launch, Concludes, OrphanEnds, Tick, Chatted,
           LookForThread, CreateThread, MapThread, BeginResolution, Archive,
           ExhaustUnaudited, Reconnect, RunAgain, vars
  <2> QED
    BY <2>1, <2>2, <2>3, <2>4
<1> QED
  BY <1>1, <1>2, <1>3, NothingRuns

LEMMA GateStep ==
  ASSUME GateInv, hist \in Histories, hist' \in Histories, [Next]_vars
  PROVE  GateInv'
<1>1. CASE Effect
  BY <1>1, OthersRun, SubmissionStep DEF Effect
<1>2. CASE Message
  BY <1>2, OthersRun, CommandStep, ConfirmationStep DEF Message
<1>3. CASE Clock \/ Crash
  BY <1>3, ClockRuns, CrashRuns
<1>4. CASE \/ Escalates \/ GoesQuiet \/ Configures \/ Launch \/ Concludes \/ OrphanEnds
           \/ Tick \/ ExhaustUnaudited \/ UNCHANGED vars
  BY <1>4, OthersRun
<1>5. CASE TickFails \/ ResolutionUnsaved \/ Reconnect
  BY <1>5, OthersRun DEF TickFails, ResolutionUnsaved
<1> QED
  BY <1>1, <1>2, <1>3, <1>4, <1>5 DEF Next

LEMMA GateBegins ==
  ASSUME Init
  PROVE  GateInv
<1>1. asked = <<>> /\ pending = {} /\ actions = {} /\ now = 0 /\ life = 0 /\ hist.ran = <<>>
  BY DEF Init
<1>2. GateTypes
  BY <1>1 DEF GateTypes
<1>3. DOMAIN hist.ran = {}
  BY <1>1
<1>4. RunsConfirmed /\ CodesOnce /\ HourKept
  BY <1>1, <1>3, FS_EmptySet DEF RunsConfirmed, CodesOnce, HourKept
<1>5. HourlyLimit
  <2>1. \A l, t : InHour(hist.ran, l, t) = {}
    BY <1>3 DEF InHour
  <2>2. \A l, t : Cardinality(InHour(hist.ran, l, t)) = 0
    BY <2>1, FS_EmptySet
  <2> QED
    BY <2>2, CasesAssumption DEF HourlyLimit, InHour
<1> QED
  BY <1>2, <1>4, <1>5 DEF GateInv

LEMMA CommandsAreSafe ==
  ASSUME GateInv
  PROVE  CommandsSafe
<1>1. ConfirmedOnce
  BY DEF GateInv, RunsConfirmed, CodesOnce, ConfirmedOnce
<1> QED
  BY <1>1 DEF GateInv, CommandsSafe

-----------------------------------------------------------------------------
(* The theorems                                                            *)

LEMMA CasesInvariant == Spec => [](ThreadInv /\ GateInv)
<1>1. Init => ThreadInv /\ GateInv
  BY ThreadsBegin, GateBegins
<1>2. (ThreadInv /\ GateInv) /\ [Next]_vars => (ThreadInv /\ GateInv)'
  <2> SUFFICES ASSUME ThreadInv, GateInv, [Next]_vars
               PROVE  ThreadInv' /\ GateInv'
    OBVIOUS
  <2>1. ThreadInv'
    BY ThreadStep DEF GateInv
  <2>2. hist \in Histories /\ hist' \in Histories
    BY <2>1 DEF ThreadInv, CaseTypes
  <2> QED
    BY <2>1, <2>2, GateStep
<1> QED
  BY <1>1, <1>2, PTL DEF Spec

(* A case has one thread and is told again only for a fault, and is called *)
(* resolved when its worker had an answer and that was told, or the log    *)
(* says it could not be (ops_gateway, OpsAgent::resolve_answer).           *)
THEOREM CaseThreadsSafe == Spec => []ThreadsSafe
<1>1. ThreadInv => ThreadsSafe
  BY ThreadsAreSafe
<1> QED
  BY <1>1, CasesInvariant, PTL

(* What changes something was confirmed, once, in time and by who asked    *)
(* for it, and in no hour of a daemon's life more runs than the limit      *)
(* (Handler::confirm, Handler::execute).                                   *)
THEOREM CaseCommandsSafe == Spec => []CommandsSafe
<1>1. GateInv => CommandsSafe
  BY CommandsAreSafe
<1> QED
  BY <1>1, CasesInvariant, PTL

=============================================================================
