----------------------------- MODULE TaskingProofs -----------------------------
(***************************************************************************)
(* Proofs about the launches of workers: that of one task at most one      *)
(* running worker is covered by its claim and that a request is run once   *)
(* (Dispatch), and that a launch of the task pane takes no claim from a    *)
(* worker (TaskList).                                                      *)
(***************************************************************************)
EXTENDS Dispatch, TaskList, FiniteSetTheorems, TLAPS

-----------------------------------------------------------------------------
(* Types of Dispatch                                                       *)

TaskType ==
    [status : {"open", "in_progress", "closed"}, holder : Holders, lapsed : BOOLEAN]
TaskTypes ==
    /\ task \in TaskType
    /\ holding \subseteq Launchers /\ covered \subseteq Workers
WorkerTypes == worker \in [Workers -> [state : States, by : Launchers]]
LaunchTypes ==
    /\ op \in [Launchers -> [at : Steps, worker : {0} \cup Workers]]
    /\ \A x \in Launchers : op[x].at = "persist" => op[x].worker \in Workers
RequestTypes ==
    /\ file \in [Requests -> Files]
    /\ pending \in Seq(Runs \cup Commands)
    /\ outcome \in [Requests -> Outcomes]
    /\ todo \subseteq Runs \cup Approvals
    /\ op["daemon"].at # "idle" => pc = "runs" /\ pending # << >>
LedgerTypes == ledger \in Ledgers /\ saved \in Ledgers /\ rows \subseteq Workers

DispatchTypes ==
    TaskTypes /\ WorkerTypes /\ LaunchTypes /\ RequestTypes /\ LedgerTypes

LEMMA LauncherNames == \A x \in Launchers : Identity(x) \in Holders \ {Nobody}
  BY DEF Launchers, Identity, Holders, Nobody

LEMMA TaskValues ==
    /\ \A h \in Holders :
          [status |-> "in_progress", holder |-> h, lapsed |-> FALSE] \in TaskType
    /\ [status |-> "open", holder |-> Nobody, lapsed |-> FALSE] \in TaskType
    /\ \A t \in TaskType : /\ [t EXCEPT !.lapsed = TRUE] \in TaskType
                           /\ [t EXCEPT !.status = "closed"] \in TaskType
<1>1. Nobody \in Holders
  BY DEF Holders
<1> QED
  BY <1>1 DEF TaskType

LEMMA InitTypes == Init => DispatchTypes
<1> SUFFICES ASSUME Init
             PROVE  DispatchTypes
  OBVIOUS
<1>1. TaskTypes
  BY TaskValues DEF Init, TaskTypes
<1>2. WorkerTypes
  BY DEF Init, WorkerTypes, States, Launchers
<1>3. LaunchTypes
  BY DEF Init, LaunchTypes, Idle, Steps
<1>4. RequestTypes
  BY DEF Init, RequestTypes, Files, Outcomes, Idle, Launchers
<1>5. LedgerTypes
  <2>1. 0 \in 0 .. BranchHoldCap
    BY DispatchAssumption
  <2>2. NoEntry \in Entries
    BY DEF NoEntry, Entries
  <2>3. saved \in Ledgers /\ ledger = saved /\ rows = {}
    BY <2>1, <2>2 DEF Init, Ledgers
  <2> QED
    BY <2>3 DEF LedgerTypes
<1> QED
  BY <1>1, <1>2, <1>3, <1>4, <1>5 DEF DispatchTypes

LEMMA TaskTypesKept ==
    TaskTypes /\ [Next]_vars => TaskTypes'
<1> SUFFICES ASSUME TaskTypes, [Next]_vars
             PROVE  TaskTypes'
  OBVIOUS
<1> USE DEF TaskTypes
<1>1. CASE Lapse
  BY <1>1, TaskValues DEF Lapse, ClaimsEnd
<1>2. CASE OtherClaims \/ Closes
  <2>1. "another" \in Holders
    BY DEF Holders
  <2> QED
    BY <1>2, <2>1, TaskValues DEF OtherClaims, Closes, Granted, ClaimsEnd
<1>3. ASSUME NEW x \in Launchers, Claim(x)
      PROVE  TaskTypes'
  BY <1>3, LauncherNames, TaskValues DEF Claim, Granted, Held, dropr, claims
<1>4. ASSUME NEW x \in Launchers, ClaimUnheard(x)
      PROVE  TaskTypes'
  BY <1>4, LauncherNames, TaskValues DEF ClaimUnheard, NoAnswer, Granted, ClaimsEnd, claims
<1>5. ASSUME NEW x \in Launchers, Release(x)
      PROVE  TaskTypes'
  BY <1>5, TaskValues DEF Release, ClaimsEnd, dropr, claims
<1>6. ASSUME NEW x \in Launchers, Create(x)
      PROVE  TaskTypes'
  BY <1>6 DEF Create, Made, Unused, claims
<1>7. CASE (\E x \in Launchers : LauncherDies(x)) \/ (\E w \in Workers : CleanedUp(w)) \/ Crash
  BY <1>7 DEF LauncherDies, CleanedUp, Crash
<1>8. ASSUME \/ Start \/ ListFiles \/ Observe \/ ReadClaim \/ Save
             \/ TurnAway \/ ActiveWorker \/ BranchTaken \/ Proceed \/ UiLaunch
             \/ Unpinned \/ Scanned
             \/ \E r \in Requests : TakeCommand(r) \/ TakeFile(r) \/ RemoveFile(r) \/ Write(r) \/ SkipFile(r)
             \/ \E x \in Launchers : Persist(x)
             \/ \E x \in Tools : ToolLaunch(x)
             \/ \E w \in Workers : SessionEnds(w)
             \/ UNCHANGED vars
      PROVE  UNCHANGED <<task, holding, covered>>
  BY <1>8 DEF Start, ListFiles, Observe, ReadClaim, Save, TurnAway,
              ActiveWorker, BranchTaken, Proceed, UiLaunch, Unpinned, Scanned,
              TakeCommand, TakeFile, RemoveFile, Write, SkipFile, Persist,
              ToolLaunch, SessionEnds, dropr, claims, registry, requests,
              ledgers, vars
<1> QED
  BY <1>1, <1>2, <1>3, <1>4, <1>5, <1>6, <1>7, <1>8 DEF Next, Pass, LaunchStep, Launchers

LEMMA WorkerTypesKept ==
    WorkerTypes /\ [Next]_vars => WorkerTypes'
<1> SUFFICES ASSUME WorkerTypes, [Next]_vars
             PROVE  WorkerTypes'
  OBVIOUS
<1> USE DEF WorkerTypes
<1>1. ASSUME NEW x \in Launchers, Create(x)
      PROVE  WorkerTypes'
  BY <1>1 DEF Create, Made, States
<1>2. CASE \E w \in Workers : SessionEnds(w) \/ CleanedUp(w)
  BY <1>2 DEF SessionEnds, CleanedUp, States
<1>3. ASSUME \/ Start \/ ListFiles \/ Observe \/ ReadClaim \/ Save
             \/ TurnAway \/ ActiveWorker \/ BranchTaken \/ Proceed \/ Crash
             \/ UiLaunch \/ Unpinned \/ Scanned \/ Lapse \/ OtherClaims
             \/ Closes
             \/ \E r \in Requests : TakeCommand(r) \/ TakeFile(r) \/ RemoveFile(r) \/ Write(r) \/ SkipFile(r)
             \/ \E x \in Launchers : Claim(x) \/ Persist(x) \/ Release(x) \/ ClaimUnheard(x) \/ LauncherDies(x)
             \/ \E x \in Tools : ToolLaunch(x)
             \/ UNCHANGED vars
      PROVE  UNCHANGED <<worker>>
  BY <1>3 DEF Start, ListFiles, Observe, ReadClaim, Save, TurnAway,
              ActiveWorker, BranchTaken, Proceed, Crash, UiLaunch, Unpinned,
              Scanned, Lapse, OtherClaims, Closes, TakeCommand, TakeFile,
              RemoveFile, Write, SkipFile, Claim, Persist, Release,
              ClaimUnheard, LauncherDies, ToolLaunch, dropr, claims, registry,
              requests, ledgers, vars
<1> QED
  BY <1>1, <1>2, <1>3 DEF Next, Pass, LaunchStep, Launchers

LEMMA LaunchTypesKept ==
    LaunchTypes /\ [Next]_vars => LaunchTypes'
<1> SUFFICES ASSUME LaunchTypes, [Next]_vars
             PROVE  LaunchTypes'
  OBVIOUS
<1> USE DEF LaunchTypes, Idle, Steps, Goto, Ended
<1>1. ASSUME NEW x \in Launchers, Claim(x) \/ ClaimUnheard(x) \/ Release(x) \/ LauncherDies(x)
      PROVE  LaunchTypes'
  BY <1>1 DEF Claim, ClaimUnheard, NoAnswer, Release, LauncherDies
<1>2. ASSUME NEW x \in Launchers, Create(x)
      PROVE  LaunchTypes'
  BY <1>2 DEF Create, Unused
<1>3. ASSUME NEW x \in Launchers, Persist(x)
      PROVE  LaunchTypes'
  BY <1>3 DEF Persist
<1>4. CASE Proceed \/ ReadClaim \/ Crash \/ UiLaunch \/ \E x \in Tools : ToolLaunch(x)
  BY <1>4 DEF Proceed, ReadClaim, Crash, UiLaunch, ToolLaunch, Launchers
<1>5. ASSUME \/ Start \/ ListFiles \/ Observe \/ Save \/ TurnAway
             \/ ActiveWorker \/ BranchTaken \/ Unpinned \/ Scanned \/ Lapse
             \/ OtherClaims \/ Closes
             \/ \E r \in Requests : TakeCommand(r) \/ TakeFile(r) \/ RemoveFile(r) \/ Write(r) \/ SkipFile(r)
             \/ \E w \in Workers : SessionEnds(w) \/ CleanedUp(w)
             \/ UNCHANGED vars
      PROVE  UNCHANGED <<op>>
  BY <1>5 DEF Start, ListFiles, Observe, Save, TurnAway, ActiveWorker,
              BranchTaken, Unpinned, Scanned, Lapse, OtherClaims, Closes,
              TakeCommand, TakeFile, RemoveFile, Write, SkipFile, SessionEnds,
              CleanedUp, dropr, claims, registry, requests, ledgers, vars
<1> QED
  BY <1>1, <1>2, <1>3, <1>4, <1>5 DEF Next, Pass, LaunchStep, Launchers

LEMMA RequestTypesKept ==
    LaunchTypes /\ RequestTypes /\ [Next]_vars => RequestTypes'
<1> SUFFICES ASSUME LaunchTypes, RequestTypes, [Next]_vars
             PROVE  RequestTypes'
  OBVIOUS
<1> DEFINE Types == /\ file \in [Requests -> Files]
                    /\ pending \in Seq(Runs \cup Commands)
                    /\ outcome \in [Requests -> Outcomes]
                    /\ todo \subseteq Runs \cup Approvals
           Hand == op["daemon"].at # "idle" => pc = "runs" /\ pending # << >>
<1>0. Types /\ Hand /\ op \in [Launchers -> [at : Steps, worker : {0} \cup Workers]]
  BY DEF RequestTypes, LaunchTypes
<1> SUFFICES Types' /\ Hand'
  BY DEF RequestTypes
<1>1. ASSUME NEW result \in {"refused", "started"}, pending # << >>,
             Close(Head(pending), result)
      PROVE  pending' \in Seq(Runs \cup Commands) /\ outcome' \in [Requests -> Outcomes]
  <2>1. pending' \in Seq(Runs \cup Commands)
    BY <1>0, <1>1 DEF Close
  <2>2. outcome' \in [Requests -> Outcomes]
    BY <1>0, <1>1 DEF Close, Outcomes
  <2> QED
    BY <2>1, <2>2
<1>2. ASSUME NEW x \in Launchers, Ended(x), op[x].at # "idle", UNCHANGED pc
      PROVE  Types' /\ Hand'
  <2>1. CASE x = "daemon"
    <3>1. pending # << >>
      BY <1>0, <1>2, <2>1
    <3>2. Types'
      BY <1>0, <1>1, <1>2, <2>1, <3>1 DEF Ended
    <3>3. op'["daemon"].at = "idle"
      BY <1>0, <1>2, <2>1 DEF Ended, Idle
    <3> QED
      BY <3>2, <3>3
  <2>2. CASE x # "daemon"
    BY <1>0, <1>2, <2>2 DEF Ended, requests, Idle
  <2> QED
    BY <2>1, <2>2
<1>3. ASSUME NEW x \in Launchers, Claim(x) \/ ClaimUnheard(x) \/ Release(x)
      PROVE  Types' /\ Hand'
  <2>1. op[x].at # "idle" /\ UNCHANGED pc
    BY <1>3 DEF Claim, ClaimUnheard, Release
  <2>2. CASE Ended(x)
    BY <1>2, <2>1, <2>2
  <2>3. CASE Goto(x, "create") /\ UNCHANGED requests
    BY <1>0, <2>1, <2>3 DEF Goto, requests
  <2> QED
    BY <1>3, <2>2, <2>3 DEF Claim, ClaimUnheard, NoAnswer, Release
<1>4. CASE ReadClaim
  <2>1. "daemon" \in Launchers /\ op["daemon"].at # "idle" /\ UNCHANGED pc
    BY <1>4 DEF ReadClaim, Launchers
  <2>2. CASE Ended("daemon")
    BY <1>2, <2>1, <2>2
  <2>3. CASE Goto("daemon", "claim") /\ UNCHANGED requests
    BY <1>0, <2>1, <2>3 DEF Goto, requests
  <2> QED
    BY <1>4, <2>2, <2>3 DEF ReadClaim
<1>5. ASSUME NEW x \in Launchers, Create(x)
      PROVE  Types' /\ Hand'
  <2>1. op[x].at # "idle" /\ UNCHANGED <<pc, pending, file, todo>>
    BY <1>5 DEF Create
  <2>2. UNCHANGED outcome \/ Started(x)
    BY <1>5 DEF Create
  <2>3. outcome' \in [Requests -> Outcomes]
    BY <1>0, <2>2 DEF Started, Outcomes
  <2>4. \A y \in Launchers \ {x} : op'[y] = op[y]
    BY <1>0, <1>5 DEF Create, Goto
  <2> QED
    BY <1>0, <2>1, <2>3, <2>4 DEF Launchers
<1>6. ASSUME NEW x \in Launchers, Persist(x)
      PROVE  Types' /\ Hand'
  <2>1. op[x].at # "idle" /\ UNCHANGED pc
    BY <1>6 DEF Persist
  <2>2. \A y \in Launchers \ {x} : op'[y] = op[y]
    BY <1>0, <1>6 DEF Persist
  <2>3. CASE x = "daemon" /\ op'[x] = Idle /\ Close(Head(pending), "started") /\ UNCHANGED <<file, todo>>
    <3>1. pending # << >>
      BY <1>0, <2>1, <2>3
    <3>2. Types'
      BY <1>0, <1>1, <2>3, <3>1
    <3> QED
      BY <2>3, <3>2 DEF Idle
  <2>4. CASE UNCHANGED requests
    BY <1>0, <2>1, <2>2, <2>4 DEF requests, Launchers
  <2> QED
    BY <1>0, <1>6, <2>3, <2>4 DEF Persist
<1>7. CASE TurnAway \/ ActiveWorker \/ BranchTaken
  <2>1. /\ pending # << >> /\ op["daemon"].at = "idle" /\ UNCHANGED <<op, file, todo>>
        /\ Close(Head(pending), "refused")
    BY <1>7 DEF TurnAway, ActiveWorker, BranchTaken, NextRun
  <2> QED
    BY <1>0, <1>1, <2>1
<1>8. CASE Proceed
  BY <1>0, <1>8 DEF Proceed, NextRun, Goto, requests
<1>9. ASSUME NEW r \in Requests, TakeCommand(r) \/ TakeFile(r)
      PROVE  Types' /\ Hand'
  <2>1. /\ UNCHANGED <<op, outcome, pc>> /\ pc # "runs" /\ todo' \subseteq todo
        /\ pending' = pending \/ (pending' = Append(pending, r) /\ r \in Runs \cup Commands)
        /\ \/ UNCHANGED file \/ file' = [file EXCEPT ![r] = "taken"]
           \/ file' = [file EXCEPT ![r] = "gone"]
    BY <1>9 DEF TakeCommand, TakeFile, Queued
  <2>2. pending' \in Seq(Runs \cup Commands)
    BY <1>0, <2>1
  <2>3. file' \in [Requests -> Files]
    BY <1>0, <2>1 DEF Files
  <2> QED
    BY <1>0, <2>1, <2>2, <2>3
<1>10. ASSUME NEW r \in Requests, Write(r) \/ SkipFile(r) \/ RemoveFile(r)
      PROVE  Types' /\ Hand'
  BY <1>0, <1>10 DEF Write, SkipFile, RemoveFile, Removed, Files
<1>11. CASE ListFiles \/ Observe \/ Start \/ Save
  <2>1. /\ UNCHANGED <<op, pending, outcome, file>> /\ (pc = "runs" => pending = << >>)
        /\ todo' \subseteq todo \cup Runs \cup Approvals
    BY <1>11 DEF ListFiles, Observe, Start, Save, requests
  <2> QED
    BY <1>0, <2>1
<1>12. CASE Crash
  <2>1. op'["daemon"].at = "idle"
    BY <1>0, <1>12 DEF Crash, Idle, Launchers
  <2>2. file' \in [Requests -> Files]
    BY <1>0, <1>12 DEF Crash, Files
  <2>3. outcome' \in [Requests -> Outcomes]
    BY <1>0, <1>12 DEF Crash, Outcomes
  <2> QED
    BY <1>0, <1>12, <2>1, <2>2, <2>3 DEF Crash
<1>13. CASE UiLaunch \/ (\E x \in Tools : ToolLaunch(x)) \/ (\E x \in Launchers : LauncherDies(x))
  <2>1. op'["daemon"] = op["daemon"]
    BY <1>0, <1>13, DispatchAssumption DEF UiLaunch, ToolLaunch, LauncherDies, Goto, Launchers
  <2> QED
    BY <1>0, <1>13, <2>1 DEF UiLaunch, ToolLaunch, LauncherDies, requests
<1>14. ASSUME \/ Unpinned \/ Scanned \/ Lapse \/ OtherClaims \/ Closes
              \/ \E w \in Workers : SessionEnds(w) \/ CleanedUp(w)
              \/ UNCHANGED vars
       PROVE  UNCHANGED <<file, pending, outcome, todo, op, pc>>
  BY <1>14 DEF Unpinned, Scanned, Lapse, OtherClaims, Closes, SessionEnds,
               CleanedUp, dropr, claims, registry, requests, ledgers, vars
<1> QED
  BY <1>0, <1>3, <1>4, <1>5, <1>6, <1>7, <1>8, <1>9, <1>10, <1>11, <1>12, <1>13, <1>14
     DEF Next, Pass, LaunchStep, Launchers

LEMMA LedgerTypesKept ==
    LaunchTypes /\ RequestTypes /\ LedgerTypes /\ [Next]_vars => LedgerTypes'
<1> SUFFICES ASSUME LaunchTypes, RequestTypes, LedgerTypes, [Next]_vars
             PROVE  LedgerTypes'
  OBVIOUS
<1>0. /\ ledger \in Ledgers /\ saved \in Ledgers /\ rows \subseteq Workers
      /\ BranchHoldCap \in Nat /\ NoEntry \in Entries
  BY DispatchAssumption DEF LedgerTypes, NoEntry, Entries
<1>1. ASSUME NEW entry \in [Workers -> Entries], NEW l \in Ledgers,
             NEW noted \in SUBSET Approvals, NEW holds \in 0 .. BranchHoldCap
      PROVE  /\ [l EXCEPT !.entry = entry] \in Ledgers
             /\ [l EXCEPT !.noted = noted] \in Ledgers
             /\ [l EXCEPT !.holds = holds] \in Ledgers
             /\ l.entry \in [Workers -> Entries] /\ l.noted \in SUBSET Approvals
             /\ l.holds \in 0 .. BranchHoldCap
  BY DEF Ledgers
<1>11. ledger.entry \in [Workers -> Entries] /\ ledger.noted \in SUBSET Approvals
       /\ ledger.holds \in 0 .. BranchHoldCap
  BY <1>0 DEF Ledgers
<1>2. ASSUME NEW x \in Launchers, Persist(x)
      PROVE  LedgerTypes'
  <2>1. op[x].worker \in Workers
    BY <1>2 DEF Persist, LaunchTypes
  <2>2. rows' \subseteq Workers /\ saved' = saved
    BY <1>0, <1>2, <2>1 DEF Persist
  <2>3. ASSUME NEW w \in Workers, Entered(w)
        PROVE  ledger' \in Ledgers
    <3>1. [named |-> TRUE, phase |-> "active"] \in Entries
      BY DEF Entries
    <3> DEFINE entry == [ledger.entry EXCEPT ![w] = [named |-> TRUE, phase |-> "active"]]
    <3>2. entry \in [Workers -> Entries]
      BY <1>11, <3>1
    <3>3. ledger' = [ledger EXCEPT !.entry = entry]
      BY <2>3 DEF Entered
    <3> QED
      BY <1>0, <3>2, <3>3 DEF Ledgers
  <2>4. ledger' \in Ledgers
    BY <1>0, <1>2, <2>1, <2>3 DEF Persist
  <2> QED
    BY <1>0, <2>2, <2>4 DEF LedgerTypes
<1>3. CASE Start \/ Crash
  BY <1>0, <1>3 DEF Start, Crash, LedgerTypes, registry
<1>4. CASE BranchTaken \/ Proceed
  <2>1. PICK holds \in 0 .. BranchHoldCap : ledger' = [ledger EXCEPT !.holds = holds]
    <3>1. CASE BranchTaken
      BY <1>0, <1>11, <3>1 DEF BranchTaken, BranchHeld
    <3>2. CASE Proceed
      BY <1>0, <3>2 DEF Proceed
    <3> QED
      BY <1>4, <3>1, <3>2
  <2>2. ledger' \in Ledgers
    BY <1>0, <2>1 DEF Ledgers
  <2>3. UNCHANGED <<rows, saved>>
    BY <1>4 DEF BranchTaken, Proceed, registry
  <2> QED
    BY <1>0, <2>2, <2>3 DEF LedgerTypes
<1>5. ASSUME NEW r \in Requests, TakeFile(r)
      PROVE  LedgerTypes'
  <2>1. UNCHANGED rows
    BY <1>5 DEF TakeFile, registry
  <2>2. CASE r \in Runs
    BY <1>0, <1>5, <2>1, <2>2 DEF TakeFile, ledgers, LedgerTypes
  <2>3. CASE r \notin Runs /\ r \in Approvals
    <3> DEFINE noted == ledger.noted \cup {r}
    <3>1. ledger' = [ledger EXCEPT !.noted = noted] /\ (saved' = ledger' \/ saved' = saved)
      BY <1>5, <2>3 DEF TakeFile, Checkpoint
    <3>2. noted \in SUBSET Approvals
      BY <1>11, <2>3
    <3>3. ledger' \in Ledgers
      BY <1>0, <3>1, <3>2 DEF Ledgers
    <3> QED
      BY <1>0, <2>1, <3>1, <3>3 DEF LedgerTypes
  <2> QED
    BY <1>5, <2>2, <2>3 DEF TakeFile, RequestTypes
<1>6. CASE Observe
  <2>1. PICK settled \in SUBSET Workers : ledger' = [ledger EXCEPT !.entry =
                [w \in Workers |->
                    IF Adopted(ledger.entry)[w].phase = "none" THEN NoEntry
                    ELSE [named |-> Adopted(ledger.entry)[w].named,
                          phase |-> IF w \in settled THEN "settled" ELSE "active"]]]
    BY <1>6 DEF Observe
  <2> DEFINE adopted == Adopted(ledger.entry)
             entry == [w \in Workers |->
                    IF adopted[w].phase = "none" THEN NoEntry
                    ELSE [named |-> adopted[w].named,
                          phase |-> IF w \in settled THEN "settled" ELSE "active"]]
  <2>2. adopted \in [Workers -> Entries]
    BY <1>11 DEF Adopted, Entries
  <2>3. entry \in [Workers -> Entries]
    <3> HIDE DEF adopted
    <3>1. ASSUME NEW w \in Workers
          PROVE  entry[w] \in Entries
      BY <2>2 DEF Entries, NoEntry
    <3> QED
      BY <3>1
  <2>4. ledger' \in Ledgers
    <3> HIDE DEF entry
    <3>1. ledger' = [ledger EXCEPT !.entry = entry]
      BY <2>1 DEF entry
    <3> QED
      BY <1>0, <1>1, <2>3, <3>1 DEF Ledgers
  <2> QED
    BY <1>0, <1>6, <2>4 DEF Observe, LedgerTypes, registry
<1>7. CASE Save
  <2>1. PICK gone : ledger' = [ledger EXCEPT !.entry =
                        [w \in Workers |-> IF w \in BeyondWindow \union gone
                                           THEN NoEntry ELSE ledger.entry[w]]]
    BY <1>7 DEF Save
  <2> DEFINE entry == [w \in Workers |-> IF w \in BeyondWindow \union gone
                                         THEN NoEntry ELSE ledger.entry[w]]
  <2>2. entry \in [Workers -> Entries]
    BY <1>0, <1>11
  <2>3. ledger' \in Ledgers
    <3> HIDE DEF entry
    <3>1. ledger' = [ledger EXCEPT !.entry = entry]
      BY <2>1 DEF entry
    <3> QED
      BY <1>0, <2>2, <3>1 DEF Ledgers
  <2> QED
    BY <1>0, <1>7, <2>3 DEF Save, LedgerTypes, registry
<1>8. CASE Unpinned \/ Scanned \/ \E w \in Workers : CleanedUp(w)
  BY <1>0, <1>8 DEF Unpinned, Scanned, CleanedUp, LedgerTypes, ledgers
<1>9. ASSUME \/ ListFiles \/ ReadClaim \/ TurnAway \/ ActiveWorker \/ UiLaunch
             \/ Lapse \/ OtherClaims \/ Closes
             \/ \E r \in Requests : TakeCommand(r) \/ RemoveFile(r) \/ Write(r) \/ SkipFile(r)
             \/ \E x \in Launchers : Claim(x) \/ Create(x) \/ Release(x) \/ ClaimUnheard(x) \/ LauncherDies(x)
             \/ \E x \in Tools : ToolLaunch(x)
             \/ \E w \in Workers : SessionEnds(w)
             \/ UNCHANGED vars
      PROVE  UNCHANGED <<ledger, saved, rows>>
  BY <1>9 DEF ListFiles, ReadClaim, TurnAway, ActiveWorker, UiLaunch, Lapse,
              OtherClaims, Closes, TakeCommand, RemoveFile, Write, SkipFile,
              Claim, Create, Release, ClaimUnheard, LauncherDies, ToolLaunch,
              SessionEnds, dropr, claims, registry, requests, ledgers, vars
<1> QED
  BY <1>2, <1>3, <1>4, <1>5, <1>6, <1>7, <1>8, <1>9 DEF Next, Pass, LaunchStep, Launchers, LedgerTypes

LEMMA TypesKept == DispatchTypes /\ [Next]_vars => DispatchTypes'
  BY TaskTypesKept, WorkerTypesKept, LaunchTypesKept, RequestTypesKept,
     LedgerTypesKept DEF DispatchTypes

-----------------------------------------------------------------------------
(* One covered worker                                                      *)

(* Whoever holds, or works under, a claim does so in the name that dropr   *)
(* has; two workers under one claim would have the same branch.            *)
HoldersClaim == \A x \in holding : task.holder = Identity(x)
CoveredClaim ==
    \A w \in covered : /\ task.holder = Identity(worker[w].by)
                       /\ worker[w].state # "none"
OneRuns == \A v, w \in covered \cap Running : v = w
ClaimInv == HoldersClaim /\ CoveredClaim /\ OneRuns

LEMMA OneNameOneBranch ==
    \A x, y \in Launchers : Identity(x) = Identity(y) => Naming(x) = Naming(y)
  BY DEF Identity, Naming

LEMMA ClaimKept ==
    DispatchTypes /\ ClaimInv /\ [Next]_vars => ClaimInv'
<1> SUFFICES ASSUME DispatchTypes, ClaimInv, [Next]_vars
             PROVE  ClaimInv'
  OBVIOUS
<1>0. /\ holding \subseteq Launchers /\ covered \subseteq Workers
      /\ worker \in [Workers -> [state : States, by : Launchers]]
      /\ task \in TaskType
  BY DEF DispatchTypes, TaskTypes, WorkerTypes
<1>1. ASSUME ClaimsEnd
      PROVE  ClaimInv'
  BY <1>1 DEF ClaimsEnd, ClaimInv, HoldersClaim, CoveredClaim, OneRuns
<1>2. ASSUME holding' \subseteq holding, covered' \subseteq covered,
             UNCHANGED <<task, worker>>
      PROVE  ClaimInv'
  BY <1>2 DEF ClaimInv, HoldersClaim, CoveredClaim, OneRuns, Running
<1>3. CASE Lapse \/ OtherClaims \/ Closes
  BY <1>1, <1>3 DEF Lapse, OtherClaims, Closes
<1>4. ASSUME NEW x \in Launchers, CanGrant(Identity(x)), Granted(Identity(x)),
             UNCHANGED worker, task.holder = Identity(x), ~task.lapsed,
             holding' \subseteq holding \cup {x}, UNCHANGED covered
      PROVE  ClaimInv'
  BY <1>4 DEF Granted, ClaimInv, HoldersClaim, CoveredClaim, OneRuns, Running
<1>5. ASSUME NEW x \in Launchers, Claim(x)
      PROVE  ClaimInv'
  <2>1. UNCHANGED worker
    BY <1>5 DEF Claim
  <2>2. CASE UNCHANGED dropr
    BY <1>2, <2>1, <2>2 DEF dropr, claims
  <2>3. CASE CanGrant(Identity(x)) /\ Granted(Identity(x)) /\ Held(x)
    <3>1. CASE task.holder = Identity(x) /\ ~task.lapsed
      BY <1>4, <2>1, <2>3, <3>1 DEF Held
    <3>2. CASE ~(task.holder = Identity(x) /\ ~task.lapsed)
      BY <2>3, <3>2 DEF Held, Granted, ClaimInv, HoldersClaim, CoveredClaim, OneRuns
    <3> QED
      BY <3>1, <3>2
  <2> QED
    BY <1>5, <2>2, <2>3 DEF Claim
<1>6. ASSUME NEW x \in Launchers, ClaimUnheard(x)
      PROVE  ClaimInv'
  <2>1. UNCHANGED worker
    BY <1>6 DEF ClaimUnheard
  <2>2. CASE UNCHANGED <<task, claims>>
    BY <1>2, <2>1, <2>2 DEF claims
  <2>3. CASE /\ CanGrant(Identity(x)) /\ Granted(Identity(x))
             /\ UNCHANGED claims /\ task.holder = Identity(x) /\ ~task.lapsed
    BY <1>4, <2>1, <2>3 DEF claims
  <2> QED
    BY <1>1, <1>6, <2>2, <2>3 DEF ClaimUnheard, NoAnswer
<1>7. ASSUME NEW x \in Launchers, Release(x)
      PROVE  ClaimInv'
  BY <1>1, <1>2, <1>7 DEF Release, dropr, claims
<1>8. ASSUME NEW x \in Launchers, Create(x)
      PROVE  ClaimInv'
  <2>1. UNCHANGED task
    BY <1>8 DEF Create
  <2>2. CASE UNCHANGED <<worker, claims>>
    BY <1>2, <2>1, <2>2 DEF claims
  <2>3. ASSUME NEW w \in Unused, NEW state \in {"stump", "running"}, Made(x, w, state),
               ~BranchExists(Naming(x))
        PROVE  ClaimInv'
    <3>1. /\ w \in Workers /\ worker[w].state = "none" /\ w \notin covered
          /\ worker' = [worker EXCEPT ![w] = [state |-> state, by |-> x]]
      BY <2>3 DEF Unused, Made, ClaimInv, CoveredClaim
    <3>2. \A v \in covered : worker'[v] = worker[v]
      BY <1>0, <3>1
    <3>3. worker'[w] = [state |-> state, by |-> x]
      BY <1>0, <3>1
    <3>4. HoldersClaim'
      BY <2>1, <2>3 DEF Made, ClaimInv, HoldersClaim
    <3>5. CASE covered' = covered
      <4>1. CoveredClaim'
        BY <2>1, <3>2, <3>5 DEF ClaimInv, CoveredClaim
      <4>2. OneRuns'
        BY <3>2, <3>5 DEF ClaimInv, OneRuns, Running
      <4> QED
        BY <3>4, <4>1, <4>2 DEF ClaimInv
    <3>6. CASE x \in holding /\ state = "running" /\ covered' = covered \cup {w}
      <4>1. task.holder = Identity(x)
        BY <3>6 DEF ClaimInv, HoldersClaim
      <4>2. CoveredClaim'
        BY <2>1, <3>2, <3>3, <3>6, <4>1 DEF ClaimInv, CoveredClaim
      <4>3. ASSUME NEW v \in covered, worker[v].state = "running"
            PROVE  FALSE
        <5>1. Identity(worker[v].by) = Identity(x) /\ v \in Workers /\ worker[v].by \in Launchers
          BY <1>0, <4>1, <4>3 DEF ClaimInv, CoveredClaim
        <5>2. Naming(worker[v].by) = Naming(x)
          BY <5>1, OneNameOneBranch
        <5> QED
          BY <2>3, <4>3, <5>1, <5>2 DEF BranchExists
      <4>4. OneRuns'
        BY <3>2, <3>6, <4>3 DEF OneRuns, Running
      <4> QED
        BY <3>4, <4>2, <4>4 DEF ClaimInv
    <3> QED
      BY <2>3, <3>5, <3>6 DEF Made
  <2> QED
    BY <1>8, <2>2, <2>3 DEF Create, Refused
<1>9. ASSUME NEW x \in Launchers, LauncherDies(x)
      PROVE  ClaimInv'
  BY <1>2, <1>9 DEF LauncherDies
<1>10. CASE Crash
  BY <1>2, <1>10 DEF Crash
<1>11. ASSUME NEW w \in Workers, NEW state \in {"ended", "gone"},
              worker' = [worker EXCEPT ![w].state = state],
              covered' \subseteq covered, UNCHANGED <<task, holding>>
       PROVE  ClaimInv'
  <2>1. \A v \in Workers : worker'[v].by = worker[v].by
    BY <1>0, <1>11
  <2>2. \A v \in Workers : worker'[v].state = worker[v].state \/ worker'[v].state = state
    BY <1>0, <1>11
  <2>3. HoldersClaim' /\ CoveredClaim'
    BY <1>0, <1>11, <2>1, <2>2 DEF ClaimInv, HoldersClaim, CoveredClaim
  <2>4. OneRuns'
    BY <1>0, <1>11, <2>2 DEF ClaimInv, OneRuns, Running
  <2> QED
    BY <2>3, <2>4 DEF ClaimInv
<1>12. ASSUME NEW w \in Workers, SessionEnds(w) \/ CleanedUp(w)
       PROVE  ClaimInv'
  BY <1>11, <1>12 DEF SessionEnds, CleanedUp, dropr, claims
<1>13. ASSUME \/ Start \/ ListFiles \/ Observe \/ ReadClaim \/ Save
              \/ TurnAway \/ ActiveWorker \/ BranchTaken \/ Proceed \/ UiLaunch
              \/ Unpinned \/ Scanned
              \/ \E r \in Requests : TakeCommand(r) \/ TakeFile(r) \/ RemoveFile(r) \/ Write(r) \/ SkipFile(r)
              \/ \E x \in Launchers : Persist(x)
              \/ \E x \in Tools : ToolLaunch(x)
              \/ UNCHANGED vars
       PROVE  UNCHANGED <<task, holding, covered, worker>>
  BY <1>13 DEF Start, ListFiles, Observe, ReadClaim, Save, TurnAway,
               ActiveWorker, BranchTaken, Proceed, UiLaunch, Unpinned,
               Scanned, TakeCommand, TakeFile, RemoveFile, Write, SkipFile,
               Persist, ToolLaunch, dropr, claims, registry, requests,
               ledgers, vars
<1> QED
  BY <1>2, <1>3, <1>5, <1>6, <1>7, <1>8, <1>9, <1>10, <1>12, <1>13
     DEF Next, Pass, LaunchStep, Launchers

LEMMA ClaimCovers == DispatchTypes /\ ClaimInv => OneCovered
<1> SUFFICES ASSUME DispatchTypes, ClaimInv
             PROVE  OneCovered
  OBVIOUS
<1>1. CASE covered \cap Running = {}
  BY <1>1, FS_EmptySet DEF OneCovered
<1>2. CASE covered \cap Running # {}
  <2>1. PICK w : w \in covered \cap Running
    BY <1>2
  <2>2. covered \cap Running = {w}
    BY <2>1 DEF ClaimInv, OneRuns
  <2>3. Cardinality({w}) = 1
    BY FS_Singleton
  <2> QED
    BY <2>2, <2>3 DEF OneCovered
<1> QED
  BY <1>1, <1>2

-----------------------------------------------------------------------------
(* One run, one start                                                      *)

(* A run is in hand from its start to its row in the registry; the others  *)
(* queued for the pass, each once, have not come to anything.              *)
InHand == op["daemon"].at \in {"persist", "release"}
QueueFresh ==
    \A i \in 1 .. Len(pending) : i > 1 \/ ~InHand => outcome[pending[i]] = "none"
QueueOnce == \A i, j \in 1 .. Len(pending) : pending[i] = pending[j] => i = j

(* Only a request whose file is gone, or is about to go, is queued, and    *)
(* only one that is gone has come to something.                            *)
FilesFirst ==
    \A r \in Runs \cup Commands :
        /\ file[r] \in {"none", "written"} => \A i \in 1 .. Len(pending) : pending[i] # r
        /\ file[r] # "gone" => outcome[r] = "none"
ListedFiles ==
    /\ \A r \in todo : file[r] \in {"written", "taken"}
    /\ \A r \in Requests : file[r] = "taken" => r \in todo
    /\ todo # {} => pc = "drain"
NeverAgain == \A r \in Requests : outcome[r] # "again"
RunInv == QueueFresh /\ QueueOnce /\ FilesFirst /\ ListedFiles /\ NeverAgain

LEMMA CloseKeeps ==
    ASSUME RequestTypes, RunInv, pc = "runs", pending # << >>,
           NEW result \in {"refused", "started"}, Close(Head(pending), result),
           UNCHANGED <<file, todo, pc>>, op'["daemon"].at = "idle"
    PROVE  RunInv'
<1> DEFINE r == pending[1]
<1>1. /\ pending \in Seq(Runs \cup Commands) /\ Len(pending) \in Nat /\ Len(pending) > 0
      /\ r \in Runs \cup Commands /\ r \in Requests /\ r = Head(pending)
      /\ outcome \in [Requests -> Outcomes] /\ file \in [Requests -> Files]
  BY DEF RequestTypes, Requests
<1>2. /\ pending' = Tail(pending)
      /\ outcome' = [outcome EXCEPT ![r] = IF @ = "none" THEN result ELSE @]
  BY <1>1 DEF Close
<1> HIDE DEF r
<1>3. /\ Len(pending') = Len(pending) - 1
      /\ \A i \in 1 .. Len(pending') : i + 1 \in 2 .. Len(pending)
                                       /\ pending'[i] = pending[i + 1]
  BY <1>1, <1>2
<1>4. \A i \in 2 .. Len(pending) : pending[i] # r
  BY <1>1 DEF RunInv, QueueOnce, r
<1>5. \A q \in Requests \ {r} : outcome'[q] = outcome[q]
  BY <1>1, <1>2
<1>6. file[r] = "gone"
  <2>1. file[r] \notin {"none", "written"}
    BY <1>1 DEF RunInv, FilesFirst, r
  <2>2. file[r] # "taken"
    BY <1>1 DEF RunInv, ListedFiles
  <2> QED
    BY <1>1, <2>1, <2>2 DEF Files
<1>7. QueueFresh'
  <2>1. ASSUME NEW i \in 1 .. Len(pending')
        PROVE  outcome'[pending'[i]] = "none"
    <3>1. pending'[i] = pending[i + 1] /\ i + 1 \in 2 .. Len(pending)
      BY <1>3
    <3>2. outcome[pending[i + 1]] = "none"
      BY <1>1, <3>1 DEF RunInv, QueueFresh
    <3>3. pending[i + 1] \in Requests \ {r}
      BY <1>1, <1>4, <3>1 DEF Requests
    <3> QED
      BY <1>5, <3>1, <3>2, <3>3
  <2> QED
    BY <2>1 DEF QueueFresh
<1>8. QueueOnce'
  <2>1. ASSUME NEW i \in 1 .. Len(pending'), NEW j \in 1 .. Len(pending'),
               pending'[i] = pending'[j]
        PROVE  i = j
    <3>1. /\ i + 1 \in 2 .. Len(pending) /\ j + 1 \in 2 .. Len(pending)
          /\ pending[i + 1] = pending[j + 1]
      BY <1>3, <2>1
    <3>2. i + 1 = j + 1
      BY <1>1, <3>1 DEF RunInv, QueueOnce
    <3> QED
      BY <1>1, <1>3, <3>2
  <2> QED
    BY <2>1 DEF QueueOnce
<1>9. FilesFirst'
  <2>1. ASSUME NEW q \in Runs \cup Commands, file[q] \in {"none", "written"},
               NEW i \in 1 .. Len(pending')
        PROVE  pending'[i] # q
    BY <1>1, <1>3, <2>1 DEF RunInv, FilesFirst
  <2>2. ASSUME NEW q \in Runs \cup Commands, file[q] # "gone"
        PROVE  outcome'[q] = "none"
    BY <1>5, <1>6, <2>2 DEF RunInv, FilesFirst, Requests
  <2> QED
    BY <2>1, <2>2 DEF FilesFirst
<1>10. ListedFiles'
  BY DEF RunInv, ListedFiles
<1>11. NeverAgain'
  BY <1>1, <1>2, <1>5 DEF RunInv, NeverAgain
<1> QED
  BY <1>7, <1>8, <1>9, <1>10, <1>11 DEF RunInv

(* A launch that ends goes on to the next run, or is not the daemon's.     *)
LEMMA EndedKeeps ==
    ASSUME LaunchTypes, RequestTypes, RunInv, NEW x \in Launchers, Ended(x),
           op[x].at # "idle", UNCHANGED pc
    PROVE  RunInv'
<1>1. CASE x = "daemon"
  <2>1. pc = "runs" /\ pending # << >>
    BY <1>1 DEF RequestTypes
  <2>2. op'["daemon"].at = "idle"
    BY <1>1 DEF Ended, LaunchTypes, Idle
  <2> QED
    BY <1>1, <2>1, <2>2, CloseKeeps DEF Ended
<1>2. CASE x # "daemon"
  <2>1. UNCHANGED <<file, pending, outcome, todo>>
    BY <1>2 DEF Ended, requests
  <2>2. op'["daemon"] = op["daemon"]
    BY <1>2 DEF Ended, LaunchTypes
  <2> QED
    BY <2>1, <2>2 DEF RunInv, QueueFresh, QueueOnce, FilesFirst, ListedFiles, NeverAgain, InHand
<1> QED
  BY <1>1, <1>2

(* A step that leaves requests and the daemon's launch alone.              *)
LEMMA RunsRest ==
    ASSUME RunInv, UNCHANGED <<file, pending, outcome, todo>>,
           InHand => InHand', todo # {} => UNCHANGED pc
    PROVE  RunInv'
  BY DEF RunInv, QueueFresh, QueueOnce, FilesFirst, ListedFiles, NeverAgain

(* Joining the queue, from a file or a message.                            *)
LEMMA QueuedKeeps ==
    ASSUME RequestTypes, RunInv, NEW r \in Runs \cup Commands, file[r] = "written",
           pending' = Append(pending, r), UNCHANGED <<outcome, op>>, pc # "runs",
           NEW to \in {"taken", "gone"}, file' = [file EXCEPT ![r] = to]
    PROVE  QueueFresh' /\ QueueOnce' /\ FilesFirst' /\ NeverAgain'
<1>1. /\ pending \in Seq(Runs \cup Commands) /\ Len(pending) \in Nat
      /\ outcome \in [Requests -> Outcomes] /\ file \in [Requests -> Files]
  BY DEF RequestTypes
<1>2. /\ Len(pending') = Len(pending) + 1 /\ pending'[Len(pending) + 1] = r
      /\ \A i \in 1 .. Len(pending) : pending'[i] = pending[i]
  BY <1>1
<1>3. outcome[r] = "none" /\ \A i \in 1 .. Len(pending) : pending[i] # r
  BY <1>1 DEF RunInv, FilesFirst
<1>4. \A i \in 1 .. Len(pending') : i = Len(pending) + 1 \/ i \in 1 .. Len(pending)
  BY <1>1, <1>2
<1>5. ~InHand
  BY DEF RequestTypes, InHand
<1>6. \A i \in 1 .. Len(pending) : outcome[pending[i]] = "none"
  BY <1>5 DEF RunInv, QueueFresh
<1>7. QueueFresh'
  BY <1>2, <1>3, <1>4, <1>6 DEF QueueFresh
<1>8. QueueOnce'
  BY <1>2, <1>3, <1>4 DEF RunInv, QueueOnce
<1>9. FilesFirst'
  <2>1. \A q \in Requests \ {r} : file'[q] = file[q]
    BY <1>1
  <2>2. file'[r] = to
    BY <1>1 DEF Requests
  <2>3. ASSUME NEW q \in Runs \cup Commands, file'[q] \in {"none", "written"},
               NEW i \in 1 .. Len(pending')
        PROVE  pending'[i] # q
    <3>1. q # r /\ file[q] = file'[q]
      BY <2>1, <2>2, <2>3 DEF Requests
    <3> QED
      BY <1>2, <1>4, <2>3, <3>1 DEF RunInv, FilesFirst
  <2>4. ASSUME NEW q \in Runs \cup Commands, file'[q] # "gone"
        PROVE  outcome'[q] = "none"
    BY <1>3, <2>1, <2>4 DEF RunInv, FilesFirst, Requests
  <2> QED
    BY <2>3, <2>4 DEF FilesFirst
<1> QED
  BY <1>7, <1>8, <1>9 DEF RunInv, NeverAgain

LEMMA RunsKept ==
    LaunchTypes /\ RequestTypes /\ RunInv /\ [Next]_vars => RunInv'
<1> SUFFICES ASSUME LaunchTypes, RequestTypes, RunInv, [Next]_vars
             PROVE  RunInv'
  OBVIOUS
<1>0. /\ op \in [Launchers -> [at : Steps, worker : {0} \cup Workers]]
      /\ file \in [Requests -> Files] /\ outcome \in [Requests -> Outcomes]
      /\ pending \in Seq(Runs \cup Commands) /\ todo \subseteq Runs \cup Approvals
      /\ op["daemon"].at # "idle" => pc = "runs" /\ pending # << >>
      /\ "daemon" \in Launchers
  BY DEF LaunchTypes, RequestTypes, Launchers
<1>3. ASSUME NEW x \in Launchers, Claim(x) \/ ClaimUnheard(x) \/ Release(x)
      PROVE  RunInv'
  <2>1. op[x].at # "idle" /\ UNCHANGED pc
    BY <1>3 DEF Claim, ClaimUnheard, Release
  <2>2. CASE Ended(x)
    BY <2>1, <2>2, EndedKeeps
  <2>3. CASE op[x].at = "claim" /\ Goto(x, "create") /\ UNCHANGED requests
    BY <1>0, <2>1, <2>3, RunsRest DEF Goto, requests, InHand
  <2> QED
    BY <1>3, <2>2, <2>3 DEF Claim, ClaimUnheard, NoAnswer, Release
<1>4. CASE ReadClaim
  <2>1. op["daemon"].at # "idle" /\ UNCHANGED pc
    BY <1>4 DEF ReadClaim
  <2>2. CASE Ended("daemon")
    BY <1>0, <2>1, <2>2, EndedKeeps
  <2>3. CASE op["daemon"].at = "read" /\ Goto("daemon", "claim") /\ UNCHANGED requests
    BY <1>0, <2>1, <2>3, RunsRest DEF Goto, requests, InHand
  <2> QED
    BY <1>4, <2>2, <2>3 DEF ReadClaim
<1>5. ASSUME NEW x \in Launchers, Create(x)
      PROVE  RunInv'
  <2>1. op[x].at = "create" /\ UNCHANGED <<pc, pending, file, todo>>
    BY <1>5 DEF Create
  <2>2. \A y \in Launchers \ {x} : op'[y] = op[y]
    BY <1>0, <1>5 DEF Create, Goto
  <2>3. CASE UNCHANGED outcome
    <3>1. (~InHand /\ x = "daemon") \/ op'["daemon"] = op["daemon"]
      BY <1>0, <2>1, <2>2 DEF InHand
    <3>2. QueueFresh'
      BY <2>1, <2>3, <3>1 DEF RunInv, QueueFresh, InHand
    <3> QED
      BY <2>1, <2>3, <3>2 DEF RunInv, QueueOnce, FilesFirst, ListedFiles, NeverAgain
  <2>4. CASE x = "daemon" /\ Started(x) /\ op'[x].at = "persist"
    <3> DEFINE r == pending[1]
    <3>1. /\ pc = "runs" /\ ~InHand /\ InHand' /\ Len(pending) > 0 /\ Len(pending) \in Nat
          /\ r \in Runs \cup Commands /\ r = Head(pending)
      BY <1>0, <2>1, <2>4 DEF InHand
    <3>2. outcome[r] = "none"
      BY <3>1 DEF RunInv, QueueFresh
    <3>3. outcome' = [outcome EXCEPT ![r] = "started"]
      BY <2>4, <3>1, <3>2 DEF Started
    <3>4. \A q \in Requests \ {r} : outcome'[q] = outcome[q]
      BY <1>0, <3>3
    <3>5. file[r] = "gone"
      <4>1. file[r] \notin {"none", "written"}
        BY <3>1 DEF RunInv, FilesFirst
      <4>2. file[r] # "taken"
        BY <3>1 DEF RunInv, ListedFiles, Requests
      <4> QED
        BY <1>0, <3>1, <4>1, <4>2 DEF Files, Requests
    <3>6. \A i \in 1 .. Len(pending) : i > 1 => pending[i] \in Requests \ {r}
      BY <1>0, <3>1 DEF RunInv, QueueOnce, Requests
    <3>7. QueueFresh'
      BY <2>1, <3>1, <3>4, <3>6 DEF RunInv, QueueFresh
    <3>8. FilesFirst'
      <4> HIDE DEF r
      <4> QED
        BY <2>1, <3>4, <3>5 DEF RunInv, FilesFirst, Requests
    <3>9. NeverAgain'
      BY <1>0, <3>3, <3>4 DEF RunInv, NeverAgain
    <3> QED
      BY <2>1, <3>7, <3>8, <3>9 DEF RunInv, QueueOnce, ListedFiles
  <2>5. CASE x = "daemon" /\ Started(x) /\ ~UNCHANGED outcome
    BY <1>0, <1>5, <2>4, <2>5 DEF Create
  <2>6. UNCHANGED outcome \/ (x = "daemon" /\ Started(x))
    BY <1>5 DEF Create, Started
  <2> QED
    BY <2>3, <2>5, <2>6
<1>6. ASSUME NEW x \in Launchers, Persist(x)
      PROVE  RunInv'
  <2>1. op[x].at = "persist" /\ UNCHANGED pc
    BY <1>6 DEF Persist
  <2>2. \A y \in Launchers \ {x} : op'[y] = op[y]
    BY <1>0, <1>6 DEF Persist
  <2>3. CASE x = "daemon" /\ op'[x] = Idle /\ Close(Head(pending), "started") /\ UNCHANGED <<file, todo>>
    <3>1. pc = "runs" /\ pending # << >> /\ op'["daemon"].at = "idle"
      BY <1>0, <2>1, <2>3 DEF Idle
    <3> QED
      BY <2>1, <2>3, <3>1, CloseKeeps
  <2>4. CASE UNCHANGED requests /\ (x = "daemon" => op'[x].at = "release")
    <3>1. InHand => InHand'
      BY <1>0, <2>1, <2>2, <2>4 DEF InHand
    <3> QED
      BY <2>1, <2>4, <3>1, RunsRest DEF requests
  <2> QED
    BY <1>0, <1>6, <2>1, <2>3, <2>4 DEF Persist
<1>7. CASE TurnAway \/ ActiveWorker \/ BranchTaken
  <2>1. /\ pc = "runs" /\ pending # << >> /\ op["daemon"].at = "idle"
        /\ UNCHANGED <<op, file, todo, pc>> /\ Close(Head(pending), "refused")
    BY <1>7 DEF TurnAway, ActiveWorker, BranchTaken, NextRun
  <2> QED
    BY <2>1, CloseKeeps
<1>8. CASE Proceed
  BY <1>0, <1>8, RunsRest DEF Proceed, NextRun, Goto, requests, InHand
<1>9. ASSUME NEW r \in Requests, TakeCommand(r)
      PROVE  RunInv'
  <2>1. QueueFresh' /\ QueueOnce' /\ FilesFirst' /\ NeverAgain'
    BY <1>9, QueuedKeeps DEF TakeCommand
  <2>2. todo = {}
    BY <1>9 DEF TakeCommand, RunInv, ListedFiles
  <2>3. ListedFiles'
    BY <1>0, <1>9, <2>2 DEF TakeCommand, RunInv, ListedFiles
  <2> QED
    BY <2>1, <2>3 DEF RunInv
<1>10. ASSUME NEW r \in Requests, TakeFile(r)
      PROVE  RunInv'
  <2>1. file[r] = "written" /\ r \in todo /\ UNCHANGED <<op, outcome, pc>> /\ pc = "drain"
    BY <1>10 DEF TakeFile, RunInv, ListedFiles
  <2>2. CASE r \in Runs
    <3>1. pending' = Append(pending, r) /\ file' = [file EXCEPT ![r] = "taken"] /\ UNCHANGED todo
      BY <1>10, <2>2 DEF TakeFile, Queued
    <3>2. QueueFresh' /\ QueueOnce' /\ FilesFirst' /\ NeverAgain'
      BY <2>1, <2>2, <3>1, QueuedKeeps
    <3>3. ListedFiles'
      BY <1>0, <2>1, <3>1 DEF RunInv, ListedFiles
    <3> QED
      BY <3>2, <3>3 DEF RunInv
  <2>3. CASE r \notin Runs
    <3>1. /\ UNCHANGED pending /\ todo' \subseteq todo
          /\ \/ file' = [file EXCEPT ![r] = "taken"] /\ UNCHANGED todo
             \/ file' = file /\ todo' = todo \ {r}
      BY <1>10, <2>3 DEF TakeFile
    <3>2. r \notin Runs \cup Commands
      BY <1>0, <2>1, <2>3, DispatchAssumption
    <3>3. \A q \in Runs \cup Commands : file'[q] = file[q]
      BY <1>0, <3>1, <3>2 DEF Requests
    <3>4. ListedFiles'
      <4>1. CASE file' = [file EXCEPT ![r] = "taken"] /\ UNCHANGED todo
        BY <1>0, <2>1, <4>1 DEF RunInv, ListedFiles
      <4>2. CASE UNCHANGED file /\ todo' = todo \ {r}
        BY <2>1, <4>2 DEF RunInv, ListedFiles
      <4> QED
        BY <3>1, <4>1, <4>2
    <3> QED
      BY <2>1, <3>1, <3>3, <3>4 DEF RunInv, QueueFresh, QueueOnce, FilesFirst, NeverAgain, InHand
  <2> QED
    BY <2>2, <2>3
<1>11. ASSUME NEW r \in Requests, RemoveFile(r)
      PROVE  RunInv'
  <2>1. /\ file[r] = "taken" /\ file' = [file EXCEPT ![r] = "gone"] /\ todo' = todo \ {r}
        /\ UNCHANGED <<op, pending, outcome, pc>>
    BY <1>11 DEF RemoveFile, Removed
  <2>2. FilesFirst'
    BY <1>0, <2>1 DEF RunInv, FilesFirst, Requests
  <2>3. ListedFiles'
    BY <1>0, <2>1 DEF RunInv, ListedFiles
  <2> QED
    BY <2>1, <2>2, <2>3 DEF RunInv, QueueFresh, QueueOnce, NeverAgain, InHand
<1>12. ASSUME NEW r \in Requests, Write(r)
      PROVE  RunInv'
  <2>1. /\ file[r] = "none" /\ file' = [file EXCEPT ![r] = "written"]
        /\ UNCHANGED <<op, pending, outcome, pc, todo>>
    BY <1>12 DEF Write
  <2>2. FilesFirst'
    BY <1>0, <2>1 DEF RunInv, FilesFirst, Requests
  <2>3. ListedFiles'
    BY <1>0, <2>1 DEF RunInv, ListedFiles
  <2> QED
    BY <2>1, <2>2, <2>3 DEF RunInv, QueueFresh, QueueOnce, NeverAgain, InHand
<1>13. ASSUME NEW r \in Requests, SkipFile(r)
      PROVE  RunInv'
  <2>1. /\ file[r] = "written" /\ todo' = todo \ {r}
        /\ UNCHANGED <<op, pending, outcome, pc, file>>
    BY <1>13 DEF SkipFile
  <2> QED
    BY <2>1 DEF RunInv, QueueFresh, QueueOnce, FilesFirst, ListedFiles, NeverAgain, InHand
<1>14. CASE ListFiles
  <2>1. /\ UNCHANGED <<op, pending, outcome, file>> /\ pc' = "drain" /\ todo = {}
        /\ \A r \in todo' : file[r] = "written"
    BY <1>14 DEF ListFiles, RunInv, ListedFiles
  <2> QED
    BY <2>1 DEF RunInv, QueueFresh, QueueOnce, FilesFirst, ListedFiles, NeverAgain, InHand
<1>15. CASE Observe \/ Start \/ Save
  <2>1. UNCHANGED <<file, pending, outcome, todo, op>> /\ todo = {}
    BY <1>15 DEF Observe, Start, Save, requests, RunInv, ListedFiles
  <2> QED
    BY <2>1, RunsRest DEF InHand
<1>16. CASE Crash
  <2>1. pending' = << >> /\ todo' = {}
    BY <1>16 DEF Crash
  <2>2. \A r \in Requests : file'[r] = CASE file[r] = "taken" -> "written"
                     [] r \in Commands /\ file[r] = "written" -> "gone"
                     [] OTHER -> file[r]
    BY <1>16 DEF Crash
  <2>3. \A r \in Requests : /\ outcome'[r] \in {outcome[r], "lost"}
                            /\ file'[r] # "gone" => outcome'[r] = outcome[r]
    BY <1>16 DEF Crash
  <2>4. FilesFirst'
    BY <2>1, <2>2, <2>3 DEF RunInv, FilesFirst, Requests
  <2>5. ListedFiles'
    BY <2>1, <2>2 DEF ListedFiles
  <2>6. NeverAgain'
    BY <2>3 DEF RunInv, NeverAgain
  <2> QED
    BY <2>1, <2>4, <2>5, <2>6 DEF RunInv, QueueFresh, QueueOnce
<1>17. CASE UiLaunch \/ (\E x \in Tools : ToolLaunch(x)) \/ (\E x \in Launchers : LauncherDies(x))
  <2>1. op'["daemon"] = op["daemon"] /\ UNCHANGED <<file, pending, outcome, todo, pc>>
    BY <1>0, <1>17, DispatchAssumption DEF UiLaunch, ToolLaunch, LauncherDies, Goto, Launchers, requests
  <2> QED
    BY <2>1, RunsRest DEF InHand
<1>18. ASSUME \/ Unpinned \/ Scanned \/ Lapse \/ OtherClaims \/ Closes
              \/ \E w \in Workers : SessionEnds(w) \/ CleanedUp(w)
              \/ UNCHANGED vars
       PROVE  UNCHANGED <<file, pending, outcome, todo, op, pc>>
  BY <1>18 DEF Unpinned, Scanned, Lapse, OtherClaims, Closes, SessionEnds,
               CleanedUp, dropr, claims, registry, requests, ledgers, vars
<1>19. ASSUME UNCHANGED <<file, pending, outcome, todo, op, pc>>
       PROVE  RunInv'
  BY <1>19, RunsRest DEF InHand
<1> QED
  BY <1>3, <1>4, <1>5, <1>6, <1>7, <1>8, <1>9, <1>10, <1>11, <1>12, <1>13, <1>14, <1>15, <1>16,
     <1>17, <1>18, <1>19 DEF Next, Pass, LaunchStep, Launchers

-----------------------------------------------------------------------------
(* Approvals                                                               *)

(* Memory knows what the file knows, and a request is in the file when its *)
(* own may go.                                                             *)
NotedInv ==
    /\ saved.noted \subseteq ledger.noted
    /\ \A r \in Approvals : file[r] \in {"taken", "gone"} => r \in saved.noted

LEMMA NotedKept ==
    LaunchTypes /\ RequestTypes /\ LedgerTypes /\ NotedInv /\ [Next]_vars => NotedInv'
<1> SUFFICES ASSUME LaunchTypes, RequestTypes, LedgerTypes, NotedInv, [Next]_vars
             PROVE  NotedInv'
  OBVIOUS
<1>0. /\ file \in [Requests -> Files] /\ ledger \in Ledgers /\ saved \in Ledgers
      /\ todo \subseteq Runs \cup Approvals
  BY DEF RequestTypes, LedgerTypes
<1>1. ASSUME ledger'.noted = ledger.noted, saved' = saved \/ saved' = ledger',
             \A r \in Approvals : file'[r] \in {"taken", "gone"}
                                  => file[r] \in {"taken", "gone"}
      PROVE  NotedInv'
  BY <1>1 DEF NotedInv
<1>2. ASSUME NEW r \in Requests, TakeFile(r)
      PROVE  NotedInv'
  <2>1. CASE r \in Runs
    <3>1. \A q \in Approvals : file'[q] = file[q]
      BY <1>0, <1>2, <2>1, DispatchAssumption DEF TakeFile, Requests
    <3> QED
      BY <1>1, <1>2, <2>1, <3>1 DEF TakeFile, ledgers
  <2>2. CASE r \notin Runs
    <3>1. ledger'.noted = ledger.noted \cup {r}
      BY <1>0, <1>2, <2>2 DEF TakeFile, Ledgers
    <3>2. CASE saved' = ledger' /\ file' = [file EXCEPT ![r] = "taken"]
      BY <1>0, <3>1, <3>2 DEF NotedInv, Requests
    <3>3. CASE UNCHANGED <<saved, file>>
      BY <3>1, <3>3 DEF NotedInv
    <3> QED
      BY <1>2, <2>2, <3>2, <3>3 DEF TakeFile, Checkpoint
  <2> QED
    BY <2>1, <2>2
<1>3. CASE \E r \in Requests : TakeCommand(r) \/ RemoveFile(r) \/ Write(r)
  <2>1. PICK r \in Requests : TakeCommand(r) \/ RemoveFile(r) \/ Write(r)
    BY <1>3
  <2>2. UNCHANGED <<ledger, saved>>
    BY <2>1 DEF TakeCommand, RemoveFile, Write, ledgers
  <2>3. \A q \in Approvals : file'[q] \in {"taken", "gone"} => file[q] \in {"taken", "gone"}
    BY <1>0, <2>1, DispatchAssumption DEF TakeCommand, RemoveFile, Removed, Write, Requests
  <2> QED
    BY <1>1, <2>2, <2>3
<1>4. CASE Crash
  <2>1. ledger' = saved /\ saved' = saved
    BY <1>4 DEF Crash
  <2>2. \A r \in Requests : file'[r] = CASE file[r] = "taken" -> "written"
                     [] r \in Commands /\ file[r] = "written" -> "gone"
                     [] OTHER -> file[r]
    BY <1>4 DEF Crash
  <2>3. \A q \in Approvals : file'[q] \in {"taken", "gone"} => file[q] \in {"taken", "gone"}
    BY <2>2, DispatchAssumption DEF Requests
  <2> QED
    BY <2>1, <2>3 DEF NotedInv
<1>5. CASE Start
  BY <1>5 DEF Start, NotedInv, requests
<1>6. CASE Observe \/ Save \/ BranchTaken \/ Proceed
  <2>1. ledger'.noted = ledger.noted
    <3>1. CASE Observe
      BY <1>0, <3>1 DEF Observe, Ledgers
    <3>2. CASE Save
      BY <1>0, <3>2 DEF Save, Ledgers
    <3>3. CASE BranchTaken \/ Proceed
      BY <1>0, <3>3 DEF BranchTaken, Proceed, Ledgers
    <3> QED
      BY <1>6, <3>1, <3>2, <3>3
  <2>2. UNCHANGED file /\ (saved' = saved \/ saved' = ledger')
    BY <1>6 DEF Observe, Save, BranchTaken, Proceed, requests
  <2> QED
    BY <1>1, <2>1, <2>2
<1>7. ASSUME NEW x \in Launchers, Persist(x)
      PROVE  NotedInv'
  <2>1. ledger'.noted = ledger.noted
    <3>1. CASE UNCHANGED ledger
      BY <3>1
    <3>2. CASE Entered(op[x].worker)
      BY <1>0, <3>2 DEF Entered, Ledgers
    <3> QED
      BY <1>7, <3>1, <3>2 DEF Persist
  <2>2. UNCHANGED <<file, saved>>
    BY <1>7 DEF Persist, requests
  <2> QED
    BY <1>1, <2>1, <2>2
<1>8. ASSUME NEW x \in Launchers, Claim(x) \/ ClaimUnheard(x) \/ Release(x) \/ ReadClaim
      PROVE  NotedInv'
  <2>1. UNCHANGED <<ledger, saved, file>>
    BY <1>8 DEF Claim, ClaimUnheard, NoAnswer, Release, ReadClaim, Ended, requests, ledgers
  <2> QED
    BY <2>1 DEF NotedInv
<1>9. ASSUME \/ ListFiles \/ TurnAway \/ ActiveWorker \/ UiLaunch \/ Unpinned
             \/ Scanned \/ Lapse \/ OtherClaims \/ Closes
             \/ \E r \in Requests : SkipFile(r)
             \/ \E x \in Launchers : Create(x) \/ LauncherDies(x)
             \/ \E x \in Tools : ToolLaunch(x)
             \/ \E w \in Workers : SessionEnds(w) \/ CleanedUp(w)
             \/ UNCHANGED vars
      PROVE  UNCHANGED <<file, ledger, saved>>
  BY <1>9 DEF ListFiles, TurnAway, ActiveWorker, UiLaunch, Unpinned, Scanned,
              Lapse, OtherClaims, Closes, SkipFile, Create, LauncherDies,
              ToolLaunch, SessionEnds, CleanedUp, dropr, claims, registry,
              requests, ledgers, vars
<1>10. ASSUME UNCHANGED <<file, ledger, saved>>
       PROVE  NotedInv'
  BY <1>10 DEF NotedInv
<1>11. "daemon" \in Launchers
  BY DEF Launchers
<1> QED
  BY <1>2, <1>3, <1>4, <1>5, <1>6, <1>7, <1>8, <1>9, <1>10, <1>11
     DEF Next, Pass, LaunchStep, Launchers

DispatchInv == DispatchTypes /\ ClaimInv /\ RunInv /\ NotedInv

LEMMA DispatchStarts == Init => DispatchInv
<1> SUFFICES ASSUME Init
             PROVE  DispatchInv
  OBVIOUS
<1>1. DispatchTypes
  BY InitTypes
<1>2. ClaimInv
  BY DEF Init, ClaimInv, HoldersClaim, CoveredClaim, OneRuns
<1>3. RunInv
  BY DEF Init, RunInv, QueueFresh, QueueOnce, FilesFirst, ListedFiles, NeverAgain, Requests
<1>4. NotedInv
  BY DEF Init, NotedInv, Requests
<1> QED
  BY <1>1, <1>2, <1>3, <1>4 DEF DispatchInv

(* One task, one worker; one request, one run: whatever the tools, the     *)
(* requests and the bounds, and however launches of the daemon, the UI and *)
(* the command line interleave with crashes, lost answers and lapsed       *)
(* claims (dispatch/claim.rs, overseer/runtime_request.rs).                *)
THEOREM OneTaskOneWorker == Spec => []DispatchSafe
<1>1. Init => DispatchInv
  BY DispatchStarts
<1>2. DispatchInv /\ [Next]_vars => DispatchInv'
  BY TypesKept, ClaimKept, RunsKept, NotedKept DEF DispatchInv, DispatchTypes
<1>3. DispatchInv => DispatchSafe
  <2>1. DispatchInv => OneCovered
    BY ClaimCovers DEF DispatchInv
  <2>2. DispatchInv => RequestsRunOnce
    BY DEF DispatchInv, RunInv, NeverAgain, NotedInv, RequestsRunOnce
  <2> QED
    BY <2>1, <2>2 DEF DispatchSafe
<1> QED
  BY <1>1, <1>2, <1>3, PTL DEF Spec

-----------------------------------------------------------------------------
(* The task pane: types                                                    *)

BoardTypes ==
    /\ boardTask \in [Tasks -> [status : Statuses, claim : Claimants]]
    /\ turn \in Nat /\ parents \subseteq Tasks
FetchTypes == current \in Fetches /\ late \in Fetches /\ shownAt \in Nat
RowTypes == listRows \in [Tasks -> Shown] /\ known \subseteq Tasks
ThreadTypes ==
    /\ thread \in [Threads -> Launches]
    /\ jobs \in [Tasks -> Threads \cup {NoThread}]
    /\ workers \subseteq Tasks
PaneTypes == BoardTypes /\ FetchTypes /\ RowTypes /\ ThreadTypes

LEMMA PaneStarts == TaskListInit => PaneTypes
<1> SUFFICES ASSUME TaskListInit
             PROVE  PaneTypes
  OBVIOUS
<1>1. BoardTypes
  BY DEF TaskListInit, BoardTypes, Statuses, Claimants
<1>2. FetchTypes
  BY DEF TaskListInit, FetchTypes, Fetches, NoFetch, FetchSteps, Unlisted, Shown
<1>3. RowTypes
  BY DEF TaskListInit, RowTypes, Unlisted, Shown
<1>4. ThreadTypes
  BY DEF TaskListInit, ThreadTypes
<1> QED
  BY <1>1, <1>2, <1>3, <1>4 DEF PaneTypes

LEMMA BoardTypesKept ==
    BoardTypes /\ ThreadTypes /\ [TaskListStep]_taskVars => BoardTypes'
<1> SUFFICES ASSUME BoardTypes, ThreadTypes, [TaskListStep]_taskVars
             PROVE  BoardTypes'
  OBVIOUS
<1>1. ASSUME NEW t \in Tasks, NEW status \in Statuses, NEW claim \in Claimants,
             Sets(t, status, claim)
      PROVE  BoardTypes'
  BY <1>1 DEF Sets, BoardTypes
<1>2. ASSUME BoardStays
      PROVE  BoardTypes'
  BY <1>2 DEF BoardStays, BoardTypes
<1>3. ASSUME NEW t \in Tasks, OtherMoves(t) \/ TaskEnds(t)
      PROVE  BoardTypes'
  BY <1>1, <1>3 DEF OtherMoves, TaskEnds, Statuses, Claimants
<1>4. ASSUME NEW h \in Threads, TaskClaims(h) \/ TaskSpawns(h)
      PROVE  BoardTypes'
  <2>1. thread[h].task \in Tasks
    BY DEF ThreadTypes, Launches
  <2> QED
    BY <1>1, <1>2, <1>4, <2>1 DEF TaskClaims, TaskSpawns, Statuses, Claimants
<1>5. ASSUME \/ CurrentStep \/ LateStep \/ TaskRefreshes \/ RefreshesLate \/ TaskSettles
             \/ \E t \in Tasks : Merges(t)
             \/ \E t \in Tasks, h \in Threads : Begins(t, h)
             \/ \E h \in Threads : Resolves(h) \/ Drains(h)
             \/ UNCHANGED taskVars
      PROVE  UNCHANGED <<boardTask, turn, parents>>
  BY <1>5 DEF CurrentStep, LateStep, TaskRefreshes, RefreshesLate,
              TaskSettles, Merges, Begins, Resolves, Drains, Quietly,
              BoardStays, boardOfTasks, pane, fetches, launches, taskVars,
              FetchStep
<1> QED
  BY <1>2, <1>3, <1>4, <1>5 DEF TaskListStep, ThreadStep, BoardStays

LEMMA ReadsTyped ==
    ASSUME BoardTypes, NEW fetch \in Fetches, NEW next,
           \/ \E seen \in [Tasks -> Shown] :
                 next = [fetch EXCEPT !.step = "read", !.at = turn, !.seen = seen]
           \/ \E step \in {"failed", "hung"} : next = [fetch EXCEPT !.step = step]
           \/ \E walked \in SUBSET Tasks :
                 next = [fetch EXCEPT !.step = "answered", !.subtrees = walked]
    PROVE  next \in Fetches
<1>1. ASSUME NEW seen \in [Tasks -> Shown],
             next = [fetch EXCEPT !.step = "read", !.at = turn, !.seen = seen]
      PROVE  next \in Fetches
  BY <1>1 DEF Fetches, FetchSteps, BoardTypes
<1>2. ASSUME NEW step \in {"failed", "hung"}, next = [fetch EXCEPT !.step = step]
      PROVE  next \in Fetches
  BY <1>2 DEF Fetches, FetchSteps
<1>3. ASSUME NEW walked \in SUBSET Tasks,
             next = [fetch EXCEPT !.step = "answered", !.subtrees = walked]
      PROVE  next \in Fetches
  BY <1>3 DEF Fetches, FetchSteps
<1> QED
  BY <1>1, <1>2, <1>3

LEMMA FetchTypesKept ==
    BoardTypes /\ FetchTypes /\ [TaskListStep]_taskVars => FetchTypes'
<1> SUFFICES ASSUME BoardTypes, FetchTypes, [TaskListStep]_taskVars
             PROVE  FetchTypes'
  OBVIOUS
<1>0. NewFetch \in Fetches /\ NoFetch \in Fetches
  BY DEF NewFetch, NoFetch, Fetches, FetchSteps, Unlisted, Shown
<1> DEFINE seen == [t \in Tasks |-> Displayed(t)]
<1>4. seen \in [Tasks -> Shown]
  BY DEF BoardTypes, Displayed, Statuses, Shown
<1>5. CASE CurrentStep
  <2>1. \/ current' = [current EXCEPT !.step = "read", !.at = turn, !.seen = seen]
        \/ \E step \in {"failed", "hung"} : current' = [current EXCEPT !.step = step]
        \/ \E walked \in SUBSET Tasks :
              current' = [current EXCEPT !.step = "answered", !.subtrees = walked]
    <3>1. CASE Reads(current)
      BY <3>1 DEF Reads
    <3>2. CASE Walks(current)
      BY <3>2 DEF Walks, BoardTypes
    <3> QED
      BY <1>5, <3>1, <3>2 DEF CurrentStep, FetchStep
  <2>3. current' \in Fetches
    <3> HIDE DEF seen
    <3> QED
      BY <1>4, <2>1, ReadsTyped DEF FetchTypes
  <2> QED
    BY <1>5, <2>3 DEF CurrentStep, FetchTypes, pane
<1>6. CASE LateStep
  <2>1. \/ late' = [late EXCEPT !.step = "read", !.at = turn, !.seen = seen]
        \/ \E step \in {"failed", "hung"} : late' = [late EXCEPT !.step = step]
        \/ \E walked \in SUBSET Tasks :
              late' = [late EXCEPT !.step = "answered", !.subtrees = walked]
    <3>1. CASE Reads(late)
      BY <3>1 DEF Reads
    <3>2. CASE Walks(late)
      BY <3>2 DEF Walks, BoardTypes
    <3> QED
      BY <1>6, <3>1, <3>2 DEF LateStep, FetchStep
  <2>3. late' \in Fetches
    <3> HIDE DEF seen
    <3> QED
      BY <1>4, <2>1, ReadsTyped DEF FetchTypes
  <2> QED
    BY <1>6, <2>3 DEF LateStep, FetchTypes, pane
<1>7. CASE TaskRefreshes
  <2>1. current' \in Fetches /\ late' \in Fetches
    BY <1>0, <1>7 DEF TaskRefreshes, FetchTypes
  <2>2. current.at \in Nat
    BY DEF FetchTypes, Fetches
  <2>3. shownAt' \in Nat
    BY <1>7, <2>2 DEF TaskRefreshes, TaskIngests, Taken, Shows, pane, FetchTypes
  <2> QED
    BY <2>1, <2>3 DEF FetchTypes
<1>8. CASE RefreshesLate \/ TaskSettles
  BY <1>0, <1>8 DEF RefreshesLate, TaskSettles, FetchTypes, pane
<1>9. ASSUME \/ \E t \in Tasks : OtherMoves(t) \/ Merges(t) \/ TaskEnds(t)
             \/ \E t \in Tasks, h \in Threads : Begins(t, h)
             \/ \E h \in Threads : Resolves(h) \/ TaskClaims(h) \/ TaskSpawns(h) \/ Drains(h)
             \/ UNCHANGED taskVars
      PROVE  UNCHANGED <<current, late, shownAt>>
  BY <1>9 DEF OtherMoves, Merges, TaskEnds, Begins, Resolves, TaskClaims,
              TaskSpawns, Drains, Quietly, BoardStays, boardOfTasks, pane,
              fetches, launches, taskVars, FetchStep
<1> QED
  BY <1>5, <1>6, <1>7, <1>8, <1>9 DEF TaskListStep, ThreadStep, FetchTypes

LEMMA RowTypesKept ==
    FetchTypes /\ RowTypes /\ ThreadTypes /\ [TaskListStep]_taskVars => RowTypes'
<1> SUFFICES ASSUME FetchTypes, RowTypes, ThreadTypes, [TaskListStep]_taskVars
             PROVE  RowTypes'
  OBVIOUS
<1>1. CASE TaskRefreshes
  <2>1. current.seen \in [Tasks -> Shown] /\ current.subtrees \subseteq Tasks
    BY DEF FetchTypes, Fetches
  <2>2. Unlisted \in [Tasks -> Shown]
    BY DEF Unlisted, Shown
  <2> QED
    BY <1>1, <2>1, <2>2 DEF TaskRefreshes, TaskIngests, Taken, Shows, pane, RowTypes
<1>2. ASSUME NEW t \in Tasks, NEW h \in Threads, Begins(t, h)
      PROVE  RowTypes'
  BY <1>2 DEF Begins, RowTypes, Shown
<1>3. ASSUME NEW h \in Threads, Drains(h)
      PROVE  RowTypes'
  <2>1. thread[h].task \in Tasks /\ thread[h].was \in Shown
    BY DEF ThreadTypes, Launches
  <2>2. Reverted(thread[h]) \in Shown
    BY <2>1 DEF Reverted, RowTypes
  <2> QED
    BY <1>3, <2>1, <2>2 DEF Drains, RowTypes
<1>4. ASSUME \/ CurrentStep \/ LateStep \/ RefreshesLate \/ TaskSettles
             \/ \E t \in Tasks : OtherMoves(t) \/ Merges(t) \/ TaskEnds(t)
             \/ \E h \in Threads : Resolves(h) \/ TaskClaims(h) \/ TaskSpawns(h)
             \/ UNCHANGED taskVars
      PROVE  UNCHANGED <<listRows, known>>
  BY <1>4 DEF CurrentStep, LateStep, RefreshesLate, TaskSettles, OtherMoves,
              Merges, TaskEnds, Resolves, TaskClaims, TaskSpawns, Quietly,
              BoardStays, boardOfTasks, pane, fetches, launches, taskVars,
              FetchStep
<1> QED
  BY <1>1, <1>2, <1>3, <1>4 DEF TaskListStep, ThreadStep, RowTypes

LEMMA ThreadTypesKept ==
    RowTypes /\ ThreadTypes /\ [TaskListStep]_taskVars => ThreadTypes'
<1> SUFFICES ASSUME RowTypes, ThreadTypes, [TaskListStep]_taskVars
             PROVE  ThreadTypes'
  OBVIOUS
<1>0. /\ thread \in [Threads -> Launches]
      /\ jobs \in [Tasks -> Threads \cup {NoThread}] /\ workers \subseteq Tasks
      /\ \A h \in Threads : thread[h].task \in Tasks
  BY DEF ThreadTypes, Launches
<1>1. ASSUME NEW h \in Threads, NEW l \in Launches, thread' = [thread EXCEPT ![h] = l]
      PROVE  thread' \in [Threads -> Launches]
  BY <1>0, <1>1
<1>8. ASSUME NEW h \in Threads, NEW step \in LaunchSteps, Goes(h, step)
      PROVE  thread' \in [Threads -> Launches]
  <2>1. thread[h] \in Launches
    BY <1>0
  <2>2. [thread[h] EXCEPT !.step = step] \in Launches
    BY <2>1 DEF Launches
  <2> QED
    BY <1>1, <1>8, <2>2 DEF Goes
<1>2. ASSUME NEW t \in Tasks, NEW h \in Threads, Begins(t, h)
      PROVE  ThreadTypes'
  <2>1. ASSUME NEW was \in Shown, NEW b \in BOOLEAN
        PROVE  [step |-> "resolve", task |-> t, was |-> was, known |-> b, named |-> FALSE]
               \in Launches
    BY DEF Launches, LaunchSteps
  <2> DEFINE knew == t \in known
  <2>2. knew \in BOOLEAN /\ listRows[t] \in Shown
    BY DEF RowTypes
  <2>3. thread' = [thread EXCEPT ![h] =
                     [step |-> "resolve", task |-> t, was |-> listRows[t],
                      known |-> knew, named |-> FALSE]]
    BY <1>2 DEF Begins
  <2> HIDE DEF knew
  <2>4. thread' \in [Threads -> Launches]
    BY <1>0, <2>1, <2>2, <2>3
  <2> QED
    BY <1>0, <1>2, <2>4 DEF Begins, ThreadTypes
<1>3. ASSUME NEW h \in Threads, Resolves(h)
      PROVE  ThreadTypes'
  <2>1. thread[h] \in Launches
    BY <1>0
  <2>3. [thread[h] EXCEPT !.step = "claim", !.named = TRUE] \in Launches
    BY <2>1 DEF Launches, LaunchSteps
  <2>4. "claim" \in LaunchSteps /\ "refused" \in LaunchSteps
    BY DEF LaunchSteps
  <2>2. thread' \in [Threads -> Launches]
    BY <1>1, <1>3, <1>8, <2>3, <2>4 DEF Resolves
  <2> QED
    BY <1>0, <1>3, <2>2 DEF Resolves, Quietly, ThreadTypes
<1>4. ASSUME NEW h \in Threads, TaskClaims(h) \/ TaskSpawns(h)
      PROVE  ThreadTypes'
  <2>1. thread' \in [Threads -> Launches]
    <3>1. \E step \in LaunchSteps : Goes(h, step)
      BY <1>4 DEF TaskClaims, TaskSpawns, LaunchSteps
    <3> QED
      BY <1>8, <3>1
  <2>2. workers' \subseteq Tasks
    BY <1>0, <1>4 DEF TaskClaims, TaskSpawns
  <2> QED
    BY <1>0, <1>4, <2>1, <2>2 DEF TaskClaims, TaskSpawns, Quietly, ThreadTypes
<1>5. ASSUME NEW h \in Threads, Drains(h)
      PROVE  ThreadTypes'
  <2>3. thread[h] \in Launches
    BY <1>0
  <2>4. [thread[h] EXCEPT !.step = "idle", !.was = "unlisted", !.known = FALSE, !.named = FALSE]
        \in Launches
    BY <2>3 DEF Launches, LaunchSteps, Shown
  <2>1. thread' \in [Threads -> Launches]
    BY <1>1, <1>5, <2>4 DEF Drains
  <2>2. jobs' \in [Tasks -> Threads \cup {NoThread}]
    BY <1>0, <1>5 DEF Drains
  <2> QED
    BY <1>0, <1>5, <2>1, <2>2 DEF Drains, ThreadTypes
<1>6. ASSUME NEW t \in Tasks, Merges(t)
      PROVE  ThreadTypes'
  BY <1>0, <1>6 DEF Merges, ThreadTypes
<1>7. ASSUME \/ CurrentStep \/ LateStep \/ TaskRefreshes \/ RefreshesLate \/ TaskSettles
             \/ \E t \in Tasks : OtherMoves(t) \/ TaskEnds(t)
             \/ UNCHANGED taskVars
      PROVE  UNCHANGED <<thread, jobs, workers>>
  BY <1>7 DEF CurrentStep, LateStep, TaskRefreshes, RefreshesLate,
              TaskSettles, OtherMoves, TaskEnds, Quietly, BoardStays,
              boardOfTasks, pane, fetches, launches, taskVars, FetchStep
<1> QED
  BY <1>2, <1>3, <1>4, <1>5, <1>6, <1>7 DEF TaskListStep, ThreadStep, ThreadTypes

LEMMA PaneTypesKept == PaneTypes /\ [TaskListStep]_taskVars => PaneTypes'
  BY BoardTypesKept, FetchTypesKept, RowTypesKept, ThreadTypesKept DEF PaneTypes

-----------------------------------------------------------------------------
(* The task pane: launches                                                 *)

(* One launch of a task at a time, of a task without a worker until it has *)
(* made it one, and under the pane's claim once that was granted.          *)
LaunchInv ==
    \A h \in Threads :
        /\ thread[h].step # "idle" => jobs[thread[h].task] = h
        /\ thread[h].step \in {"resolve", "claim", "spawn"} => thread[h].task \notin workers
        /\ thread[h].step = "spawn" => boardTask[thread[h].task].claim = "robco-ui"

TaskListInv == PaneTypes /\ LaunchInv /\ WorkersHoldClaims /\ ParentsNamed

LEMMA TaskListStarts == TaskListInit => TaskListInv
<1> SUFFICES ASSUME TaskListInit
             PROVE  TaskListInv
  OBVIOUS
<1>1. PaneTypes
  BY PaneStarts
<1>2. \A h \in Threads : thread[h].step = "idle"
  BY DEF TaskListInit
<1>3. LaunchInv /\ ParentsNamed
  BY <1>2 DEF LaunchInv, ParentsNamed
<1>4. WorkersHoldClaims
  BY DEF TaskListInit, WorkersHoldClaims
<1> QED
  BY <1>1, <1>3, <1>4 DEF TaskListInv

LEMMA LaunchesKept == TaskListInv /\ [TaskListStep]_taskVars => TaskListInv'
<1> SUFFICES ASSUME TaskListInv, [TaskListStep]_taskVars
             PROVE  LaunchInv' /\ WorkersHoldClaims' /\ ParentsNamed'
  BY PaneTypesKept DEF TaskListInv
<1>0. /\ thread \in [Threads -> Launches] /\ \A h \in Threads : thread[h].task \in Tasks
      /\ jobs \in [Tasks -> Threads \cup {NoThread}] /\ workers \subseteq Tasks
      /\ boardTask \in [Tasks -> [status : Statuses, claim : Claimants]]
      /\ NoThread \notin Threads
      /\ LaunchInv /\ WorkersHoldClaims /\ ParentsNamed
  BY TaskListAssumption DEF TaskListInv, PaneTypes, ThreadTypes, BoardTypes, Launches
<1>1. ASSUME NEW t \in Tasks, NEW status, NEW claim, Sets(t, status, claim)
      PROVE  /\ boardTask'[t].claim = claim /\ parents' = parents
             /\ \A q \in Tasks \ {t} : boardTask'[q] = boardTask[q]
  BY <1>0, <1>1 DEF Sets
<1>2. ASSUME NEW t \in Tasks, OtherMoves(t)
      PROVE  LaunchInv' /\ WorkersHoldClaims' /\ ParentsNamed'
  <2>1. boardTask[t].claim # "robco-ui" /\ UNCHANGED <<thread, jobs, workers>>
    BY <1>2 DEF OtherMoves, launches
  <2>2. parents' = parents /\ \A q \in Tasks \ {t} : boardTask'[q] = boardTask[q]
    BY <1>1, <1>2 DEF OtherMoves
  <2> QED
    BY <1>0, <2>1, <2>2 DEF LaunchInv, WorkersHoldClaims, ParentsNamed
<1>3. ASSUME NEW t \in Tasks, TaskEnds(t)
      PROVE  LaunchInv' /\ WorkersHoldClaims' /\ ParentsNamed'
  <2>1. jobs[t] = NoThread /\ t \notin workers /\ UNCHANGED <<thread, jobs, workers>>
    BY <1>3 DEF TaskEnds, launches
  <2>2. parents' = parents /\ \A q \in Tasks \ {t} : boardTask'[q] = boardTask[q]
    BY <1>1, <1>3 DEF TaskEnds
  <2>3. \A h \in Threads : thread[h].step # "idle" => thread[h].task # t
    BY <1>0, <2>1 DEF LaunchInv
  <2> QED
    BY <1>0, <2>1, <2>2, <2>3 DEF LaunchInv, WorkersHoldClaims, ParentsNamed
<1>4. ASSUME NEW t \in Tasks, Merges(t)
      PROVE  LaunchInv' /\ WorkersHoldClaims' /\ ParentsNamed'
  BY <1>0, <1>4 DEF Merges, boardOfTasks, LaunchInv, WorkersHoldClaims, ParentsNamed
<1>5. ASSUME NEW t \in Tasks, NEW h \in Threads, Begins(t, h)
      PROVE  LaunchInv' /\ WorkersHoldClaims' /\ ParentsNamed'
  <2>1. /\ jobs[t] = NoThread /\ t \notin workers
        /\ UNCHANGED <<boardTask, parents, workers>>
        /\ jobs' = [jobs EXCEPT ![t] = h]
    BY <1>5 DEF Begins, Launchable, boardOfTasks
  <2>2. thread'[h].step = "resolve" /\ thread'[h].task = t
    BY <1>0, <1>5 DEF Begins
  <2>3. \A g \in Threads \ {h} : thread'[g] = thread[g]
    BY <1>0, <1>5 DEF Begins
  <2>4. \A g \in Threads : thread[g].step # "idle" => thread[g].task # t
    BY <1>0, <2>1 DEF LaunchInv
  <2>5. LaunchInv'
    BY <1>0, <2>1, <2>2, <2>3, <2>4 DEF LaunchInv
  <2>6. WorkersHoldClaims' /\ ParentsNamed'
    BY <1>0, <2>1, <2>2, <2>3 DEF WorkersHoldClaims, ParentsNamed
  <2> QED
    BY <2>5, <2>6
<1>6. ASSUME NEW h \in Threads, Resolves(h)
      PROVE  LaunchInv' /\ WorkersHoldClaims' /\ ParentsNamed'
  <2>1. thread[h].step = "resolve" /\ UNCHANGED <<boardTask, parents, workers, jobs>>
    BY <1>6 DEF Resolves, Quietly, boardOfTasks
  <2>2. \A g \in Threads \ {h} : thread'[g] = thread[g]
    BY <1>0, <1>6 DEF Resolves, Goes
  <2>3. /\ thread'[h].task = thread[h].task /\ thread'[h].step \in {"claim", "refused"}
        /\ thread'[h].step = "claim" /\ thread'[h].task \in parents => thread'[h].named
    <3>1. CASE Leaf(thread[h]) /\ Goes(h, "claim")
      BY <1>0, <3>1 DEF Leaf, Goes, Launches
    <3>2. CASE thread' = [thread EXCEPT ![h] = [@ EXCEPT !.step = "claim", !.named = TRUE]]
      BY <1>0, <3>2 DEF Launches
    <3>3. CASE Goes(h, "refused")
      BY <1>0, <3>3 DEF Goes, Launches
    <3> QED
      BY <1>6, <3>1, <3>2, <3>3 DEF Resolves
  <2> QED
    BY <1>0, <2>1, <2>2, <2>3 DEF LaunchInv, WorkersHoldClaims, ParentsNamed
<1>7. ASSUME NEW h \in Threads, NEW step, Goes(h, step)
      PROVE  /\ thread'[h].step = step /\ thread'[h].task = thread[h].task
             /\ thread'[h].named = thread[h].named
             /\ \A g \in Threads \ {h} : thread'[g] = thread[g]
  BY <1>0, <1>7 DEF Goes, Launches
<1>8. ASSUME NEW h \in Threads, TaskClaims(h)
      PROVE  LaunchInv' /\ WorkersHoldClaims' /\ ParentsNamed'
  <2> DEFINE t == thread[h].task
  <2>1. thread[h].step = "claim" /\ UNCHANGED <<workers, jobs>> /\ t \in Tasks
    BY <1>0, <1>8 DEF TaskClaims, Quietly
  <2>2. PICK step \in {"spawn", "refused"} :
           /\ Goes(h, step)
           /\ \/ Sets(t, "in_progress", "robco-ui")
              \/ step = "refused" /\ BoardStays
    BY <1>8 DEF TaskClaims
  <2>3. /\ parents' = parents
        /\ step = "spawn" => boardTask'[t].claim = "robco-ui"
        /\ \A q \in Tasks : boardTask'[q].claim \in {boardTask[q].claim, "robco-ui"}
    BY <1>1, <2>1, <2>2 DEF BoardStays
  <2>4. /\ thread'[h].step = step /\ thread'[h].task = t /\ thread'[h].named = thread[h].named
        /\ \A g \in Threads \ {h} : thread'[g] = thread[g]
    BY <1>7, <2>2
  <2>5. LaunchInv'
    BY <1>0, <2>1, <2>3, <2>4 DEF LaunchInv
  <2>6. WorkersHoldClaims' /\ ParentsNamed'
    BY <1>0, <2>1, <2>3, <2>4 DEF WorkersHoldClaims, ParentsNamed
  <2> QED
    BY <2>5, <2>6
<1>9. ASSUME NEW h \in Threads, TaskSpawns(h)
      PROVE  LaunchInv' /\ WorkersHoldClaims' /\ ParentsNamed'
  <2> DEFINE t == thread[h].task
  <2>1. /\ thread[h].step = "spawn" /\ UNCHANGED jobs /\ t \in Tasks
        /\ t \notin workers /\ boardTask[t].claim = "robco-ui" /\ jobs[t] = h
    BY <1>0, <1>9 DEF TaskSpawns, Quietly, LaunchInv
  <2>2. \A g \in Threads \ {h} : thread[g].step # "idle" => thread[g].task # t
    BY <1>0, <2>1 DEF LaunchInv
  <2>3. CASE Goes(h, "launched") /\ workers' = workers \cup {t} /\ BoardStays
    <3>1. /\ thread'[h].step = "launched" /\ thread'[h].task = t
          /\ thread'[h].named = thread[h].named
          /\ \A g \in Threads \ {h} : thread'[g] = thread[g]
      BY <1>7, <2>3
    <3>2. LaunchInv'
      BY <1>0, <2>1, <2>2, <2>3, <3>1 DEF LaunchInv, BoardStays
    <3>3. WorkersHoldClaims' /\ ParentsNamed'
      BY <1>0, <2>1, <2>3, <3>1 DEF WorkersHoldClaims, ParentsNamed, BoardStays
    <3> QED
      BY <3>2, <3>3
  <2>4. CASE Goes(h, "refused") /\ UNCHANGED workers /\ Sets(t, "open", "nobody")
    <3>1. /\ thread'[h].step = "refused" /\ thread'[h].task = t
          /\ \A g \in Threads \ {h} : thread'[g] = thread[g]
      BY <1>7, <2>4
    <3>2. parents' = parents /\ \A q \in Tasks \ {t} : boardTask'[q] = boardTask[q]
      BY <1>1, <2>1, <2>4
    <3>3. LaunchInv'
      BY <1>0, <2>1, <2>2, <2>4, <3>1, <3>2 DEF LaunchInv
    <3>4. WorkersHoldClaims' /\ ParentsNamed'
      BY <1>0, <2>1, <2>4, <3>1, <3>2 DEF WorkersHoldClaims, ParentsNamed
    <3> QED
      BY <3>3, <3>4
  <2> QED
    BY <1>9, <2>1, <2>3, <2>4 DEF TaskSpawns
<1>10. ASSUME NEW h \in Threads, Drains(h)
       PROVE  LaunchInv' /\ WorkersHoldClaims' /\ ParentsNamed'
  <2>1. /\ UNCHANGED <<boardTask, parents, workers>>
        /\ jobs' = [jobs EXCEPT ![thread[h].task] = IF @ = h THEN NoThread ELSE @]
    BY <1>10 DEF Drains, boardOfTasks
  <2>2. thread'[h].step = "idle" /\ \A g \in Threads \ {h} : thread'[g] = thread[g]
    BY <1>0, <1>10 DEF Drains, Launches
  <2>3. LaunchInv'
    BY <1>0, <2>1, <2>2 DEF LaunchInv
  <2> QED
    BY <1>0, <2>1, <2>2, <2>3 DEF WorkersHoldClaims, ParentsNamed
<1>11. ASSUME \/ CurrentStep \/ LateStep \/ TaskRefreshes \/ RefreshesLate \/ TaskSettles
              \/ UNCHANGED taskVars
       PROVE  UNCHANGED <<boardTask, parents, thread, jobs, workers>>
  BY <1>11 DEF CurrentStep, LateStep, TaskRefreshes, RefreshesLate,
               TaskSettles, Quietly, BoardStays, boardOfTasks, pane, fetches,
               launches, taskVars, FetchStep
<1>12. ASSUME UNCHANGED <<boardTask, parents, thread, jobs, workers>>
       PROVE  LaunchInv' /\ WorkersHoldClaims' /\ ParentsNamed'
  BY <1>0, <1>12 DEF LaunchInv, WorkersHoldClaims, ParentsNamed
<1> QED
  BY <1>2, <1>3, <1>4, <1>5, <1>6, <1>8, <1>9, <1>10, <1>11, <1>12 DEF TaskListStep, ThreadStep

(* No launch from the task pane takes back the claim a live worker works   *)
(* under, and none claims a task with subtasks it could not name, whatever *)
(* the number of launches at once (ui/actions/dropr_task_*.rs).            *)
THEOREM LaunchesSafe == TaskListSpec => []TaskListSafe
<1>1. TaskListInv => TaskListSafe
  BY DEF TaskListInv, TaskListSafe
<1> QED
  BY <1>1, TaskListStarts, LaunchesKept, PTL DEF TaskListSpec

-----------------------------------------------------------------------------
(* The task pane: fetches                                                  *)

(* A fetch that has read the board read it after what is shown.            *)
FetchInv ==
    /\ shownAt <= turn
    /\ current.step \in {"read", "answered"} => shownAt <= current.at /\ current.at <= turn

LEMMA FetchesKept ==
    PaneTypes /\ FetchInv /\ [TaskListStep]_taskVars => FetchInv' /\ shownAt' >= shownAt
<1> SUFFICES ASSUME PaneTypes, FetchInv, [TaskListStep]_taskVars
             PROVE  FetchInv' /\ shownAt' >= shownAt
  OBVIOUS
<1>0. /\ current \in Fetches /\ current.at \in Nat
      /\ shownAt \in Nat /\ turn \in Nat
      /\ NewFetch.step = "asking"
  BY DEF PaneTypes, FetchTypes, BoardTypes, Fetches, NewFetch, NoFetch
<1>1. ASSUME UNCHANGED <<shownAt, current>>, turn' = turn \/ turn' = turn + 1
      PROVE  FetchInv' /\ shownAt' >= shownAt
  BY <1>0, <1>1 DEF FetchInv
<1>2. ASSUME NEW t \in Tasks, NEW status, NEW claim, Sets(t, status, claim)
      PROVE  turn' = turn \/ turn' = turn + 1
  BY <1>2 DEF Sets
<1>3. CASE CurrentStep
  <2>1. UNCHANGED <<shownAt, turn>>
    BY <1>3 DEF CurrentStep, pane, boardOfTasks
  <2>2. CASE Reads(current)
    <3>1. CASE current' = [current EXCEPT !.step = "read", !.at = turn,
                                          !.seen = [t \in Tasks |-> Displayed(t)]]
      <4>1. current'.step = "read" /\ current'.at = turn
        BY <1>0, <3>1 DEF Fetches
      <4> QED
        BY <1>0, <2>1, <4>1 DEF FetchInv
    <3>2. ASSUME NEW step \in {"failed", "hung"}, current' = [current EXCEPT !.step = step]
          PROVE  FetchInv' /\ shownAt' >= shownAt
      <4>1. current'.step \notin {"read", "answered"}
        BY <1>0, <3>2 DEF Fetches
      <4> QED
        BY <1>0, <2>1, <4>1 DEF FetchInv
    <3> QED
      BY <2>2, <3>1, <3>2 DEF Reads
  <2>3. CASE Walks(current)
    <3>1. current.step = "read" /\ current'.at = current.at
      BY <1>0, <2>3 DEF Walks, Fetches
    <3> QED
      BY <1>0, <2>1, <3>1 DEF FetchInv
  <2> QED
    BY <1>3, <2>2, <2>3 DEF CurrentStep, FetchStep
<1>4. CASE TaskRefreshes
  <2>1. UNCHANGED turn
    BY <1>4 DEF TaskRefreshes, boardOfTasks
  <2>2. CASE Arrived(current)
    <3>1. current'.step = "asking"
      BY <1>0, <1>4, <2>2 DEF TaskRefreshes
    <3>2. shownAt' = IF current.step = "answered" THEN current.at ELSE shownAt
      BY <1>4, <2>2 DEF TaskRefreshes, TaskIngests, Taken, Shows
    <3>3. shownAt' >= shownAt /\ shownAt' <= turn
      BY <1>0, <3>2 DEF FetchInv
    <3> QED
      BY <2>1, <3>1, <3>3 DEF FetchInv
  <2>3. CASE ~Arrived(current)
    <3>1. UNCHANGED shownAt
      BY <1>4, <2>3 DEF TaskRefreshes, TaskIngests, Taken, pane
    <3>2. current' = current \/ current'.step = "asking"
      BY <1>0, <1>4 DEF TaskRefreshes
    <3> QED
      BY <1>0, <2>1, <3>1, <3>2 DEF FetchInv
  <2> QED
    BY <2>2, <2>3
<1>5. CASE RefreshesLate \/ TaskSettles
  <2>1. UNCHANGED <<turn, shownAt>> /\ (current' = current \/ current'.step = "asking")
    BY <1>0, <1>5 DEF RefreshesLate, TaskSettles, pane, boardOfTasks
  <2> QED
    BY <1>0, <2>1 DEF FetchInv
<1>6. ASSUME NEW t \in Tasks, OtherMoves(t) \/ TaskEnds(t)
      PROVE  FetchInv' /\ shownAt' >= shownAt
  BY <1>1, <1>2, <1>6 DEF OtherMoves, TaskEnds, pane, fetches
<1>7. ASSUME NEW h \in Threads, TaskClaims(h) \/ TaskSpawns(h)
      PROVE  FetchInv' /\ shownAt' >= shownAt
  <2>1. thread[h].task \in Tasks
    BY DEF PaneTypes, ThreadTypes, Launches
  <2>2. UNCHANGED <<shownAt, current>>
    BY <1>7 DEF TaskClaims, TaskSpawns, Quietly, pane, fetches
  <2>3. turn' = turn \/ turn' = turn + 1
    BY <1>2, <1>7, <2>1 DEF TaskClaims, TaskSpawns, BoardStays
  <2> QED
    BY <1>1, <2>2, <2>3
<1>8. ASSUME \/ LateStep
             \/ \E t \in Tasks : Merges(t)
             \/ \E t \in Tasks, h \in Threads : Begins(t, h)
             \/ \E h \in Threads : Resolves(h) \/ Drains(h)
             \/ UNCHANGED taskVars
      PROVE  UNCHANGED <<shownAt, current, turn>>
  BY <1>8 DEF LateStep, Merges, Begins, Resolves, Drains, Quietly, BoardStays,
              boardOfTasks, pane, fetches, launches, taskVars, FetchStep
<1> QED
  BY <1>1, <1>3, <1>4, <1>5, <1>6, <1>7, <1>8 DEF TaskListStep, ThreadStep

(* What the pane shows is never replaced by something read before it, also *)
(* when a fetch was given up and answers after the one that followed it    *)
(* (ui/actions/dropr_tasks.rs).                                            *)
THEOREM PaneShowsNewest == TaskListSpec => NewestShown
<1>1. TaskListInit => PaneTypes /\ FetchInv
  <2>1. TaskListInit => FetchInv
    BY DEF TaskListInit, FetchInv, NoFetch
  <2> QED
    BY <2>1, PaneStarts
<1>2. PaneTypes /\ FetchInv /\ [TaskListStep]_taskVars => (PaneTypes /\ FetchInv)'
  BY PaneTypesKept, FetchesKept
<1>3. PaneTypes /\ FetchInv /\ [TaskListStep]_taskVars => [shownAt' >= shownAt]_taskVars
  BY FetchesKept
<1> QED
  BY <1>1, <1>2, <1>3, PTL DEF TaskListSpec, NewestShown

(* The pane launches what may be launched and shows the newest answer.     *)
THEOREM PaneIsSafe == TaskListSpec => PaneSafe
BY LaunchesSafe, PaneShowsNewest, PTL DEF PaneSafe

===============================================================================
