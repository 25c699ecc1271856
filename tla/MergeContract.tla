----------------------------- MODULE MergeContract -----------------------------
(***************************************************************************)
(* What robco promises an operator about the pull requests of one          *)
(* repository, whatever the auto-merge pass does to keep it                *)
(* (docs/11-overseer-agent.md): a pull request merges once, at a revision  *)
(* an operator's word covers, and not on a base the primary checkout has   *)
(* yet to catch up with.  MergeProperties.tla shows MergePass implements   *)
(* it.                                                                     *)
(***************************************************************************)

CONSTANTS
    Agents,     \* one pull request each
    Revisions,  \* revisions a pull request may have
    NoRevision  \* stands for a merge that has not happened

VARIABLES
    covered,  \* [Agents -> SUBSET Revisions]: what an operator's word covers
    landed,   \* the revision robco cleared and merged
    caughtUp  \* no merge robco knows of is still waiting for the fast-forward

contractVars == <<covered, landed, caughtUp>>

ContractInit ==
    /\ covered = [a \in Agents |-> {}]
    /\ landed = [a \in Agents |-> NoRevision]
    /\ caughtUp = TRUE

(* An operator asks for one revision, which covers it and what robco put   *)
(* on top of it already.                                                   *)
Ask(a, revision) ==
    /\ \E more \in SUBSET Revisions :
         covered' = [covered EXCEPT ![a] = @ \cup {revision} \cup more]
    /\ UNCHANGED <<landed, caughtUp>>

(* A request already made comes to cover what robco, or the worker at      *)
(* robco's bidding, put on top of the revision asked for; the same look    *)
(* may give up the wait for the fast-forward.                              *)
Carry(a) ==
    /\ covered[a] # {}
    /\ \E more \in SUBSET Revisions :
         covered' = [covered EXCEPT ![a] = @ \cup more]
    /\ caughtUp' \in {caughtUp, TRUE}
    /\ UNCHANGED landed

Land(a, revision) ==
    /\ landed[a] = NoRevision
    /\ revision \in covered[a]
    /\ caughtUp
    /\ landed' = [landed EXCEPT ![a] = revision]
    /\ caughtUp' = FALSE
    /\ UNCHANGED covered

(* GitHub merges and robco never hears of it: nothing waits for the        *)
(* fast-forward.  What robco makes of the failure it sees may move more.   *)
LandUnheard(a, revision) ==
    /\ landed[a] = NoRevision
    /\ revision \in covered[a]
    /\ caughtUp
    /\ landed' = [landed EXCEPT ![a] = revision]
    /\ \E more \in SUBSET Revisions :
         covered' = [covered EXCEPT ![a] = @ \cup more]
    /\ UNCHANGED caughtUp

(* The fast-forward lands, its wait is given up, or a restart forgets it.  *)
CatchUp == caughtUp' = TRUE /\ UNCHANGED <<covered, landed>>

ContractNext ==
    \/ \E a \in Agents : Carry(a)
    \/ \E a \in Agents, revision \in Revisions :
          \/ Ask(a, revision)
          \/ Land(a, revision)
          \/ LandUnheard(a, revision)
    \/ CatchUp

ContractSpec == ContractInit /\ [][ContractNext]_contractVars
===============================================================================
