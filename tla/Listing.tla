--------------------------------- MODULE Listing ---------------------------------
(***************************************************************************)
(* Instances of what lists agents and cases for an operator: the rows of   *)
(* the UI, over two directories and three agents of which two have a row   *)
(* from the start (Registry), and the threads of a Discord channel         *)
(* (Cases).  They share no state here, so that a behaviour is one of       *)
(* either: `part` names it, and the other stays as it begins.              *)
(***************************************************************************)
EXTENDS Cases, Registry

Dirs == <<"app", "lib">>
Workers == <<"a1", "a2", "a3">>
First == <<"a1", "a2">>

VARIABLE part

listingVars == <<vars, registryVars, part>>

ListingInit ==
    /\ part \in {"cases", "rows"}
    /\ Init /\ RegistryInit
    /\ part # "rows" => ~disk[1].pinned

ListingNext ==
    /\ \/ part = "cases" /\ Next /\ UNCHANGED registryVars
       \/ part = "rows" /\ RegistryStep /\ UNCHANGED vars
    /\ UNCHANGED part

OfCases(step) == part = "cases" /\ step /\ UNCHANGED <<registryVars, part>>
OfRows(step) == part = "rows" /\ step /\ UNCHANGED <<vars, part>>

(* The fairness of each part, in the behaviours that are its own: a        *)
(* condition on steps of both is one on those of the part.                 *)
ListingSpec ==
    /\ ListingInit /\ [][ListingNext]_listingVars
    /\ WF_listingVars(OfCases(Tick \/ Effect) \/ OfRows(Schedule))
    /\ WF_listingVars(OfCases(Launch \/ Concludes) \/ OfRows(LoadStored))
    /\ SF_vars(part = "cases" /\ LookForThread /\ doing' # NoEffect)
    /\ SF_vars(part = "cases" /\ CreateThread /\ doing' # NoEffect)
    /\ SF_vars(part = "cases" /\ SendOpening /\ ops' # ops)
    /\ WF_registryVars(part = "rows" /\ Look)
    /\ WF_registryVars(part = "rows" /\ ApplyDiscovery)
    /\ WF_registryVars(part = "rows" /\ SaveRows)
    /\ WF_registryVars(part = "rows" /\ Renamed)
    /\ WF_registryVars(part = "rows" /\ Cloned)
    /\ \A a \in Range(Agents) :
          /\ WF_registryVars(part = "rows" /\ GraceEnds(a))
          /\ WF_registryVars(part = "rows" /\ (Spawned(a) \/ Launched(a)))

-----------------------------------------------------------------------------
(* What others write is taken in: cases raised are told and settled, rows  *)
(* written are shown and rows removed are not.                             *)
ListsSettle == CasesHandled /\ ScreenCatchesUp

================================================================================
