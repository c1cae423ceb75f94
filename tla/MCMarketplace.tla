----------------------------- MODULE MCMarketplace -----------------------------
(***************************************************************************)
(* Marketplace on small instances.  In the scenario "two" one command at a *)
(* time works on all extensions.  In "race" several commands work on the   *)
(* extension Raced; the others are neither installed nor released, and a   *)
(* check passes over them first.                                           *)
(***************************************************************************)
EXTENDS Marketplace

CONSTANTS Raced, First
ASSUME ScenarioAssumption == Raced \in Extension /\ First \in Task \ {Setup}

VARIABLE scenario

mcVars == <<vars, scenario>>

MCInit ==
    /\ Init /\ scenario \in {"two", "race"}
    /\ scenario = "race" => \A x \in Extension \ {Raced} : installed[x] = 0 /\ github[x] = 0

Allowed ==
    /\ scenario = "two" => \A t \in Task \ {Setup, First} : task'[t] = Idle
    /\ scenario = "race" =>
          /\ \A x \in Extension \ {Raced} : github'[x] = 0
          /\ \A t \in Task :
                /\ task'[t].ext \in {Raced, NoExtension}
                /\ task'[t].todo \subseteq {Raced} \/ task'[t].kind = "check"
                /\ task'[t].step = "checking" => task'[t].todo = {}

MCNext == Next /\ Allowed /\ UNCHANGED scenario

MCSpec == MCInit /\ [][MCNext]_mcVars
================================================================================
