------------------------------ MODULE MCStorage ------------------------------
(***************************************************************************)
(* Storage on small instances: in the scenario "alone" one window and the  *)
(* main process change one item, and the disk fails; in "all" there are    *)
(* all windows, with one change less, a disk that does not fail, and no    *)
(* close; in "keys" only the main process makes changes, one less, but of  *)
(* all items.                                                              *)
(***************************************************************************)
EXTENDS Storage

CONSTANTS Alone, OneKey
ASSUME AloneAssumption == Alone \in Window /\ OneKey \in Key

VARIABLE scenario

mcvars == <<vars, scenario>>

MCInit == Init /\ scenario \in {"alone", "all", "keys"}

Allowed ==
    /\ scenario \in {"alone", "keys"} => \A w \in Window \ {Alone} : state'[w] = "none"
    /\ scenario \in {"all", "keys"} => sets' < MaxSet
    /\ scenario \in {"alone", "all"} => \A n \in Node, k \in Key \ {OneKey} : stamp'[n][k] = 0
    /\ scenario = "all" => ~erroneous' /\ \A n \in Node : state'[n] # "closing"
    /\ scenario = "keys" => stamp'[Alone] = Never

MCNext == Next /\ Allowed /\ UNCHANGED scenario

\* Timers fire, messages arrive and accesses to the disk end.
Progress ==
    \/ \E n \in Node : TimerFires(n)
    \/ \E w \in Window : Deliver(w) \/ WindowClosed(w)
    \/ InitMain
    \/ Broadcast
    \/ UpdateDisk
    \/ UpdatePartly
    \/ UpdateFails
    \/ DatabaseCloses
    \/ Unlink
    \/ UnlinkFails
    \/ Recover

Fairness == WF_mcvars(Progress /\ UNCHANGED scenario)

MCSpec == MCInit /\ [][MCNext]_mcvars /\ Fairness

=============================================================================
