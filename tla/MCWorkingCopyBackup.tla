-------------------------- MODULE MCWorkingCopyBackup --------------------------
(***************************************************************************)
(* WorkingCopyBackup on small instances.  In the scenario "one" a single   *)
(* working copy is edited, closed and opened again over all sessions.  In  *)
(* "two" a window has all working copies, with one edit and one session    *)
(* less, and its editors stay open until the session ends.                 *)
(***************************************************************************)
EXTENDS WorkingCopyBackup

CONSTANT Alone
ASSUME AloneAssumption == Alone \in Copy

VARIABLE scenario

mcVars == <<vars, scenario>>

MCInit == Init /\ scenario \in {"one", "two"}

Allowed ==
    /\ scenario = "one" => \A c \in Copy \ {Alone} : open'[c] = "closed"
    /\ scenario = "two" =>
          edits' < MaxText /\ sessions' < MaxSession /\ \A c \in Copy : ~Close(c)

MCNext == Next /\ Allowed /\ UNCHANGED scenario

MCSpec == MCInit /\ [][MCNext]_mcVars
================================================================================
