-------------------------- MODULE MCTextFileModel --------------------------
(* TextFileModel on small instances.  A scenario, chosen at the start, says  *)
(* who interferes: another program, between any two steps of an access to    *)
(* the file; or the user with reverts, and other programs between accesses.  *)
EXTENDS TextFileModel

VARIABLE scenario

mcVars == <<vars, scenario>>

\* Bound: the last version of the text.
VersionBound == [save |-> MaxVersion, revert |-> MaxVersion - 1]

MCInit == Init /\ scenario \in {"save", "revert"}

MCNext ==
    /\ \/ Work
       \/ scenario = "revert" /\ \E how \in Reverts : Revert(how)
       \/ (scenario = "revert" => NoAccessHalfDone) /\ ForeignWrite
    /\ versionId' <= VersionBound[scenario]
    /\ UNCHANGED scenario

MCSpec == MCInit /\ [][MCNext]_mcVars /\ Fairness

\* As long as nobody reverts, no save is forgotten: neither one that waits behind
\* another nor one that doSave has joined or refused.
SavesAreWritten == scenario = "save" => SavesWritten

\* As long as nobody reverts, no work is lost silently: a clean model shows a text
\* of the file, read or written.
WorkIsKept == scenario = "save" => WorkKept

\* Every save that is owed comes to an end: written, replaced, or flagged as
\* failed.
SavesSettle == scenario = "save" /\ asked # 0 ~> asked = 0

\* A save does not destroy the work of another program, as long as others write
\* between the accesses to the file only ("Dirty write prevention",
\* validateWriteFile).
NoBlindOverwrite == [][scenario = "revert" => OverwritesKnown]_vars
=============================================================================
