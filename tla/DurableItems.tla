---------------------------- MODULE DurableItems ----------------------------
(***************************************************************************)
(* What a process that keeps its items in a database is promised, as the   *)
(* application storage promises it to the main process: the database has   *)
(* all the items as they were at one instant, a later one with every       *)
(* write; whoever starts again finds the last of these; and an orderly     *)
(* close leaves the items as they are.  A write that fails may be made in  *)
(* part, and damages the database for the rest of the session: then only   *)
(* the close may still save the items.                                     *)
(***************************************************************************)
CONSTANT Nothing    \* no items

VARIABLES
    phase,      \* "none" (not running), "open", "closing", "closed"
    items,
    saved,      \* the items of the database
    writing,    \* the items being written: at most one element
    damaged

vars == <<phase, items, saved, writing, damaged>>

Runs == phase \in {"open", "closing"}

Init ==
    /\ phase = "none" /\ items = Nothing
    /\ saved = Nothing /\ writing = {} /\ damaged = FALSE

Start ==
    /\ phase = "none"
    /\ phase' = "open" /\ items' = saved
    /\ UNCHANGED <<saved, writing, damaged>>

\* Any items may become any others.
Change ==
    /\ phase = "open"
    /\ UNCHANGED <<phase, saved, writing, damaged>>

BeginWrite ==
    /\ Runs /\ ~damaged /\ writing = {}
    /\ writing' = {items}
    /\ UNCHANGED <<phase, items, saved, damaged>>

\* Another write may begin at once.
EndWrite ==
    /\ Runs /\ ~damaged
    /\ saved' \in writing
    /\ writing' \in {{}, {items}}
    /\ UNCHANGED <<phase, items, damaged>>

Fail ==
    /\ Runs
    /\ damaged' = TRUE /\ writing' = {}
    /\ writing = {} => UNCHANGED saved
    /\ UNCHANGED <<phase, items>>

\* Nothing is known of the items of a damaged database.
WriteDamaged ==
    /\ Runs /\ damaged
    /\ UNCHANGED <<phase, items, writing, damaged>>

StopChanges ==
    /\ phase = "open"
    /\ phase' = "closing"
    /\ UNCHANGED <<items, saved, writing, damaged>>

Close ==
    /\ phase = "closing" /\ writing = {}
    /\ phase' = "closed"
    /\ ~damaged => saved = items /\ UNCHANGED saved
    /\ UNCHANGED <<items, writing, damaged>>

\* The process crashes, or ends after it has closed.
End ==
    /\ phase # "none"
    /\ phase' = "none" /\ items' = Nothing /\ writing' = {} /\ damaged' = FALSE
    /\ UNCHANGED saved

Next ==
    \/ Start
    \/ Change
    \/ BeginWrite
    \/ EndWrite
    \/ Fail
    \/ WriteDamaged
    \/ StopChanges
    \/ Close
    \/ End

Spec == Init /\ [][Next]_vars
=============================================================================
