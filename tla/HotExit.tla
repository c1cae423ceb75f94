------------------------------ MODULE HotExit ------------------------------
(***************************************************************************)
(* What hot exit promises the user, from session to session: the next      *)
(* session restores the unsaved work of a working copy, in the text it had *)
(* when the session ended, and nothing that was saved or reverted; and     *)
(* what nobody has opened in that session is there for a later one.  At    *)
(* times a copy is unsettled: then the end of the session may keep other   *)
(* work of it, or none.                                                    *)
(***************************************************************************)
CONSTANT Copy

VARIABLES
    running,    \* there is a session
    work,       \* the unsaved work of each working copy: at most one text
    kept,       \* what was kept of an earlier session and is not yet restored
    unsettled   \* copies of which nothing is promised if the session ends now

vars == <<running, work, kept, unsettled>>

Nothing == [c \in Copy |-> {}]

Init == running = TRUE /\ work = Nothing /\ kept = Nothing /\ unsettled = {}

\* Working copies are edited, saved, backed up and so on, but no work is begun that
\* does not know what was kept of it.
Work ==
    /\ running
    /\ \A c \in Copy : kept[c] # {} => work'[c] = work[c]
    /\ UNCHANGED <<running, kept>>

\* An editor opens with what was kept.
Restore(c) ==
    /\ running /\ kept[c] # {}
    /\ work' = [work EXCEPT ![c] = kept[c]]
    /\ kept' = [kept EXCEPT ![c] = {}]
    /\ UNCHANGED running

\* A shutdown or a crash.
End ==
    /\ running
    /\ running' = FALSE /\ work' = Nothing /\ unsettled' = {}
    /\ \A c \in Copy :
          /\ kept[c] # {} => kept'[c] = kept[c]
          /\ kept[c] = {} /\ c \notin unsettled => kept'[c] = work[c]

Start ==
    /\ ~running
    /\ running' = TRUE
    /\ UNCHANGED <<work, kept, unsettled>>

Next ==
    \/ Work
    \/ \E c \in Copy : Restore(c)
    \/ End
    \/ Start

Spec == Init /\ [][Next]_vars
=============================================================================
