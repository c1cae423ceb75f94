-------------------------- MODULE WorkingCopyBackup --------------------------
(***************************************************************************)
(* Backups of unsaved work (hot exit): the backup tracker of a window      *)
(* (services/workingCopy/common/workingCopyBackupTracker.ts and its native *)
(* half in electron-browser), the backup service with its queue of file    *)
(* operations per backup (common/workingCopyBackupService.ts), and what    *)
(* the lifecycle service asks of them when the window closes, quits or     *)
(* crashes (lifecycle/electron-browser/lifecycleService.ts).               *)
(*                                                                         *)
(* A text is the number of the edit that made it, 0 for the first one.     *)
(* The content of a backup is taken and handed to the service in one step: *)
(* whatever changes in between cancels the operation.  Metadata of a       *)
(* backup changes with the file only, and is left out.                     *)
(***************************************************************************)
EXTENDS Integers, Sequences, FiniteSets

CONSTANTS
    Copy,           \* working copies, one for each backup file
    Scratchpad,     \* those of them that are scratchpads
    EmptyWindow,    \* no folder or workspace is open
    Fallible,       \* the file operations that may fail: "write", "delete"
    Interference,   \* what changes working copies while a shutdown is handled, besides
                    \* the saves and reverts it waits for: "user", and "save", the auto
                    \* saves whose wait the user has cancelled
    MaxText,        \* bound: edits
    MaxSession      \* bound: sessions

ASSUME CopyAssumption == IsFiniteSet(Copy) /\ Scratchpad \subseteq Copy
ASSUME FlagAssumption == EmptyWindow \in BOOLEAN /\ Interference \subseteq {"user", "save"}
ASSUME FallibleAssumption == Fallible \subseteq {"write", "delete"}
ASSUME BoundAssumption == MaxText \in Nat /\ MaxSession \in Nat \ {0}

VARIABLES
    \* the disk
    file,           \* the saved text of a working copy
    disk,           \* its backup file: a text, or Missing or Empty
    \* the working copies of the session
    open,           \* "closed", "opening" (resolving) or "open"
    text, modified,
    version,        \* mapWorkingCopyToContentVersion
    \* WorkingCopyBackupServiceImpl
    model,          \* version of the backup in its model, or Unknown
    queue,          \* ioOperationQueues: the head is running
    \* WorkingCopyBackupTracker
    pending,        \* the operation in pendingBackupOperations
    suspended,
    unrestored,     \* unrestoredBackups
    \* the lifecycle
    session,        \* "down", "starting", "resolved" (ready), "ready" (isReady)
    shutdown,       \* what onFinalBeforeShutdown is doing
    \* history
    edits,          \* texts made
    sessions,
    missed,         \* copies of which the tracker dropped or failed an operation
    stale,          \* copies whose backup was not discarded when it should have been
    untouched,      \* backups of an earlier session that nobody has opened
    given           \* copies whose changes the user gave up at shutdown

diskVars == <<file, disk>>
copyVars == <<open, text, modified, version>>
serviceVars == <<model, queue>>
trackerVars == <<pending, suspended, unrestored>>
vars == <<diskVars, copyVars, serviceVars, trackerVars, session, shutdown,
          edits, sessions, missed, stale, untouched, given>>

Missing == -1
Empty == -2      \* truncated, not written yet
Unknown == -1

Task == [kind : {"write", "delete", "read"}, owner : {"tracker", "shutdown", "copy", "nobody"},
         text : 0..MaxText, version : 0..MaxText, begun : BOOLEAN]
NoShutdown == [phase |-> "off", copies |-> {}, saving |-> {}, backups |-> {},
               failed |-> FALSE, count |-> 0]

Modified == {c \in Copy : open[c] = "open" /\ modified[c]}

Init ==
    /\ file = [c \in Copy |-> 0] /\ disk = [c \in Copy |-> Missing]
    /\ open = [c \in Copy |-> "closed"] /\ text = [c \in Copy |-> 0]
    /\ modified = [c \in Copy |-> FALSE] /\ version = [c \in Copy |-> 0]
    /\ model = [c \in Copy |-> Unknown] /\ queue = [c \in Copy |-> <<>>]
    /\ pending = [c \in Copy |-> "none"] /\ suspended = FALSE /\ unrestored = {}
    /\ session = "starting" /\ shutdown = NoShutdown
    /\ edits = 0 /\ sessions = 1 /\ missed = {} /\ stale = {}
    /\ untouched = {} /\ given = {}

-----------------------------------------------------------------------------
(* The queues of the backup service *)

NewTask(kind, o, c) ==
    [kind |-> kind, owner |-> o, text |-> text[c], version |-> version[c], begun |-> FALSE]

\* The operation of o in a queue: there is one at most.
OperationOf(q, o) == {i \in DOMAIN q : q[i].owner = o}
Without(q, i) == SubSeq(q, 1, i - 1) \o SubSeq(q, i + 1, Len(q))

\* Faulty variant of Cancel: the operation that runs still counts as pending.
CancelWaiting(q, o) ==
    LET i == CHOOSE j \in OperationOf(q, o) : TRUE
    IN  IF OperationOf(q, o) \subseteq {1} THEN q ELSE Without(q, i)

\* A cancelled operation that waits does nothing any more; the head goes on, and
\* nobody waits for it.
Cancel(q, o) ==
    LET i == CHOOSE j \in OperationOf(q, o) : TRUE
    IN  IF OperationOf(q, o) = {} THEN q
        ELSE IF i = 1 THEN [q EXCEPT ![1].owner = "nobody"]
        ELSE Without(q, i)

Running(c, kind, begun) ==
    queue[c] # <<>> /\ Head(queue[c]).kind = kind /\ Head(queue[c]).begun = begun
Begin(c) == queue' = [queue EXCEPT ![c] = [@ EXCEPT ![1].begun = TRUE]]

\* Faulty variant of Has: any version will do.
HasAny(c) == model[c] # Unknown

Has(c) == model[c] = version[c]     \* hasBackupSync of the version of now

-----------------------------------------------------------------------------
(* The tracker *)

CancelBackupOperations ==
    /\ queue' = [c \in Copy |-> Cancel(queue[c], "tracker")]
    /\ pending' = [c \in Copy |-> "none"]

\* Faulty variant of ScheduleBackup: what is pending is not cancelled.
ScheduleAnother(c) ==
    /\ pending' = [pending EXCEPT ![c] = "timer"]
    /\ missed' = missed \ {c}
    /\ UNCHANGED queue

\* cancelBackupOperation, then a timer.
ScheduleBackup(c) ==
    /\ queue' = [queue EXCEPT ![c] = Cancel(@, "tracker")]
    /\ pending' = [pending EXCEPT ![c] = "timer"]
    /\ missed' = missed \ {c}

\* Faulty variant of DiscardBackup: of backups the model knows only.
DiscardKnown(c) ==
    /\ queue' = [queue EXCEPT ![c] = IF model[c] = Unknown THEN Cancel(@, "tracker")
                                     ELSE Append(Cancel(@, "tracker"), NewTask("delete", "tracker", c))]
    /\ pending' = [pending EXCEPT ![c] = IF model[c] = Unknown THEN "none" ELSE "discard"]
    /\ missed' = missed \ {c}

DiscardBackup(c) ==
    /\ queue' = [queue EXCEPT ![c] = Append(Cancel(@, "tracker"), NewTask("delete", "tracker", c))]
    /\ pending' = [pending EXCEPT ![c] = "discard"]
    /\ missed' = missed \ {c}

\* An event of a working copy, ignored while the tracker is suspended.
Ignored(c) ==
    /\ missed' = missed \cup {c}
    /\ UNCHANGED <<queue, pending>>

\* The delay is over: the content is asked for and handed to the service, which
\* returns early when the version is already stored.
BackupTimer(c) ==
    /\ pending[c] = "timer"
    /\ \/ /\ modified[c] /\ ~Has(c)
          /\ queue' = [queue EXCEPT ![c] = Append(@, NewTask("write", "tracker", c))]
          /\ pending' = [pending EXCEPT ![c] = "backup"]
          /\ UNCHANGED missed
       \/ /\ ~modified[c] \/ Has(c)
          /\ pending' = [pending EXCEPT ![c] = "none"]
          /\ UNCHANGED <<queue, missed>>
       \/ /\ modified[c] /\ "write" \in Fallible     \* the content could not be had
          /\ pending' = [pending EXCEPT ![c] = "none"]
          /\ missed' = missed \cup {c}
          /\ UNCHANGED queue
    /\ UNCHANGED <<diskVars, copyVars, model, suspended, unrestored, session, shutdown, edits,
                   sessions, stale, untouched, given>>

-----------------------------------------------------------------------------
(* The operations of the service on the file *)

\* The head of the queue has ended; `ok` tells how.
Ends(c, ok) ==
    LET t == Head(queue[c])
    IN  /\ queue' = [queue EXCEPT ![c] = Tail(@)]
        /\ pending' = [pending EXCEPT ![c] = IF t.owner = "tracker" THEN "none" ELSE @]
        /\ missed' = IF ok \/ t.owner = "nobody" THEN missed ELSE missed \cup {c}
        /\ shutdown' = IF t.owner # "shutdown" \/ t.kind = "delete" THEN shutdown
                       ELSE IF ok THEN [shutdown EXCEPT !.backups = @ \cup {c}]
                       ELSE [shutdown EXCEPT !.failed = TRUE]
        /\ stale' = IF ~ok /\ t.kind = "delete" THEN stale \cup {c}
                    ELSE IF ok /\ t.begun /\ t.owner # "nobody" THEN stale \ {c}
                    ELSE stale

\* backup: a queued write returns early when its version was stored before it ran.
SkipWrite(c) ==
    /\ Running(c, "write", FALSE) /\ model[c] = Head(queue[c]).version
    /\ Ends(c, TRUE)
    /\ UNCHANGED <<diskVars, copyVars, model, suspended, unrestored, session, edits, sessions,
                   untouched, given>>

StartWrite(c) ==
    /\ Running(c, "write", FALSE) /\ model[c] # Head(queue[c]).version
    /\ disk' = [disk EXCEPT ![c] = Empty]
    /\ Begin(c)
    /\ UNCHANGED <<file, copyVars, model, trackerVars, session, shutdown, edits, sessions,
                   missed, stale, untouched, given>>

\* The text of a file that was deleted meanwhile goes nowhere.
EndWrite(c) ==
    /\ Running(c, "write", TRUE)
    /\ disk' = [disk EXCEPT ![c] = IF @ = Missing THEN Missing ELSE Head(queue[c]).text]
    /\ model' = [model EXCEPT ![c] = Head(queue[c]).version]
    /\ Ends(c, TRUE)
    /\ UNCHANGED <<file, copyVars, suspended, unrestored, session, edits, sessions, untouched,
                   given>>

\* doDiscardBackup: first the file, then the model.
StartDelete(c) ==
    /\ Running(c, "delete", FALSE)
    /\ disk' = [disk EXCEPT ![c] = Missing]
    /\ Begin(c)
    /\ UNCHANGED <<file, copyVars, model, trackerVars, session, shutdown, edits, sessions,
                   missed, stale, untouched, given>>

\* Faulty variant of EndDelete: the model is not told.
EndDeleteUntold(c) ==
    /\ Running(c, "delete", TRUE)
    /\ Ends(c, TRUE)
    /\ UNCHANGED <<diskVars, copyVars, model, suspended, unrestored, session, edits, sessions,
                   untouched, given>>

EndDelete(c) ==
    /\ Running(c, "delete", TRUE)
    /\ model' = [model EXCEPT ![c] = Unknown]
    /\ Ends(c, TRUE)
    /\ UNCHANGED <<diskVars, copyVars, suspended, unrestored, session, edits, sessions,
                   untouched, given>>

OperationFails(c) ==
    /\ \/ "write" \in Fallible /\ (\E b \in BOOLEAN : Running(c, "write", b))
       \/ "delete" \in Fallible /\ Running(c, "delete", FALSE)
    /\ Ends(c, FALSE)
    /\ UNCHANGED <<diskVars, copyVars, model, suspended, unrestored, session, edits, sessions,
                   untouched, given>>

Operation(c) ==
    \/ SkipWrite(c)
    \/ StartWrite(c)
    \/ EndWrite(c)
    \/ StartDelete(c)
    \/ EndDelete(c)
    \/ OperationFails(c)

-----------------------------------------------------------------------------
(* The working copies *)

Free == session \in {"resolved", "ready"} /\ (shutdown.phase = "off" \/ "user" \in Interference)

\* An editor is opened; its backup is read behind what is queued for it.
Open(c) ==
    /\ Free /\ open[c] = "closed"
    /\ open' = [open EXCEPT ![c] = "opening"]
    /\ queue' = [queue EXCEPT ![c] = Append(@, NewTask("read", "copy", c))]
    /\ UNCHANGED <<diskVars, text, modified, version, model, trackerVars, session, shutdown,
                   edits, sessions, missed, stale, untouched, given>>

\* resolve: a backup that is known and complete is restored, as unsaved work.
Resolve(c) ==
    LET restored == model[c] # Unknown /\ disk[c] >= 0
        rest == Tail(queue[c])
    IN  /\ Running(c, "read", FALSE)
        /\ open' = [open EXCEPT ![c] = "open"]
        /\ text' = [text EXCEPT ![c] = IF restored THEN disk[c] ELSE file[c]]
        /\ modified' = [modified EXCEPT ![c] = restored]
        /\ untouched' = untouched \ {c}
        /\ IF restored /\ ~suspended
           THEN /\ queue' = [queue EXCEPT ![c] = Cancel(rest, "tracker")]
                /\ pending' = [pending EXCEPT ![c] = "timer"]
                /\ missed' = missed \ {c}
           ELSE /\ queue' = [queue EXCEPT ![c] = rest]
                /\ missed' = IF restored THEN missed \cup {c} ELSE missed
                /\ UNCHANGED pending
    /\ UNCHANGED <<diskVars, version, model, suspended, unrestored, session, shutdown, edits,
                   sessions, stale, given>>

\* onDidChangeContent, and onDidChangeDirty if it was not modified.
Edit(c) ==
    /\ Free /\ open[c] = "open" /\ edits < MaxText
    /\ edits' = edits + 1
    /\ text' = [text EXCEPT ![c] = edits + 1]
    /\ modified' = [modified EXCEPT ![c] = TRUE]
    /\ version' = [version EXCEPT ![c] = @ + 1]
    /\ IF suspended THEN Ignored(c) ELSE ScheduleBackup(c)
    /\ UNCHANGED <<diskVars, open, model, suspended, unrestored, session, shutdown, sessions,
                   stale, untouched, given>>

NoLongerDirty(c) ==
    /\ modified' = [modified EXCEPT ![c] = FALSE]
    /\ IF suspended THEN Ignored(c) ELSE DiscardBackup(c)
    /\ stale' = IF suspended THEN stale \cup {c} ELSE stale

\* A save ends: the user's, an auto save, or one of doSaveAllBeforeShutdown.
Save(c) ==
    /\ Free \/ c \in shutdown.saving
    /\ c \in Modified
    /\ file' = [file EXCEPT ![c] = text[c]]
    /\ NoLongerDirty(c)
    /\ UNCHANGED <<disk, open, text, version, model, suspended, unrestored, session, shutdown,
                   edits, sessions, untouched, given>>

Revert(c) ==
    /\ Free /\ c \in Modified
    /\ text' = [text EXCEPT ![c] = file[c]]
    /\ NoLongerDirty(c)
    /\ UNCHANGED <<diskVars, open, version, model, suspended, unrestored, session, shutdown,
                   edits, sessions, untouched, given>>

\* onDidUnregister: an editor is closed, saved or reverted before.
Close(c) ==
    /\ Free /\ open[c] = "open" /\ ~modified[c]
    /\ open' = [open EXCEPT ![c] = "closed"]
    /\ version' = [version EXCEPT ![c] = 0]
    /\ IF suspended THEN Ignored(c) ELSE DiscardBackup(c)
    /\ stale' = IF suspended THEN stale \cup {c} ELSE stale
    /\ UNCHANGED <<diskVars, text, modified, model, suspended, unrestored, session, shutdown,
                   edits, sessions, untouched, given>>

WorkingCopy(c) ==
    \/ Open(c)
    \/ Resolve(c)
    \/ Edit(c)
    \/ Save(c)
    \/ Revert(c)
    \/ Close(c)

-----------------------------------------------------------------------------
(* Sessions *)

\* The model lists the files it finds, whatever is in them.
ResolveModel ==
    /\ session = "starting"
    /\ session' = "resolved"
    /\ model' = [c \in Copy |-> IF disk[c] = Missing THEN Unknown ELSE 0]
    /\ UNCHANGED <<diskVars, copyVars, queue, trackerVars, shutdown, edits, sessions, missed, stale,
                   untouched, given>>

\* resolveBackupsToRestore, after the queues drained; a file without a preamble is
\* no backup.
ResolveBackupsToRestore ==
    /\ session = "resolved" /\ \A c \in Copy : queue[c] = <<>>
    /\ session' = "ready"
    /\ unrestored' = {c \in Copy : model[c] # Unknown /\ disk[c] >= 0}
    /\ UNCHANGED <<diskVars, copyVars, serviceVars, pending, suspended, shutdown, edits, sessions,
                   missed, stale, untouched, given>>

\* restoreBackups: the editor of a backup is open and has resolved.
RestoreBackup(c) ==
    /\ session = "ready" /\ c \in unrestored /\ open[c] = "open"
    /\ unrestored' = unrestored \ {c}
    /\ UNCHANGED <<diskVars, copyVars, serviceVars, pending, suspended, session, shutdown, edits,
                   sessions, missed, stale, untouched, given>>

\* The process ends, whatever it was doing.
Down ==
    /\ session' = "down"
    /\ open' = [c \in Copy |-> "closed"] /\ text' = [c \in Copy |-> 0]
    /\ modified' = [c \in Copy |-> FALSE] /\ version' = [c \in Copy |-> 0]
    /\ model' = [c \in Copy |-> Unknown] /\ queue' = [c \in Copy |-> <<>>]
    /\ pending' = [c \in Copy |-> "none"] /\ suspended' = FALSE /\ unrestored' = {}
    /\ shutdown' = NoShutdown /\ missed' = {} /\ stale' = {} /\ given' = {}
    /\ untouched' = {}
    /\ UNCHANGED <<diskVars, edits, sessions>>

Crash == session # "down" /\ Down

Start ==
    /\ session = "down" /\ sessions < MaxSession
    /\ session' = "starting"
    /\ sessions' = sessions + 1
    /\ untouched' = {c \in Copy : disk[c] >= 0}
    /\ UNCHANGED <<diskVars, copyVars, serviceVars, trackerVars, shutdown, edits, missed, stale, given>>

-----------------------------------------------------------------------------
(* Shutdown: onFinalBeforeShutdown, then onWillShutdown *)

shutdownUnchanged == <<diskVars, open, text, version, model, unrestored, session, edits, sessions,
                       stale, untouched>>
Enters(phase) == shutdown' = [shutdown EXCEPT !.phase = phase]

BeginShutdown ==
    /\ session # "down" /\ shutdown.phase = "off"
    /\ "user" \in Interference \/ \A c \in Copy : open[c] # "opening"
    /\ shutdown' = [NoShutdown EXCEPT !.phase = "begun", !.copies = Modified]
    /\ CancelBackupOperations
    /\ suspended' = TRUE
    /\ missed' = missed \cup {c \in Copy : pending[c] # "none"}
    /\ stale' = stale \cup {c \in Copy : pending[c] = "discard"}
    /\ UNCHANGED <<diskVars, copyVars, model, unrestored, session, edits, sessions, untouched, given>>

\* The tracker resumes, with a veto or without.
Veto ==
    /\ shutdown' = NoShutdown /\ suspended' = FALSE /\ given' = {}

Acknowledge ==
    /\ Enters("acknowledged") /\ suspended' = FALSE

\* noVeto: the backups of C are discarded, once it is known what there is.
NoVeto(C) ==
    IF session # "ready"
    THEN Acknowledge /\ UNCHANGED queue
    ELSE /\ Enters("discarding")
         /\ queue' = [c \in Copy |-> IF c \in C
                                     THEN Append(queue[c], NewTask("delete", "shutdown", c))
                                     ELSE queue[c]]
         /\ UNCHANGED suspended

\* Faulty variant of Except: nothing is spared.
ExceptNone == {}

\* onBeforeShutdownWithoutModified: all backups but the unrestored ones.
Except == IF EmptyWindow THEN {} ELSE unrestored

DiscardRest ==
    /\ shutdown.phase = "begun" /\ shutdown.copies = {}
    /\ session # "ready" \/ Except # {}
    /\ NoVeto({c \in Copy : model[c] # Unknown} \ Except)
    /\ UNCHANGED <<shutdownUnchanged, modified, pending, missed, given>>

\* discardBackups without exceptions does not queue: it deletes the folder.  Where that
\* fails, or nobody waits for it until the process ends, only some files are deleted.
DiscardHome ==
    /\ shutdown.phase = "begun" /\ shutdown.copies = {}
    /\ session = "ready" /\ Except = {}
    /\ \E kept \in SUBSET Copy :
          /\ disk' = [c \in Copy |-> IF c \in kept THEN disk[c] ELSE Missing]
          /\ stale' = stale \cup kept
          /\ model' = IF kept = {} THEN [c \in Copy |-> Unknown] ELSE model
    /\ Acknowledge
    /\ UNCHANGED <<file, copyVars, queue, pending, unrestored, session, edits, sessions, missed,
                   untouched, given>>

AutoSave ==
    /\ shutdown.phase = "begun" /\ shutdown.copies \ Scratchpad # {}
    /\ shutdown' = [shutdown EXCEPT !.phase = "autosave", !.saving = @ \cup (shutdown.copies \ Scratchpad)]
    /\ UNCHANGED <<shutdownUnchanged, modified, queue, pending, suspended, missed, given>>

\* backupBeforeShutdown: a backup of every copy that has none of this version.  An auto
\* save that the user does not wait for goes on.
BackUp(C, toBackup) ==
    /\ shutdown' = [shutdown EXCEPT !.phase = "backup", !.copies = C,
                                    !.saving = IF "save" \in Interference THEN @ ELSE {},
                                    !.backups = {c \in toBackup : Has(c)}]
    /\ queue' = [c \in Copy |-> IF c \in toBackup /\ ~Has(c)
                                THEN Append(queue[c], NewTask("write", "shutdown", c))
                                ELSE queue[c]]

\* shouldBackupBeforeShutdown: by reason and settings all, none, or scratchpads.
HandleModified(C) ==
    \E toBackup \in {C, {}, C \cap Scratchpad} : BackUp(C, toBackup)

NoAutoSave ==
    /\ shutdown.phase = "begun" /\ shutdown.copies # {}
    /\ HandleModified(shutdown.copies)
    /\ UNCHANGED <<shutdownUnchanged, modified, pending, suspended, missed, given>>

\* The auto saves have ended, or the user does not wait for them any longer.
AutoSaveEnds ==
    /\ shutdown.phase = "autosave"
    /\ IF Modified = {}
       THEN NoVeto(shutdown.copies)
       ELSE HandleModified(Modified) /\ UNCHANGED suspended
    /\ UNCHANGED <<shutdownUnchanged, modified, pending, missed, given>>

\* An error is thrown when all backups have ended.
BackupError ==
    shutdown.failed /\ \A c \in Copy : OperationOf(queue[c], "shutdown") = {}

\* The backups have ended, or the user does not wait for them any longer.
BackupEnds ==
    /\ shutdown.phase = "backup"
    /\ queue' = [c \in Copy |-> Cancel(queue[c], "shutdown")]
    /\ IF shutdown.backups = shutdown.copies
       THEN Acknowledge
       ELSE /\ shutdown' = [shutdown EXCEPT !.phase = IF BackupError THEN "error" ELSE "confirm",
                                            !.copies = @ \ shutdown.backups]
            /\ UNCHANGED suspended
    /\ UNCHANGED <<shutdownUnchanged, modified, pending, missed, given>>

\* showErrorDialog: the user stays, or leaves anyway.
ErrorDialog ==
    /\ shutdown.phase = "error"
    /\ \/ Veto
       \/ Acknowledge /\ given' = shutdown.copies
    /\ UNCHANGED <<shutdownUnchanged, modified, queue, pending, missed>>

\* confirmBeforeShutdown: Save, Don't Save or Cancel.
ConfirmSave ==
    /\ shutdown.phase = "confirm"
    /\ shutdown' = [shutdown EXCEPT !.phase = "saving", !.saving = @ \cup shutdown.copies,
                                    !.count = Cardinality(Modified)]
    /\ UNCHANGED <<shutdownUnchanged, modified, queue, pending, suspended, missed, given>>

SaveEnds ==
    /\ shutdown.phase = "saving"
    /\ IF shutdown.count - Cardinality(Modified) < Cardinality(shutdown.copies)
       THEN Veto /\ UNCHANGED queue
       ELSE NoVeto(shutdown.copies) /\ UNCHANGED given
    /\ UNCHANGED <<shutdownUnchanged, modified, pending, missed>>

\* What could not be reverted is given up all the same.
ConfirmDontSave ==
    /\ shutdown.phase = "confirm"
    /\ \E reverted \in SUBSET shutdown.copies :
          modified' = [c \in Copy |-> modified[c] /\ c \notin reverted]
    /\ given' = shutdown.copies
    /\ NoVeto(shutdown.copies)
    /\ UNCHANGED <<shutdownUnchanged, pending, missed>>

ConfirmCancel ==
    /\ shutdown.phase = "confirm"
    /\ Veto
    /\ UNCHANGED <<shutdownUnchanged, modified, queue, pending, missed>>

\* What confirmBeforeShutdown throws is shown like an error of the backups.
ConfirmFails ==
    /\ shutdown.phase = "confirm"
    /\ Enters("error")
    /\ UNCHANGED <<shutdownUnchanged, modified, queue, pending, suspended, missed, given>>

\* The discards have ended, or go on without anyone waiting.
DiscardEnds ==
    /\ shutdown.phase = "discarding"
    /\ Acknowledge
    /\ queue' = [c \in Copy |-> [i \in DOMAIN queue[c] |->
                    IF queue[c][i].owner = "shutdown"
                    THEN [queue[c][i] EXCEPT !.owner = "nobody"] ELSE queue[c][i]]]
    /\ UNCHANGED <<shutdownUnchanged, modified, pending, missed, given>>

\* The main process announces the end; joinBackups waits for the queues.
WillShutdown ==
    /\ shutdown.phase = "acknowledged"
    /\ Enters("leaving")
    /\ CancelBackupOperations
    /\ suspended' = TRUE
    /\ UNCHANGED <<shutdownUnchanged, modified, missed, given>>

Exit ==
    /\ shutdown.phase = "leaving" /\ \A c \in Copy : queue[c] = <<>>
    /\ Down

Shutdown ==
    \/ BeginShutdown
    \/ DiscardRest
    \/ DiscardHome
    \/ AutoSave
    \/ NoAutoSave
    \/ AutoSaveEnds
    \/ BackupEnds
    \/ ErrorDialog
    \/ ConfirmSave
    \/ SaveEnds
    \/ ConfirmDontSave
    \/ ConfirmCancel
    \/ ConfirmFails
    \/ DiscardEnds
    \/ WillShutdown
    \/ Exit

Next ==
    \/ \E c \in Copy : BackupTimer(c) \/ Operation(c) \/ WorkingCopy(c) \/ RestoreBackup(c)
    \/ ResolveModel
    \/ ResolveBackupsToRestore
    \/ Shutdown
    \/ Crash
    \/ Start

Spec == Init /\ [][Next]_vars

-----------------------------------------------------------------------------
(* Properties *)

\* The type of every variable; only the head of a queue runs; and an operation is
\* pending as long as the tracker waits for one in the queue, never longer.
TypeOK ==
    /\ file \in [Copy -> 0..MaxText] /\ disk \in [Copy -> Empty..MaxText]
    /\ open \in [Copy -> {"closed", "opening", "open"}]
    /\ text \in [Copy -> 0..MaxText] /\ modified \in [Copy -> BOOLEAN]
    /\ version \in [Copy -> 0..MaxText] /\ model \in [Copy -> Unknown..MaxText]
    /\ queue \in [Copy -> Seq(Task)]
    /\ pending \in [Copy -> {"none", "timer", "backup", "discard"}]
    /\ suspended \in BOOLEAN /\ {unrestored, missed, stale, untouched, given} \subseteq SUBSET Copy
    /\ session \in {"down", "starting", "resolved", "ready"}
    /\ edits \in 0..MaxText /\ sessions \in 1..MaxSession
    /\ \A c \in Copy : \A i \in DOMAIN queue[c] : queue[c][i].begun => i = 1
    /\ \A c \in Copy : pending[c] \in {"backup", "discard"} <=>
                        \E i \in DOMAIN queue[c] : queue[c][i].owner = "tracker"

\* Once the shutdown is acknowledged, whatever is still modified and was not given
\* up by the user is in its backup, in its last version: through auto saves, saves
\* that fail, backups that fail or that the user does not wait for, operations that
\* were running or waiting when the shutdown began, and the discards of noVeto.  It
\* is checked and proved without Interference: an auto save that lands after the user
\* cancelled its wait is left out, because the count of SaveEnds takes it for the save
\* of another copy.  Of a closed copy whose discard failed, or was dropped by a
\* shutdown with a veto, the service's model still has the old version: reopened, the
\* copy counts from 0 again, and when it gets there its new text is taken for the old one.
HotExitKeeps ==
    shutdown.phase \in {"acknowledged", "leaving"} =>
        \A c \in Modified \ (given \cup stale) : disk[c] = text[c]

\* A modified working copy for which nothing is pending any more is backed up, in
\* its last version, so that a crash loses nothing: no operation of an older version
\* or of an older editor is left in the queue to undo or to replace it, and none
\* is skipped by mistake; but for the stale copies, as in HotExitKeeps.
BackedUp ==
    \A c \in Modified \ (missed \cup stale) :
        shutdown.phase = "off" /\ pending[c] = "none" /\ queue[c] = <<>> => disk[c] = text[c]

\* "deleting backups for saved working copies" (WorkingCopyBackupTracker): when
\* nothing is pending, what is saved, reverted or closed has no backup that the next
\* session would restore over the file.
NoStaleBackup ==
    \A c \in Copy \ (Modified \cup untouched) :
        /\ session = "ready" /\ shutdown.phase = "off"
        /\ pending[c] = "none" /\ queue[c] = <<>>
        => disk[c] < 0

\* The same as long as no operation of the copy failed and no shutdown made the
\* tracker drop one.
CleanIsDiscarded ==
    \A c \in Copy \ (Modified \cup untouched \cup missed) :
        /\ session = "ready" /\ shutdown.phase = "off"
        /\ pending[c] = "none" /\ queue[c] = <<>>
        => disk[c] < 0

\* "we never want to discard backups that we know were not restored in the session"
\* (discardBackupsBeforeShutdown): the backup of an earlier session stays as it is
\* until its editor opens, also when the window closes before the backups are known.
UntouchedIsKept ==
    [][~EmptyWindow => \A c \in untouched : session' # "down" => disk'[c] = disk[c]]_vars

\* The model and the files stay in step ("prevent the model being out of sync with
\* the backup file", backup): between the operations the service never claims a
\* backup that is not there, nor misses one that it could restore.
ModelIsInStep ==
    \A c \in Copy :
        session \in {"resolved", "ready"} /\ shutdown.phase = "off" /\ queue[c] = <<>>
        => (model[c] # Unknown => disk[c] # Missing) /\ (disk[c] >= 0 => model[c] # Unknown)

UnsavedWork == [c \in Copy |-> IF c \in Modified THEN {text[c]} ELSE {}]

\* The backups the next session, or this one, has still to restore.
KeptWork ==
    [c \in Copy |-> IF (session = "down" \/ c \in untouched) /\ disk[c] >= 0 THEN {disk[c]} ELSE {}]

\* A settled copy was not given up, and no discard of it was lost.  Besides: nothing is
\* pending or queued for it, and if it is modified its backup did not fail; or the
\* shutdown has decided; or the shutdown deliberates, but the copy is saved.
Unsettled ==
    {c \in Copy :
        \/ c \in stale \cup given
        \/ /\ shutdown.phase = "off"
           /\ pending[c] # "none" \/ queue[c] # <<>> \/ c \in missed \cap Modified
        \/ shutdown.phase \notin {"off", "acknowledged", "leaving"} /\ c \in Modified}

Unsaved == INSTANCE HotExit WITH
    running <- session # "down", work <- UnsavedWork, kept <- KeptWork, unsettled <- Unsettled

\* The tracker, the backup service and the shutdown keep the promise of HotExit over
\* all sessions: what is unsaved when a session ends, by a shutdown or a crash, is what
\* the next one restores, to the text; what was saved does not come back; and a backup
\* that no session has opened yet outlives them all.  (An empty window discards what it
\* did not restore; Interference is left out, as in HotExitKeeps.)
ImplementsHotExit == Unsaved!Spec
=============================================================================
