---------------------------- MODULE TextFileModel ----------------------------
(***************************************************************************)
(* One text file open in the workbench (TextFileEditorModel), its model    *)
(* manager and the file service below it: editing, undo, saving, reverting *)
(* and reloading, against a file that other programs write too.            *)
(*                                                                         *)
(* Everything runs on one thread and interleaves at awaits.  What runs     *)
(* between two of them without a macrotask (the promise callbacks of       *)
(* TaskSequentializer) is kept in due and pending, and nothing else takes  *)
(* a step while there is any (Settled).                                    *)
(*                                                                         *)
(* The model is resolved, writable and not disposed.  A text typed by the  *)
(* user is the number of the version that typed it, one that came from     *)
(* elsewhere is negative; two different texts have different sizes, so the *)
(* etag of the code is the mtime here.                                     *)
(***************************************************************************)
EXTENDS Integers, Sequences

CONSTANTS
    Reverts,        \* the reverts the user asks for: "soft", "hard"
    Concurrent,     \* other programs write between the steps of one file access
    MaxVersion,     \* bound: edits end at this version of the model
    MaxForeign,     \* bound: texts written by other programs
    MaxStamp        \* bound: own writes start up to this mtime

ASSUME RevertsAssumption == Reverts \subseteq {"soft", "hard"}
ASSUME ConcurrentAssumption == Concurrent \in BOOLEAN
ASSUME BoundAssumption == MaxVersion \in Nat /\ MaxForeign \in Nat /\ MaxStamp \in Nat

VARIABLES
    buffer,         \* the text model: its undo stack, and the entry shown
    versionId,
    mark,           \* dirty, inConflictMode, inErrorMode, bufferSavedVersionId
    mtime,          \* of lastResolvedFileStat
    running,        \* saveSequentializer._running: task id, save it cancels
    queued,         \* saveSequentializer._queued: why that save was asked for
    due,            \* the queued save that runs next
    pending,        \* task ids whose doneRunning is still to be called
    save,           \* the calls of doSaveSequential under way
    read,           \* the read of resolveFromFile under way
    reloads,        \* size of modelResolveQueue
    revert,         \* the revert under way, and the mark it would put back
    undone,         \* lastModelContentChangeFromUndoRedo is set
    disk, foreign,  \* the file; how many texts others wrote
    event,          \* a change of the file is still to be announced
    known,          \* history: the text of the last finished read or write
    seen,           \* history: the texts of all of them
    asked           \* history: the version whose save is owed, 0 for none

vars == <<buffer, versionId, mark, mtime, running, queued, due, pending, save, read,
          reloads, revert, undone, disk, foreign, event, known, seen, asked>>

saveVars == <<running, queued, due, pending, save>>
fileVars == <<disk, foreign, event>>
textVars == <<buffer, versionId, undone>>
readVars == <<read, reloads, revert>>

Reason == {"auto", "explicit", "force", "overwrite"}
Broken == -1        \* what a failed write of our own leaves
Slot == 1..2        \* more than one only if the sequentializer fails
NoTask == [task |-> -1, slot |-> 0]
NoSave == [phase |-> "none", outer |-> 0, task |-> 0, overwrite |-> FALSE,
           cancelled |-> FALSE, text |-> 0, mtime |-> 0]
NoRead == [on |-> FALSE, version |-> 0, etag |-> 0, stat |-> 0, has |-> FALSE, text |-> 0]
NewRead == [NoRead EXCEPT !.on = TRUE, !.version = versionId, !.etag = mtime]
Clean(alt) == [dirty |-> FALSE, conflict |-> FALSE, error |-> FALSE, saved |-> alt]
NoRevert == [phase |-> "none", undo |-> Clean(0)]

Shown == buffer.stack[buffer.at]
Later(a, b) == IF a <= b THEN b ELSE a

Init ==
    /\ buffer = [stack |-> <<[alt |-> 0, text |-> 0]>>, at |-> 1]
    /\ versionId = 0
    /\ mark = Clean(0)
    /\ mtime = 1
    /\ running = NoTask /\ queued = "none" /\ due = "none" /\ pending = <<>>
    /\ save = [s \in Slot |-> NoSave]
    /\ read = NoRead /\ reloads = 0 /\ revert = NoRevert
    /\ undone = FALSE
    /\ disk = [text |-> 0, mtime |-> 1]
    /\ foreign = 0 /\ event = FALSE
    /\ known = 0 /\ seen = {0} /\ asked = 0

\* No promise callback is left to run.
Settled ==
    /\ due = "none" /\ pending = <<>>
    /\ ~(revert.phase = "joins" /\ ~read.on)

-----------------------------------------------------------------------------
(* The text *)

\* A new entry on the undo stack, in the place of what could be redone.
Typed(text) ==
    [stack |-> Append(SubSeq(buffer.stack, 1, buffer.at),
                      [alt |-> versionId + 1, text |-> text]),
     at |-> buffer.at + 1]

\* onModelContentChanged for a change of the user
ContentChanged(b) ==
    LET alt == b.stack[b.at].alt IN
    /\ buffer' = b
    /\ versionId' = versionId + 1
    /\ mark' = IF alt = mark.saved THEN Clean(alt) ELSE [mark EXCEPT !.dirty = TRUE]
    /\ asked' = IF alt = mark.saved THEN 0 ELSE asked

\* The user or a save participant types.
Edit ==
    /\ Settled /\ versionId < MaxVersion
    /\ ContentChanged(Typed(versionId + 1))
    /\ UNCHANGED <<mtime, saveVars, readVars, undone, fileVars, known, seen>>

UndoOrRedo ==
    /\ Settled /\ versionId < MaxVersion
    /\ \E at \in {buffer.at - 1, buffer.at + 1} \cap DOMAIN buffer.stack :
          ContentChanged([buffer EXCEPT !.at = at])
    /\ undone' = TRUE
    /\ UNCHANGED <<mtime, saveVars, readVars, fileVars, known, seen>>

-----------------------------------------------------------------------------
(* Saving *)

Participating == \E s \in Slot : save[s].phase = "participants"

\* Faulty variant of Returns: any running save is taken for one of this version.
JoinsAnySave(why) ==
    \/ Participating
    \/ running # NoTask
    \/ why # "force" /\ ~mark.dirty

\* doSave returns at once: it is called while participants run, a save of this
\* version runs, or there is nothing to save.
Returns(why) ==
    \/ Participating
    \/ running.task = versionId
    \/ why # "force" /\ ~mark.dirty

\* An automatic save right after an undo waits before its participants run.
FirstPhase(why) ==
    IF why = "auto" /\ undone THEN {"throttled", "participants"} ELSE {"participants"}

\* doSave: behind a running save, asking that one to cancel, or at once
DoSave(why) ==
    \/ Returns(why) /\ UNCHANGED <<running, queued, save>>
    \/ /\ ~Returns(why) /\ running # NoTask
       /\ queued' = why
       /\ save' = [s \in Slot |-> [save[s] EXCEPT !.cancelled = @ \/ s = running.slot]]
       /\ UNCHANGED running
    \/ /\ ~Returns(why) /\ running = NoTask
       /\ LET s == CHOOSE s \in Slot : save[s] = NoSave IN
          /\ \E p \in FirstPhase(why) :
                save' = [save EXCEPT ![s] = [NoSave EXCEPT !.phase = p,
                            !.outer = versionId, !.task = versionId,
                            !.overwrite = why = "overwrite"]]
          /\ running' = [task |-> versionId, slot |-> s]
       /\ UNCHANGED queued

\* Room for one more write under the bound.
Room ==
    /\ \E s \in Slot : save[s] = NoSave
    /\ disk.mtime + (IF running = NoTask THEN 0 ELSE 1)
                  + (IF queued = "none" THEN 0 ELSE 1) < MaxStamp

\* save: no automatic save in conflict or error
Save(why) ==
    /\ Settled /\ Room
    /\ why = "auto" => ~mark.conflict /\ ~mark.error
    /\ why = "overwrite" => mark.conflict
    /\ DoSave(why)
    /\ asked' = IF mark.dirty \/ why = "force" THEN versionId ELSE asked
    /\ UNCHANGED <<textVars, mark, mtime, due, pending, readVars, fileVars, known, seen>>

\* Faulty variant of Takes: the end of any task frees the sequentializer.
TakesAny(task) == TRUE

\* Faulty variant of Takes: only an older task is the running one.
TakesOlder(task) == running.task < task

\* doneRunning is about the running task.
Takes(task) == running.task = task

\* doneRunning and runQueued
DoneRunning ==
    /\ due = "none" /\ pending # <<>>
    /\ pending' = Tail(pending)
    /\ IF Takes(Head(pending))
       THEN running' = NoTask /\ due' = queued /\ queued' = "none"
       ELSE UNCHANGED <<running, due, queued>>
    /\ UNCHANGED <<textVars, mark, mtime, save, readVars, fileVars, known, seen, asked>>

RunQueued ==
    /\ due # "none"
    /\ DoSave(due)
    /\ due' = "none"
    /\ UNCHANGED <<textVars, mark, mtime, pending, readVars, fileVars, known, seen, asked>>

\* The promises of a save settle, the inner one first.
SaveEnds(s, tasks) ==
    /\ save' = [save EXCEPT ![s] = NoSave]
    /\ pending' = pending \o tasks
    /\ UNCHANGED <<running, queued, due>>

ThrottleEnds(s) ==
    /\ Settled /\ save[s].phase = "throttled"
    /\ IF save[s].cancelled
       THEN SaveEnds(s, <<save[s].outer>>)
       ELSE /\ save' = [save EXCEPT ![s].phase = "participants"]
            /\ UNCHANGED <<running, queued, due, pending>>
    /\ UNCHANGED <<textVars, mark, mtime, readVars, fileVars, known, seen, asked>>

\* The user or a participant cancels the save: no file is written.
CancelSave(s) ==
    /\ Settled /\ save[s].phase = "participants"
    /\ SaveEnds(s, <<save[s].outer>>)
    /\ asked' = IF queued = "none" THEN 0 ELSE asked
    /\ UNCHANGED <<textVars, mark, mtime, readVars, fileVars, known, seen>>

\* The text is taken as it is now, and the sequentializer runs its version.
ParticipantsEnd(s) ==
    /\ Settled /\ save[s].phase = "participants"
    /\ mark' = [mark EXCEPT !.error = FALSE]
    /\ save' = [save EXCEPT ![s].phase = "checking", ![s].task = versionId,
                            ![s].text = Shown.text, ![s].mtime = mtime]
    /\ running' = [task |-> versionId, slot |-> 0]
    /\ UNCHANGED <<textVars, mtime, queued, due, pending, readVars, fileVars, known,
                   seen, asked>>

Owed(version) == IF asked <= version THEN 0 ELSE asked

\* Faulty variant of Unchanged: what was typed during the write is ignored.
AlwaysUnchanged(s) == TRUE

Unchanged(s) == save[s].task = versionId

HandleSaveSuccess(s) ==
    /\ mtime' = Later(mtime, disk.mtime)
    /\ mark' = IF Unchanged(s) THEN Clean(Shown.alt) ELSE mark
    /\ known' = save[s].text
    /\ seen' = seen \union {save[s].text}
    /\ asked' = Owed(save[s].task)
    /\ SaveEnds(s, <<save[s].task, save[s].outer>>)

\* Faulty variant of Failed: a clean model stays clean.
FailedAsIs(conflict) == [mark EXCEPT !.error = TRUE, !.conflict = @ \/ conflict]

\* What a failed save leaves: the write may have spoilt the file.
Failed(conflict) ==
    [mark EXCEPT !.dirty = TRUE, !.error = TRUE, !.conflict = @ \/ conflict]

HandleSaveError(s, conflict) ==
    /\ mark' = Failed(conflict)
    /\ asked' = Owed(save[s].task)
    /\ SaveEnds(s, <<save[s].task, save[s].outer>>)
    /\ UNCHANGED <<mtime, known, seen>>

\* validateWriteFile: the file changed since it was read, to another text.
Modified(s) ==
    /\ ~save[s].overwrite
    /\ save[s].mtime < disk.mtime
    /\ save[s].text # disk.text

CheckFile(s) ==
    /\ Settled /\ save[s].phase = "checking"
    /\ IF Modified(s)
       THEN HandleSaveError(s, TRUE)
       ELSE /\ save' = [save EXCEPT ![s].phase = "writing"]
            /\ UNCHANGED <<mark, mtime, running, queued, due, pending, known, seen, asked>>
    /\ UNCHANGED <<textVars, readVars, fileVars>>

PutFile(text) ==
    /\ disk' = [text |-> text, mtime |-> disk.mtime + 1]
    /\ event' = TRUE

WriteFile(s) ==
    /\ Settled /\ save[s].phase = "writing"
    /\ PutFile(save[s].text)
    /\ save' = [save EXCEPT ![s].phase = "stating"]
    /\ UNCHANGED <<textVars, mark, mtime, running, queued, due, pending, readVars, foreign,
                   known, seen, asked>>

\* writeFile returns what resolve finds now.
StatFile(s) ==
    /\ Settled /\ save[s].phase = "stating"
    /\ HandleSaveSuccess(s)
    /\ UNCHANGED <<textVars, readVars, fileVars>>

\* An access fails; a write that fails may leave part of a text.
AccessFails(s) ==
    /\ Settled /\ save[s].phase \in {"checking", "writing", "stating"}
    /\ \/ UNCHANGED fileVars
       \/ save[s].phase = "writing" /\ PutFile(Broken) /\ UNCHANGED foreign
    /\ HandleSaveError(s, FALSE)
    /\ UNCHANGED <<textVars, readVars>>

-----------------------------------------------------------------------------
(* Reading *)

ReadEnds ==
    /\ read' = NoRead
    /\ IF revert.phase = "reads"
       THEN revert' = NoRevert /\ UNCHANGED reloads
       ELSE reloads' = reloads - 1 /\ UNCHANGED revert

\* revert: the mark is cleared before anything is read.  resolve does not read
\* while a save runs.
Revert(how) ==
    /\ Settled /\ revert = NoRevert
    /\ mark' = Clean(Shown.alt)
    /\ asked' = 0
    /\ \/ how = "soft" /\ UNCHANGED <<read, revert>>
       \/ /\ how = "hard" /\ read.on
          /\ revert' = [phase |-> "joins", undo |-> mark] /\ UNCHANGED read
       \/ /\ how = "hard" /\ ~read.on /\ running # NoTask
          /\ UNCHANGED <<read, revert>>
       \/ /\ how = "hard" /\ ~read.on /\ running = NoTask
          /\ revert' = [phase |-> "reads", undo |-> mark] /\ read' = NewRead
    /\ UNCHANGED <<textVars, mtime, saveVars, reloads, fileVars, known, seen>>

\* The read that was under way has ended.
RevertReads ==
    /\ due = "none" /\ pending = <<>> /\ revert.phase = "joins" /\ ~read.on
    /\ IF mark.dirty \/ running # NoTask
       THEN revert' = NoRevert /\ UNCHANGED read
       ELSE revert' = [revert EXCEPT !.phase = "reads"] /\ read' = NewRead
    /\ UNCHANGED <<textVars, mark, mtime, saveVars, reloads, fileVars, known, seen, asked>>

\* TextFileEditorModelManager.onDidFilesChange, queueModelReload
FilesChange ==
    /\ Settled /\ event
    /\ event' = FALSE
    /\ reloads' = IF mark.dirty \/ reloads = 2 THEN reloads ELSE reloads + 1
    /\ UNCHANGED <<textVars, mark, mtime, saveVars, read, revert, disk, foreign, known, seen,
                   asked>>

\* TextFileEditorModelManager.reload, resolve
Reload ==
    /\ Settled /\ reloads > 0 /\ ~read.on
    /\ IF mark.dirty \/ running # NoTask
       THEN reloads' = reloads - 1 /\ UNCHANGED read
       ELSE read' = NewRead /\ UNCHANGED reloads
    /\ UNCHANGED <<textVars, mark, mtime, saveVars, revert, fileVars, known, seen, asked>>

\* validateReadFile: a reload has nothing to read if the etag is the same.
ReadStat ==
    /\ Settled /\ read.on /\ read.stat = 0
    /\ IF revert.phase # "reads" /\ read.etag = disk.mtime
       THEN ReadEnds
       ELSE read' = [read EXCEPT !.stat = disk.mtime] /\ UNCHANGED <<reloads, revert>>
    /\ UNCHANGED <<textVars, mark, mtime, saveVars, fileVars, known, seen, asked>>

\* The stream of the file; without an etag to compare it does not wait for the
\* stat.
ReadText ==
    /\ Settled /\ read.on /\ ~read.has
    /\ read.stat # 0 \/ revert.phase = "reads"
    /\ read' = [read EXCEPT !.has = TRUE, !.text = disk.text]
    /\ UNCHANGED <<textVars, mark, mtime, saveVars, reloads, revert, fileVars, known, seen,
                   asked>>

\* Faulty variant of ReadStatFirst: the stat is taken before the version is looked at.
StatTakenAnyway == mtime' = Later(mtime, read.stat)

\* The stat is that of a text which the model takes.
ReadStatFirst ==
    mtime' = IF read.version = versionId THEN Later(mtime, read.stat) ELSE mtime

\* resolveFromContent: the text is replaced if it differs, and is clean.
TakeText ==
    LET b == IF read.text = Shown.text THEN buffer ELSE Typed(read.text) IN
    /\ buffer' = b
    /\ versionId' = IF b = buffer THEN versionId ELSE versionId + 1
    /\ mark' = Clean(b.stack[b.at].alt)
    /\ known' = read.text
    /\ seen' = seen \union {read.text}

\* A text that was changed during the read is kept.
ResolveFromContent ==
    IF read.version = versionId
    THEN TakeText
    ELSE UNCHANGED <<buffer, versionId, mark, known, seen>>

ReadDone ==
    /\ Settled /\ read.on /\ read.has /\ read.stat # 0
    /\ ReadStatFirst
    /\ ResolveFromContent
    /\ ReadEnds
    /\ UNCHANGED <<saveVars, undone, fileVars, asked>>

\* A revert whose read fails puts its mark back.
ReadFails ==
    /\ Settled /\ read.on
    /\ mark' = IF revert.phase = "reads" THEN revert.undo ELSE mark
    /\ ReadEnds
    /\ UNCHANGED <<textVars, mtime, saveVars, fileVars, known, seen, asked>>

NoAccessHalfDone ==
    /\ \A s \in Slot : save[s].phase \notin {"writing", "stating"}
    /\ read.on => (read.stat # 0 <=> read.has)

\* Another program writes the file.
ForeignWrite ==
    /\ Settled /\ foreign < MaxForeign
    /\ Concurrent \/ NoAccessHalfDone
    /\ PutFile(-(foreign + 2))
    /\ foreign' = foreign + 1
    /\ UNCHANGED <<textVars, mark, mtime, saveVars, readVars, known, seen, asked>>

-----------------------------------------------------------------------------

SaveStep(s) ==
    \/ ThrottleEnds(s)
    \/ ParticipantsEnd(s)
    \/ CheckFile(s)
    \/ WriteFile(s)
    \/ StatFile(s)
    \/ AccessFails(s)

\* All but the reverts the user asks for and the other programs.
Work ==
    \/ Edit
    \/ UndoOrRedo
    \/ \E why \in Reason : Save(why)
    \/ DoneRunning
    \/ RunQueued
    \/ \E s \in Slot : CancelSave(s) \/ SaveStep(s)
    \/ RevertReads
    \/ FilesChange
    \/ Reload
    \/ ReadStat
    \/ ReadText
    \/ ReadDone
    \/ ReadFails

Next ==
    \/ Work
    \/ \E how \in Reverts : Revert(how)
    \/ ForeignWrite

Spec == Init /\ [][Next]_vars

\* Participants end, and so do the accesses to the file; a settled promise calls
\* back.  The user and other programs owe nothing.
Fairness ==
    /\ WF_vars(DoneRunning \/ RunQueued \/ RevertReads)
    /\ \A s \in Slot : WF_vars(SaveStep(s))
    /\ WF_vars(ReadStat \/ ReadText \/ ReadDone)

-----------------------------------------------------------------------------
(* Properties *)

Text == {-n : n \in 1..(MaxForeign + 1)} \union 0..MaxVersion
Mark == [dirty : BOOLEAN, conflict : BOOLEAN, error : BOOLEAN, saved : Nat]
Phase == {"none", "throttled", "participants", "checking", "writing", "stating"}

\* The type of every variable; and what the shape of the code takes for granted:
\* the sequentializer's task is that of a save under way, at most one reload
\* waits behind another, and a model in conflict or error is dirty.
TypeOK ==
    /\ buffer.stack \in Seq([alt : Nat, text : Text]) /\ buffer.at \in DOMAIN buffer.stack
    /\ versionId \in Nat /\ mark \in Mark /\ mtime \in Nat
    /\ running \in [task : Nat \union {-1}, slot : Slot \union {0}]
    /\ {queued, due} \subseteq Reason \union {"none"} /\ pending \in Seq(Nat)
    /\ save \in [Slot -> [phase : Phase, outer : Nat, task : Nat, overwrite : BOOLEAN,
                          cancelled : BOOLEAN, text : Text, mtime : Nat]]
    /\ read \in [on : BOOLEAN, version : Nat, etag : Nat, stat : Nat, has : BOOLEAN,
                 text : Text]
    /\ reloads \in 0..2
    /\ revert \in [phase : {"none", "joins", "reads"}, undo : Mark]
    /\ undone \in BOOLEAN /\ disk \in [text : Text, mtime : Nat]
    /\ foreign \in 0..MaxForeign /\ event \in BOOLEAN
    /\ known \in Text /\ seen \subseteq Text /\ asked \in Nat
    /\ mark.conflict \/ mark.error => mark.dirty

\* Two saves never access the file at the same time: not when a save is queued
\* behind another, not when it is cancelled, and not between the promises of one
\* save, whose two tasks may have the same id ("Never ever must 2 saves execute
\* at the same time", doSave).
OneWrite ==
    \A s, t \in Slot :
        {save[s].phase, save[t].phase} \subseteq {"checking", "writing", "stating"} => s = t

\* A save's write replaces a text of another program only if the model has read it
\* or it is the same text, unless the user chose to overwrite.
OverwritesKnown ==
    \A s \in Slot :
        save[s].phase = "writing" /\ save'[s].phase = "stating" /\ ~save[s].overwrite
        => disk.text >= Broken \/ disk.text \in seen \union {save[s].text}

\* What was typed during a reload or a revert stays: a read replaces a text only if
\* the user has not changed it since the read began (resolveFromFile).
TypedStays ==
    [][read.on /\ buffer' # buffer /\ read' = NoRead => read.version = versionId]_vars

\* No save is forgotten: when nothing runs any more, nothing is queued, and the
\* text that save() was last called for was written or replaced, or the failure
\* is flagged, although doSave may have joined another save, waited behind it,
\* been overwritten in the queue or refused while participants ran.  A revert may
\* drop a save.
SavesWritten == Settled /\ running = NoTask => queued = "none" /\ asked = 0

\* Nobody loses work silently: a model that is not dirty shows a text that was
\* read from the file or written to it, however edits and undo fall between the
\* steps of saves, failures and reloads.  A revert clears the mark of a text that
\* is not saved.
WorkKept == mark.dirty \/ Shown.text \in seen

\* isDirty "Indicates that the file has unsaved changes" (IWorkingCopy): a model
\* that is not dirty shows what its last finished read or write found.
CleanIsSaved == Settled /\ ~mark.dirty => Shown.text = known

\* "we are still dirty if revert failed" (revert): a read that fails leaves a dirty
\* model dirty.
FailedRevertStaysDirty == [][ReadFails /\ mark.dirty => mark'.dirty]_vars

=============================================================================
