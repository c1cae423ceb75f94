-------------------------- MODULE TextFileModelProofs --------------------------
(* The safety properties of TextFileModel, for any number of versions, texts of *)
(* other programs and writes, and any interleaving of edits, saves, reverts,    *)
(* reloads and failures.                                                        *)
EXTENDS MCTextFileModel, TLAPS

-----------------------------------------------------------------------------
(* The inductive invariant *)

Entry == [alt : Nat, text : Text]
Call == [phase : Phase, outer : Nat, task : Nat, overwrite : BOOLEAN,
         cancelled : BOOLEAN, text : Text, mtime : Nat]

TextTypes ==
    /\ buffer \in [stack : Seq(Entry), at : Nat] /\ buffer.at \in DOMAIN buffer.stack
    /\ versionId \in Nat /\ mark \in Mark /\ undone \in BOOLEAN
    /\ known \in Text /\ seen \in SUBSET Text /\ asked \in Nat
    /\ mark.conflict \/ mark.error => mark.dirty
SeqTypes ==
    /\ running \in [task : Nat \union {-1}, slot : Slot \union {0}]
    /\ queued \in Reason \union {"none"} /\ due \in Reason \union {"none"}
    /\ pending \in Seq(Nat) /\ save \in [Slot -> Call]
ReadTypes ==
    /\ read \in [on : BOOLEAN, version : Nat, etag : Nat, stat : Nat, has : BOOLEAN,
                 text : Text]
    /\ reloads \in 0..2
    /\ revert \in [phase : {"none", "joins", "reads"}, undo : Mark]
FileTypes ==
    /\ mtime \in Nat /\ disk \in [text : Text, mtime : Nat]
    /\ foreign \in 0..MaxForeign /\ event \in BOOLEAN
Types == TextTypes /\ SeqTypes /\ ReadTypes /\ FileTypes

Accessing == {"checking", "writing", "stating"}
Quiet == \A s \in Slot : save[s] = NoSave

\* The one save under way: its task is the running one, or the one it went on with after
\* its participants; what is queued is newer than it, and has cancelled it if it waits.
SaveIs(s) ==
    /\ save[s].phase # "none"
    /\ \A t \in Slot \ {s} : save[t] = NoSave
    /\ running.task = save[s].task /\ due = "none"
    /\ save[s].outer <= save[s].task /\ save[s].task <= versionId
    /\ save[s].phase \in Accessing => running.slot = 0
    /\ save[s].phase \notin Accessing => running.slot = s /\ save[s].outer = save[s].task
    /\ save[s].phase = "participants" => queued = "none"
    /\ save[s].phase = "throttled" /\ queued # "none" => save[s].cancelled
    /\ save[s].cancelled => queued # "none"
    /\ queued # "none" => save[s].outer < versionId
    /\ \A i \in DOMAIN pending : pending[i] < running.task

\* Between two saves the first of the promises that are left frees the sequentializer, and
\* none of them is about the save that is queued.
QuietIs ==
    /\ running # NoTask =>
          /\ pending # <<>> /\ Head(pending) = running.task /\ due = "none"
          /\ queued # "none" => \A i \in DOMAIN pending : i > 1 => pending[i] < versionId
    /\ running = NoTask =>
          /\ queued = "none"
          /\ due # "none" => \A i \in DOMAIN pending : pending[i] < versionId

SeqInv ==
    /\ \A s \in Slot : save[s] # NoSave => SaveIs(s)
    /\ Quiet => QuietIs

\* A read is older than the save under way.
ReadInv ==
    /\ read.on /\ revert.phase # "reads" => reloads > 0
    /\ read.version <= versionId
    /\ \A s \in Slot : save[s] # NoSave /\ read.on => read.version <= save[s].outer
    /\ revert.undo.conflict \/ revert.undo.error => revert.undo.dirty
    /\ revert.undo.saved <= versionId

\* The version of an entry of the undo stack identifies it.
TextInv ==
    /\ \A i \in DOMAIN buffer.stack : buffer.stack[i].alt <= versionId
    /\ \A i, j \in DOMAIN buffer.stack : buffer.stack[i].alt = buffer.stack[j].alt => i = j
    /\ mark.saved <= versionId /\ asked <= versionId
    /\ \A s \in Slot : save[s].phase \in Accessing /\ save[s].task = versionId
                       => save[s].text = Shown.text

ModelInv == Types /\ SeqInv /\ ReadInv /\ TextInv

\* Without reverts, the version that counts as saved was read or written.
KeptInv ==
    /\ \A i \in DOMAIN buffer.stack :
          buffer.stack[i].alt = mark.saved => buffer.stack[i].text \in seen
    /\ ~mark.dirty => Shown.alt = mark.saved

\* The save s writes the text that is owed.
Writes(s) == save[s].phase \in Accessing /\ asked <= save[s].task
Covers(s) == save[s].phase \in {"throttled", "participants"} \/ Writes(s)

\* Without reverts, a save that is owed is under way, queued or due; and what is queued or
\* due will not find nothing to save.
CoveredInv ==
    /\ asked # 0 => due # "none" \/ queued # "none" \/ \E s \in Slot : Covers(s)
    /\ asked # 0 /\ due \notin {"none", "force"} => mark.dirty
    /\ asked # 0 /\ queued \notin {"none", "force"} => mark.dirty \/ \E s \in Slot : Writes(s)

\* A text that is not of another program, or that the model has read.
Mine(text) == text >= Broken \/ text \in seen

\* While others write between the accesses only, a stat that is not older than the file is
\* that of a text the model knows.
StatInv ==
    /\ mtime <= disk.mtime
    /\ mtime = disk.mtime => Mine(disk.text)
    /\ read.on => read.stat <= disk.mtime
    /\ read.on /\ read.has /\ read.stat \in {0, disk.mtime}
       => read.text = disk.text \/ Mine(disk.text)
CheckedIs(s) ==
    /\ Mine(save[s].text) /\ save[s].mtime <= mtime
    /\ save[s].phase = "stating" => Mine(disk.text)
    /\ save[s].phase = "writing" /\ ~save[s].overwrite
       => save[s].mtime = disk.mtime \/ save[s].text = disk.text
FileInv ==
    /\ \A i \in DOMAIN buffer.stack : Mine(buffer.stack[i].text)
    /\ StatInv
    /\ \A s \in Slot : CheckedIs(s)

-----------------------------------------------------------------------------
(* Values *)

LEMMA Constants == MaxVersion \in Nat /\ MaxForeign \in Nat /\ MaxStamp \in Nat
  BY BoundAssumption

LEMMA Texts ==
    /\ 0 \in Text /\ Broken \in Text
    /\ \A n \in Nat : n < MaxVersion => n + 1 \in Text
    /\ \A n \in Nat : n < MaxForeign => -(n + 2) \in Text
    /\ Text \subseteq Int
<1>1. 0 \in 0..MaxVersion /\ \A n \in Nat : n < MaxVersion => n + 1 \in 0..MaxVersion
  BY Constants
<1>2. 1 \in 1..(MaxForeign + 1) /\ \A n \in Nat : n < MaxForeign => n + 2 \in 1..(MaxForeign + 1)
  BY Constants
<1>3. \A n \in 1..(MaxForeign + 1) : -n \in Text
  BY DEF Text
<1>4. Broken \in Text /\ \A n \in Nat : n < MaxForeign => -(n + 2) \in Text
  BY <1>2, <1>3 DEF Broken
<1>5. Text \subseteq Int
  BY Constants DEF Text
<1> QED
  BY <1>1, <1>4, <1>5 DEF Text

LEMMA NoSaveType == NoSave \in Call /\ NoSave.phase = "none"
<1>1. 0 \in Text /\ "none" \in Phase
  BY Texts DEF Phase
<1> QED
  BY <1>1 DEF NoSave, Call

LEMMA TypesImply == Types => TypeOK
  BY DEF Types, TextTypes, SeqTypes, ReadTypes, FileTypes, TypeOK, Entry, Call

LEMMA CleanType ==
    ASSUME NEW alt \in Nat
    PROVE  /\ Clean(alt) \in Mark /\ ~Clean(alt).dirty /\ ~Clean(alt).conflict
           /\ ~Clean(alt).error /\ Clean(alt).saved = alt
  BY DEF Clean, Mark

\* The entry that is shown
LEMMA ShownType == TextTypes => Shown \in Entry /\ Shown.alt \in Nat /\ Shown.text \in Text
<1> SUFFICES ASSUME TextTypes PROVE Shown \in Entry /\ Shown.alt \in Nat /\ Shown.text \in Text
  OBVIOUS
<1>1. buffer.stack \in Seq(Entry) /\ buffer.at \in DOMAIN buffer.stack
  BY DEF TextTypes
<1>2. Shown \in Entry
  BY <1>1 DEF Shown
<1> QED
  BY <1>2 DEF Entry

-----------------------------------------------------------------------------
(* The initial state *)

LEMMA InitModel == Init => ModelInv /\ KeptInv /\ CoveredInv /\ FileInv
<1> SUFFICES ASSUME Init PROVE ModelInv /\ KeptInv /\ CoveredInv /\ FileInv
  OBVIOUS
<1>1. /\ buffer = [stack |-> <<[alt |-> 0, text |-> 0]>>, at |-> 1] /\ versionId = 0
      /\ mark = Clean(0) /\ mtime = 1 /\ running = NoTask /\ queued = "none" /\ due = "none"
      /\ pending = <<>> /\ save = [s \in Slot |-> NoSave] /\ read = NoRead /\ reloads = 0
      /\ revert = NoRevert /\ undone = FALSE /\ disk = [text |-> 0, mtime |-> 1]
      /\ foreign = 0 /\ event = FALSE /\ known = 0 /\ seen = {0} /\ asked = 0
  BY DEF Init
<1>2. /\ 0 \in Text /\ Clean(0) \in Mark /\ ~Clean(0).dirty /\ ~Clean(0).conflict
      /\ ~Clean(0).error /\ Clean(0).saved = 0
  BY Texts, CleanType
<1>3. /\ buffer.stack = <<[alt |-> 0, text |-> 0]>> /\ buffer.at = 1
      /\ DOMAIN buffer.stack = {1} /\ buffer.stack[1] = [alt |-> 0, text |-> 0]
      /\ Shown = [alt |-> 0, text |-> 0]
  BY <1>1 DEF Shown
<1>4. [alt |-> 0, text |-> 0] \in Entry
  BY <1>2 DEF Entry
<1>5. \A s \in Slot : save[s] = NoSave
  BY <1>1
<1>6. TextTypes
  <2>1. buffer.stack \in Seq(Entry)
    BY <1>3, <1>4
  <2>2. buffer \in [stack : Seq(Entry), at : Nat]
    BY <1>1, <1>3, <2>1
  <2>3. seen \in SUBSET Text
    BY <1>1, <1>2
  <2> QED
    BY <1>1, <1>2, <1>3, <2>2, <2>3 DEF TextTypes
<1>7. SeqTypes
  <2>1. save \in [Slot -> Call]
    BY <1>1, NoSaveType
  <2> QED
    BY <1>1, <2>1 DEF SeqTypes, NoTask, Reason
<1>8. ReadTypes
  <2>1. NoRead \in [on : BOOLEAN, version : Nat, etag : Nat, stat : Nat, has : BOOLEAN, text : Text]
    BY <1>2 DEF NoRead
  <2>2. NoRevert \in [phase : {"none", "joins", "reads"}, undo : Mark]
    BY <1>2 DEF NoRevert
  <2> QED
    BY <1>1, <2>1, <2>2 DEF ReadTypes
<1>9. FileTypes
  <2>1. 0 \in 0..MaxForeign
    BY Constants
  <2>2. disk \in [text : Text, mtime : Nat]
    BY <1>1, <1>2
  <2> QED
    BY <1>1, <2>1, <2>2 DEF FileTypes
<1>10. SeqInv
  BY <1>1, <1>5 DEF SeqInv, QuietIs, NoTask
<1>11. ReadInv
  BY <1>1, <1>2, <1>5 DEF ReadInv, NoRead, NoRevert
<1>12. TextInv
  BY <1>1, <1>2, <1>3, <1>5, NoSaveType DEF TextInv, Accessing
<1>13. KeptInv
  BY <1>1, <1>2, <1>3 DEF KeptInv
<1>14. CoveredInv
  BY <1>1 DEF CoveredInv
<1>15. FileInv
  BY <1>1, <1>3, <1>5 DEF FileInv, StatInv, CheckedIs, Mine, Broken, NoRead, NoSave
<1> QED
  BY <1>6, <1>7, <1>8, <1>9, <1>10, <1>11, <1>12, <1>13, <1>14, <1>15 DEF ModelInv, Types

-----------------------------------------------------------------------------
(* One save at a time *)

LEMMA SlotIs == SeqTypes => \A s \in Slot :
    /\ save[s] \in Call /\ save[s].phase \in Phase /\ save[s].outer \in Nat /\ save[s].task \in Nat
    /\ save[s].overwrite \in BOOLEAN /\ save[s].cancelled \in BOOLEAN
    /\ save[s].text \in Text /\ save[s].mtime \in Nat
  BY DEF SeqTypes, Call

\* A save under way is the one that runs.
LEMMA OneSave ==
    ASSUME SeqTypes, SeqInv, NEW s \in Slot, save[s].phase # "none"
    PROVE  /\ SaveIs(s) /\ save[s] # NoSave /\ running # NoTask /\ ~Quiet
           /\ \A t \in Slot : save[t] # NoSave => t = s
<1>1. save[s] # NoSave
  BY NoSaveType
<1>2. SaveIs(s)
  BY <1>1 DEF SeqInv
<1>3. running.task \in Nat
  BY <1>2, SlotIs DEF SaveIs
<1>4. running # NoTask
  BY <1>3 DEF NoTask
<1>5. \A t \in Slot : save[t] # NoSave => t = s
  BY <1>2 DEF SaveIs
<1> QED
  BY <1>1, <1>2, <1>4, <1>5 DEF Quiet

\* Nothing runs between two callbacks that is not a save.
LEMMA NoneRuns ==
    ASSUME SeqTypes, SeqInv, running = NoTask
    PROVE  Quiet /\ queued = "none"
<1>1. ASSUME NEW s \in Slot, save[s] # NoSave PROVE FALSE
  BY <1>1, OneSave DEF SeqInv, SaveIs
<1> QED
  BY <1>1 DEF Quiet, SeqInv, QuietIs

LEMMA OneRuns ==
    ASSUME SeqTypes, SeqInv, Settled, running # NoTask \/ queued # "none"
    PROVE  \E s \in Slot : save[s] # NoSave /\ SaveIs(s)
<1>1. ~Quiet
  BY DEF Settled, SeqInv, QuietIs
<1> QED
  BY <1>1 DEF Quiet, SeqInv

\* What does not touch the saves keeps SeqInv, whatever version it makes.
LEMMA SeqFrame ==
    ASSUME SeqTypes, SeqInv, versionId \in Nat, UNCHANGED saveVars,
           versionId' \in Nat, versionId <= versionId',
           versionId' = versionId \/ Settled
    PROVE  SeqTypes' /\ SeqInv'
<1>1. /\ running' = running /\ queued' = queued /\ due' = due /\ pending' = pending /\ save' = save
  BY DEF saveVars
<1>2. SeqTypes'
  BY <1>1 DEF SeqTypes
<1>3. ASSUME NEW s \in Slot, save'[s] # NoSave PROVE SaveIs(s)'
  <2>1. SaveIs(s)
    BY <1>1, <1>3 DEF SeqInv
  <2>2. save[s].task <= versionId' /\ (queued # "none" => save[s].outer < versionId')
    BY <2>1, SlotIs DEF SaveIs
  <2> QED
    BY <1>1, <2>1, <2>2 DEF SaveIs
<1>4. Quiet' => QuietIs'
  <2> SUFFICES ASSUME Quiet' PROVE QuietIs'
    OBVIOUS
  <2>1. QuietIs
    BY <1>1 DEF Quiet, SeqInv
  <2>2. CASE versionId' = versionId
    BY <1>1, <2>1, <2>2 DEF QuietIs
  <2>3. CASE Settled
    BY <1>1, <2>1, <2>3 DEF QuietIs, Settled
  <2> QED
    BY <2>2, <2>3
<1> QED
  BY <1>2, <1>3, <1>4 DEF SeqInv

\* The promises of a save
LEMMA SaveEndsSeq ==
    ASSUME SeqTypes, SeqInv, Settled, versionId \in Nat, versionId' = versionId,
           NEW s \in Slot, save[s].phase # "none", NEW tasks \in Seq(Nat),
           tasks # <<>>, Head(tasks) = save[s].task,
           \A i \in DOMAIN tasks : i > 1 => tasks[i] = save[s].outer,
           SaveEnds(s, tasks)
    PROVE  /\ SeqTypes' /\ SeqInv' /\ Quiet'
           /\ running' = running /\ queued' = queued /\ due' = "none"
<1>1. /\ SaveIs(s) /\ running # NoTask
  BY OneSave
<1>2. /\ running' = running /\ queued' = queued /\ due' = due /\ due = "none" /\ pending = <<>>
      /\ save' = [save EXCEPT ![s] = NoSave] /\ pending' = pending \o tasks
  BY DEF SaveEnds, Settled
<1>3. pending' = tasks
  BY <1>2
<1>4. SeqTypes'
  <2>1. save' \in [Slot -> Call]
    BY <1>2, NoSaveType DEF SeqTypes
  <2> QED
    BY <1>2, <1>3, <2>1 DEF SeqTypes
<1>5. Quiet'
  BY <1>1, <1>2 DEF Quiet, SaveIs, SeqTypes
<1>6. QuietIs'
  <2>1. pending' # <<>> /\ Head(pending') = running'.task
    BY <1>1, <1>2, <1>3 DEF SaveIs
  <2>2. queued' # "none" => \A i \in DOMAIN pending' : i > 1 => pending'[i] < versionId'
    BY <1>1, <1>2, <1>3 DEF SaveIs
  <2> QED
    BY <1>1, <1>2, <2>1, <2>2 DEF QuietIs
<1> QED
  BY <1>2, <1>4, <1>5, <1>6 DEF SeqInv, Quiet

\* What doSave leaves of a call: it may be cancelled, or be a new one.
SameCall(s) ==
    /\ save'[s].phase = save[s].phase /\ save'[s].outer = save[s].outer
    /\ save'[s].task = save[s].task /\ save'[s].overwrite = save[s].overwrite
    /\ save'[s].text = save[s].text /\ save'[s].mtime = save[s].mtime
    /\ save[s] = NoSave => save'[s] = NoSave
NewCall(s) ==
    /\ save'[s].phase \in {"throttled", "participants"}
    /\ save'[s].outer = versionId /\ save'[s].task = versionId
    /\ save'[s].text = 0 /\ save'[s].mtime = 0 /\ ~save'[s].cancelled
    /\ \A t \in Slot \ {s} : save'[t] = NoSave

\* doSave behind a running save
LEMMA QueueSeq ==
    ASSUME SeqTypes, SeqInv, Settled, versionId \in Nat, versionId' = versionId,
           NEW why \in Reason, ~Returns(why), running # NoTask, queued' = why,
           save' = [s \in Slot |-> [save[s] EXCEPT !.cancelled = @ \/ s = running.slot]],
           UNCHANGED <<running, due, pending>>
    PROVE  SeqTypes' /\ SeqInv' /\ \A s \in Slot : SameCall(s)
<1>1. PICK s \in Slot : save[s] # NoSave /\ SaveIs(s)
  BY OneRuns
<1>2. /\ running' = running /\ due' = due /\ pending' = pending /\ due = "none" /\ queued' # "none"
  BY DEF Settled, Reason
<1>3. save' \in [Slot -> Call]
  <2>1. ASSUME NEW t \in Slot
        PROVE  [save[t] EXCEPT !.cancelled = @ \/ t = running.slot] \in Call
    <3>1. save[t] \in Call /\ save[t].cancelled \in BOOLEAN
      BY SlotIs
    <3>2. (save[t].cancelled \/ t = running.slot) \in BOOLEAN
      OBVIOUS
    <3> QED
      BY <3>1, <3>2 DEF Call
  <2> QED
    BY <2>1
<1>4. ASSUME NEW t \in Slot
      PROVE  /\ save'[t].phase = save[t].phase /\ save'[t].outer = save[t].outer
             /\ save'[t].task = save[t].task /\ save'[t].overwrite = save[t].overwrite
             /\ save'[t].text = save[t].text /\ save'[t].mtime = save[t].mtime
             /\ save'[t].cancelled <=> save[t].cancelled \/ t = running.slot
  <2>1. save[t] \in Call /\ save'[t] = [save[t] EXCEPT !.cancelled = @ \/ t = running.slot]
    BY SlotIs
  <2> QED
    BY <2>1 DEF Call
<1>5. ASSUME NEW t \in Slot, save[t] = NoSave PROVE save'[t] = NoSave
  <2>1. t # s
    BY <1>1, <1>5
  <2>2. t # running.slot
    <3>1. running.slot \in {0, s} /\ t # 0
      BY <1>1 DEF SaveIs, Slot
    <3> QED
      BY <2>1, <3>1
  <2>3. save'[t] \in Call
    BY <1>3
  <2>4. save'[t].cancelled = FALSE
    BY <1>4, <1>5, <2>2, <2>3 DEF NoSave, Call
  <2> QED
    <3>1. save'[t] \in Call /\ NoSave \in Call
      BY <2>3, NoSaveType
    <3>2. \A c, d \in Call : /\ c.phase = d.phase /\ c.outer = d.outer /\ c.task = d.task
                            /\ c.overwrite = d.overwrite /\ c.cancelled = d.cancelled
                            /\ c.text = d.text /\ c.mtime = d.mtime
                            => c = d
      BY DEF Call
    <3>3. NoSave.cancelled = FALSE
      BY DEF NoSave
    <3>4. /\ save'[t].phase = NoSave.phase /\ save'[t].outer = NoSave.outer
          /\ save'[t].task = NoSave.task /\ save'[t].overwrite = NoSave.overwrite
          /\ save'[t].text = NoSave.text /\ save'[t].mtime = NoSave.mtime
      BY <1>4, <1>5
    <3>5. save'[t].cancelled = NoSave.cancelled
      BY <2>4, <3>3, Zenon
    <3> QED
      BY <3>1, <3>2, <3>4, <3>5, Zenon
<1>6. \A t \in Slot : SameCall(t)
  BY <1>4, <1>5 DEF SameCall
<1>7. SeqTypes'
  BY <1>2, <1>3 DEF SeqTypes
<1>8. save[s].task < versionId /\ save[s].phase # "participants"
  <2>1. running.task # versionId /\ save[s].phase # "participants"
    BY DEF Returns, Participating
  <2> QED
    BY <1>1, <2>1, SlotIs DEF SaveIs
<1>9. SaveIs(s)'
  <2>1. save[s].outer < versionId
    BY <1>1, <1>8, SlotIs DEF SaveIs
  <2>2. save'[s].phase = "throttled" => save'[s].cancelled
    BY <1>1, <1>4 DEF SaveIs, Accessing
  <2>3. \A t \in Slot \ {s} : save'[t] = NoSave
    BY <1>1, <1>5 DEF SaveIs
  <2> QED
    BY <1>1, <1>2, <1>4, <1>8, <2>1, <2>2, <2>3 DEF SaveIs
<1>10. ~Quiet'
  <2>1. save'[s].phase # "none"
    BY <1>1, <1>4 DEF SaveIs
  <2> QED
    BY <2>1, NoSaveType DEF Quiet
<1>11. \A t \in Slot : save'[t] # NoSave => t = s
  BY <1>9 DEF SaveIs
<1> QED
  BY <1>6, <1>7, <1>9, <1>10, <1>11 DEF SeqInv

\* doSave at once
LEMMA StartSeq ==
    ASSUME SeqTypes, SeqInv, versionId \in Nat, versionId' = versionId, running = NoTask,
           NEW why \in Reason,
           LET s == CHOOSE s \in Slot : save[s] = NoSave IN
           /\ \E p \in FirstPhase(why) :
                 save' = [save EXCEPT ![s] = [NoSave EXCEPT !.phase = p,
                             !.outer = versionId, !.task = versionId,
                             !.overwrite = why = "overwrite"]]
           /\ running' = [task |-> versionId, slot |-> s],
           due # "none" \/ pending = <<>>,
           queued' = queued, pending' = pending, due' = "none"
    PROVE  SeqTypes' /\ SeqInv' /\ \E s \in Slot : NewCall(s)
<1>1. Quiet /\ queued = "none"
  BY NoneRuns
<1>2. PICK s \in Slot : /\ running' = [task |-> versionId, slot |-> s]
                        /\ \E p \in FirstPhase(why) :
                              save' = [save EXCEPT ![s] = [NoSave EXCEPT !.phase = p,
                                 !.outer = versionId, !.task = versionId,
                                 !.overwrite = why = "overwrite"]]
  <2>1. \E s \in Slot : save[s] = NoSave
    BY <1>1 DEF Quiet, Slot
  <2>2. (CHOOSE s \in Slot : save[s] = NoSave) \in Slot
    BY <2>1
  <2> QED
    BY <2>2
<1>3. PICK p \in {"throttled", "participants"} :
         save' = [save EXCEPT ![s] = [NoSave EXCEPT !.phase = p, !.outer = versionId,
                     !.task = versionId, !.overwrite = why = "overwrite"]]
  BY <1>2 DEF FirstPhase
<1> DEFINE new == [NoSave EXCEPT !.phase = p, !.outer = versionId, !.task = versionId,
                                 !.overwrite = why = "overwrite"]
<1>4. /\ new \in Call /\ new.phase = p /\ new.outer = versionId /\ new.task = versionId
      /\ new.text = 0 /\ new.mtime = 0 /\ ~new.cancelled
  <2>1. p \in Phase /\ 0 \in Text /\ (why = "overwrite") \in BOOLEAN
    BY Texts DEF Phase
  <2> QED
    BY <2>1 DEF NoSave, Call
<1>5. save' = [save EXCEPT ![s] = new]
  BY <1>3
<1> HIDE DEF new
<1>6. /\ save'[s] = new /\ \A t \in Slot \ {s} : save'[t] = NoSave
  BY <1>1, <1>5 DEF Quiet, SeqTypes
<1>7. /\ running'.task = versionId /\ running'.slot = s
      /\ running' \in [task : Nat \union {-1}, slot : Slot \union {0}]
  BY <1>2
<1>8. SeqTypes'
  <2>1. save' \in [Slot -> Call]
    BY <1>4, <1>5 DEF SeqTypes
  <2> QED
    BY <1>7, <2>1 DEF SeqTypes
<1>9. NewCall(s)
  BY <1>4, <1>6 DEF NewCall
<1>10. SaveIs(s)'
  <2>1. \A i \in DOMAIN pending : pending[i] < versionId
    BY <1>1 DEF SeqInv, QuietIs
  <2>2. save'[s].phase \in {"throttled", "participants"} /\ save'[s].phase \notin Accessing
        /\ save'[s].phase # "none"
    BY <1>4, <1>6 DEF Accessing
  <2> QED
    <3>1. /\ save'[s].phase \notin Accessing /\ save'[s].phase # "none" /\ ~save'[s].cancelled
          /\ save'[s].outer = versionId /\ save'[s].task = versionId
      BY <1>4, <1>6, <2>2
    <3>2. pending' = pending /\ due' = "none" /\ queued' = "none" /\ versionId <= versionId'
      BY <1>1
    <3> QED
      BY <1>6, <1>7, <2>1, <3>1, <3>2 DEF SaveIs
<1>11. ~Quiet'
  BY <1>6, <1>10, NoSaveType DEF Quiet, SaveIs
<1>12. \A t \in Slot : save'[t] # NoSave => t = s
  BY <1>6
<1> QED
  BY <1>8, <1>9, <1>10, <1>11, <1>12 DEF SeqInv

\* The three outcomes of doSave
LEMMA DoSaveSeq ==
    ASSUME SeqTypes, SeqInv, versionId \in Nat, versionId' = versionId, NEW why \in Reason,
           DoSave(why), Settled \/ (due # "none" /\ running = NoTask),
           pending' = pending, due' = "none"
    PROVE  /\ SeqTypes' /\ SeqInv'
           /\ \/ Returns(why) /\ UNCHANGED <<running, queued, save>>
              \/ ~Returns(why) /\ queued' = why /\ \A s \in Slot : SameCall(s)
              \/ /\ ~Returns(why) /\ running = NoTask /\ queued' = "none"
                 /\ \E s \in Slot : NewCall(s)
<1>1. CASE Returns(why) /\ UNCHANGED <<running, queued, save>>
  <2>1. running' = running /\ queued' = queued /\ save' = save
    BY <1>1
  <2>2. CASE Settled
    <3>1. due' = due /\ UNCHANGED saveVars
      BY <2>1, <2>2 DEF saveVars, Settled
    <3> QED
      BY <1>1, <3>1, SeqFrame
  <2>3. CASE due # "none" /\ running = NoTask
    <3>1. Quiet /\ queued = "none"
      BY <2>3, NoneRuns
    <3>2. SeqTypes' /\ Quiet' /\ QuietIs'
      BY <2>1, <2>3, <3>1 DEF SeqTypes, Quiet, QuietIs
    <3> QED
      BY <1>1, <3>2 DEF SeqInv, Quiet
  <2> QED
    BY <2>2, <2>3
<1>2. CASE /\ ~Returns(why) /\ running # NoTask
           /\ queued' = why
           /\ save' = [s \in Slot |-> [save[s] EXCEPT !.cancelled = @ \/ s = running.slot]]
           /\ UNCHANGED running
  <2>1. Settled /\ UNCHANGED <<running, due, pending>>
    BY <1>2 DEF Settled
  <2> QED
    BY <1>2, <2>1, QueueSeq
<1>3. CASE /\ ~Returns(why) /\ running = NoTask
           /\ LET s == CHOOSE s \in Slot : save[s] = NoSave IN
              /\ \E p \in FirstPhase(why) :
                    save' = [save EXCEPT ![s] = [NoSave EXCEPT !.phase = p,
                                !.outer = versionId, !.task = versionId,
                                !.overwrite = why = "overwrite"]]
              /\ running' = [task |-> versionId, slot |-> s]
           /\ UNCHANGED queued
  <2>1. queued' = "none" /\ (due # "none" \/ pending = <<>>)
    BY <1>3, NoneRuns DEF Settled
  <2> QED
    BY <1>3, <2>1, StartSeq
<1> QED
  BY <1>1, <1>2, <1>3 DEF DoSave

\* A save goes on.
LEMMA PhaseSeq ==
    ASSUME SeqTypes, SeqInv, Settled, versionId \in Nat, versionId' = versionId,
           NEW s \in Slot, NEW p \in Phase,
           \/ save[s].phase = "throttled" /\ ~save[s].cancelled /\ p = "participants"
           \/ save[s].phase \in Accessing /\ p \in Accessing,
           save' = [save EXCEPT ![s].phase = p],
           UNCHANGED <<running, queued, due, pending>>
    PROVE  /\ SeqTypes' /\ SeqInv'
           /\ save'[s].phase = p /\ save'[s].outer = save[s].outer /\ save'[s].task = save[s].task
           /\ save'[s].overwrite = save[s].overwrite /\ save'[s].text = save[s].text
           /\ save'[s].mtime = save[s].mtime /\ save'[s].cancelled = save[s].cancelled
           /\ \A t \in Slot \ {s} : save'[t] = save[t]
<1>1. SaveIs(s) /\ save[s].phase # "none" /\ running # NoTask
  <2>1. save[s].phase # "none"
    BY DEF Accessing
  <2> QED
    BY <2>1, OneSave
<1>2. save' = [save EXCEPT ![s] = [save[s] EXCEPT !.phase = p]]
  OBVIOUS
<1>3. /\ save[s] \in Call /\ [save[s] EXCEPT !.phase = p] \in Call
      /\ save'[s] = [save[s] EXCEPT !.phase = p] /\ \A t \in Slot \ {s} : save'[t] = save[t]
      /\ save' \in [Slot -> Call]
  <2>1. save[s] \in Call
    BY SlotIs
  <2>2. [save[s] EXCEPT !.phase = p] \in Call
    BY <2>1 DEF Call
  <2> QED
    BY <1>2, <2>1, <2>2 DEF SeqTypes
<1>4. /\ save'[s].phase = p /\ save'[s].outer = save[s].outer /\ save'[s].task = save[s].task
      /\ save'[s].overwrite = save[s].overwrite /\ save'[s].text = save[s].text
      /\ save'[s].mtime = save[s].mtime /\ save'[s].cancelled = save[s].cancelled
  BY <1>3 DEF Call
<1>5. SeqTypes'
  BY <1>3 DEF SeqTypes
<1>6. p # "none" /\ p # "throttled" /\ (p \in Accessing <=> save[s].phase \in Accessing)
  BY DEF Accessing
<1>7. p = "participants" => queued = "none"
  BY <1>1 DEF SaveIs, Accessing
<1>8. SaveIs(s)'
  <2>1. \A t \in Slot \ {s} : save'[t] = NoSave
    BY <1>1, <1>3 DEF SaveIs
  <2>2. save'[s].cancelled <=> save[s].cancelled
    BY <1>4
  <2> QED
    BY <1>1, <1>4, <1>6, <1>7, <2>1, <2>2 DEF SaveIs
<1>9. ~Quiet' /\ \A t \in Slot : save'[t] # NoSave => t = s
  BY <1>8, NoSaveType DEF SaveIs, Quiet
<1> QED
  BY <1>3, <1>4, <1>5, <1>8, <1>9 DEF SeqInv

\* The text is taken.
LEMMA TakenSeq ==
    ASSUME TextTypes, SeqTypes, SeqInv, FileTypes, NEW s \in Slot, ParticipantsEnd(s)
    PROVE  /\ SeqTypes' /\ SeqInv' /\ queued = "none"
           /\ save'[s].phase = "checking" /\ save'[s].outer = save[s].outer
           /\ save'[s].task = versionId /\ save'[s].overwrite = save[s].overwrite
           /\ save'[s].text = Shown.text /\ save'[s].mtime = mtime
           /\ \A t \in Slot \ {s} : save'[t] = NoSave
<1>1. /\ Settled /\ save[s].phase = "participants"
      /\ save' = [save EXCEPT ![s] = [save[s] EXCEPT !.phase = "checking", !.task = versionId,
                                         !.text = Shown.text, !.mtime = mtime]]
      /\ running' = [task |-> versionId, slot |-> 0] /\ versionId' = versionId
      /\ queued' = queued /\ due' = due /\ pending' = pending
  BY DEF ParticipantsEnd, textVars
<1>2. SaveIs(s) /\ queued = "none"
  BY <1>1, OneSave DEF SaveIs
<1>3. /\ versionId \in Nat /\ Shown.text \in Text /\ mtime \in Nat /\ "checking" \in Phase
  BY ShownType DEF TextTypes, FileTypes, Phase
<1> DEFINE new == [save[s] EXCEPT !.phase = "checking", !.task = versionId,
                                  !.text = Shown.text, !.mtime = mtime]
<1>4. /\ new \in Call /\ new.phase = "checking" /\ new.task = versionId
      /\ new.text = Shown.text /\ new.mtime = mtime /\ new.outer = save[s].outer
      /\ new.overwrite = save[s].overwrite /\ new.cancelled = save[s].cancelled
  <2>1. save[s] \in Call
    BY SlotIs
  <2> QED
    BY <1>3, <2>1 DEF Call
<1>5. save' = [save EXCEPT ![s] = new]
  BY <1>1
<1> HIDE DEF new
<1>6. save'[s] = new /\ save' \in [Slot -> Call] /\ \A t \in Slot \ {s} : save'[t] = NoSave
  BY <1>2, <1>4, <1>5 DEF SeqTypes, SaveIs
<1>7. SeqTypes'
  <2>1. running' \in [task : Nat \union {-1}, slot : Slot \union {0}]
    BY <1>1, <1>3
  <2> QED
    BY <1>1, <1>6, <2>1 DEF SeqTypes
<1>8. SaveIs(s)'
  <2>1. save[s].outer <= versionId
    BY <1>2, <1>3, SlotIs DEF SaveIs
  <2>2. ~new.cancelled
    BY <1>2, <1>4 DEF SaveIs
  <2>3. running'.task = versionId /\ running'.slot = 0
    BY <1>1
  <2>4. pending' = <<>> /\ due' = "none" /\ queued' = "none" /\ versionId <= versionId'
    BY <1>1, <1>2, <1>3 DEF Settled
  <2>5. save'[s].phase \in Accessing /\ save'[s].phase = "checking"
    BY <1>4, <1>6 DEF Accessing
  <2> QED
    BY <1>4, <1>6, <2>1, <2>2, <2>3, <2>4, <2>5 DEF SaveIs
<1>9. ~Quiet' /\ \A t \in Slot : save'[t] # NoSave => t = s
  BY <1>8, NoSaveType DEF SaveIs, Quiet
<1> QED
  BY <1>2, <1>4, <1>6, <1>7, <1>8, <1>9 DEF SeqInv

\* A callback frees the sequentializer only when nothing is under way any more.
LEMMA DoneSeq ==
    ASSUME SeqTypes, SeqInv, DoneRunning, versionId' = versionId, versionId \in Nat
    PROVE  /\ SeqTypes' /\ SeqInv' /\ save' = save
           /\ \/ running' = running /\ due' = due /\ queued' = queued
              \/ Quiet /\ due = "none" /\ due' = queued /\ queued' = "none"
<1>1. /\ due = "none" /\ pending # <<>> /\ pending' = Tail(pending) /\ save' = save
      /\ \/ running.task = Head(pending) /\ running' = NoTask /\ due' = queued /\ queued' = "none"
         \/ running.task # Head(pending) /\ running' = running /\ due' = due /\ queued' = queued
  BY DEF DoneRunning, Takes
<1>2. /\ pending' \in Seq(Nat) /\ 1 \in DOMAIN pending /\ Head(pending) = pending[1]
      /\ Head(pending) \in Nat
      /\ \A i \in DOMAIN pending' : i + 1 \in DOMAIN pending /\ i + 1 > 1
                                    /\ pending'[i] = pending[i + 1]
  BY <1>1 DEF SeqTypes
<1>3. SeqTypes'
  BY <1>1, <1>2 DEF SeqTypes, NoTask
<1>4. CASE Quiet
  <2>1. QuietIs /\ Quiet'
    BY <1>1, <1>4 DEF Quiet, SeqInv
  <2>2. CASE running = NoTask
    <3>1. running' = running /\ due' = due /\ queued' = queued
      BY <1>1, <1>2, <2>2 DEF NoTask
    <3>2. QuietIs'
      BY <1>1, <2>1, <2>2, <3>1 DEF QuietIs
    <3> QED
      BY <1>1, <1>3, <2>1, <3>1, <3>2 DEF SeqInv, Quiet
  <2>3. CASE running # NoTask
    <3>1. running' = NoTask /\ due' = queued /\ queued' = "none"
      BY <1>1, <2>1, <2>3 DEF QuietIs
    <3>2. queued # "none" => \A i \in DOMAIN pending' : pending'[i] < versionId
      BY <1>2, <2>1, <2>3 DEF QuietIs
    <3>3. QuietIs'
      BY <3>1, <3>2 DEF QuietIs
    <3> QED
      BY <1>1, <1>3, <1>4, <2>1, <3>1, <3>3 DEF SeqInv, Quiet
  <2> QED
    BY <2>2, <2>3
<1>5. CASE ~Quiet
  <2>1. PICK s \in Slot : save[s] # NoSave /\ SaveIs(s)
    BY <1>5 DEF Quiet, SeqInv
  <2>2. running' = running /\ due' = due /\ queued' = queued
    BY <1>1, <1>2, <2>1, SlotIs DEF SaveIs
  <2>3. \A i \in DOMAIN pending' : pending'[i] < running'.task
    BY <1>2, <2>1, <2>2 DEF SaveIs
  <2>4. SaveIs(s)'
    BY <1>1, <2>1, <2>2, <2>3 DEF SaveIs
  <2>5. ~Quiet' /\ \A t \in Slot : save'[t] # NoSave => t = s
    BY <1>1, <1>5, <2>1 DEF Quiet, SaveIs
  <2> QED
    BY <1>1, <1>3, <2>2, <2>4, <2>5 DEF SeqInv
<1> QED
  BY <1>4, <1>5

LEMMA EndsSeq ==
    ASSUME SeqTypes, SeqInv, Settled, versionId \in Nat, versionId' = versionId,
           NEW s \in Slot, save[s].phase # "none",
           \/ SaveEnds(s, <<save[s].task, save[s].outer>>)
           \/ SaveEnds(s, <<save[s].outer>>) /\ save[s].phase \notin Accessing
    PROVE  /\ SeqTypes' /\ SeqInv' /\ Quiet' /\ running' = running /\ queued' = queued /\ due' = "none"
           /\ \A t \in Slot : save'[t] = NoSave
<1>1. SaveIs(s) /\ save[s].outer \in Nat /\ save[s].task \in Nat
  BY OneSave, SlotIs
<1>2. CASE SaveEnds(s, <<save[s].task, save[s].outer>>)
  <2> DEFINE tasks == <<save[s].task, save[s].outer>>
  <2>1. /\ tasks \in Seq(Nat) /\ tasks # <<>> /\ Head(tasks) = save[s].task
        /\ \A i \in DOMAIN tasks : i > 1 => tasks[i] = save[s].outer
        /\ SaveEnds(s, tasks)
    BY <1>1, <1>2
  <2> HIDE DEF tasks
  <2>2. /\ SeqTypes' /\ SeqInv' /\ Quiet' /\ running' = running /\ queued' = queued /\ due' = "none"
    BY <2>1, SaveEndsSeq
  <2> QED
    BY <2>2 DEF Quiet
<1>3. CASE SaveEnds(s, <<save[s].outer>>) /\ save[s].phase \notin Accessing
  <2> DEFINE tasks == <<save[s].outer>>
  <2>1. /\ tasks \in Seq(Nat) /\ tasks # <<>> /\ Head(tasks) = save[s].task
        /\ \A i \in DOMAIN tasks : i > 1 => tasks[i] = save[s].outer
        /\ SaveEnds(s, tasks)
    BY <1>1, <1>3 DEF SaveIs
  <2> HIDE DEF tasks
  <2>2. /\ SeqTypes' /\ SeqInv' /\ Quiet' /\ running' = running /\ queued' = queued /\ due' = "none"
    BY <2>1, SaveEndsSeq
  <2> QED
    BY <2>2 DEF Quiet
<1> QED
  BY <1>2, <1>3

\* How the steps of a save end it, or let it go on.
LEMMA StepSeq ==
    ASSUME TextTypes, SeqTypes, SeqInv, FileTypes, NEW s \in Slot, CancelSave(s) \/ SaveStep(s)
    PROVE  /\ SeqTypes' /\ SeqInv' /\ versionId' = versionId /\ Settled /\ save[s].phase # "none"
           /\ queued' = queued /\ due' = "none"
           /\ \/ \A t \in Slot : save'[t] = NoSave
              \/ /\ save'[s].phase # "none" /\ save'[s].outer = save[s].outer
                 /\ \A t \in Slot \ {s} : save'[t] = NoSave
<1>1. versionId \in Nat /\ versionId' = versionId
  BY DEF TextTypes, CancelSave, SaveStep, ThrottleEnds, ParticipantsEnd, CheckFile, WriteFile,
         StatFile, AccessFails, textVars
<1>2. Settled /\ save[s].phase # "none"
  BY DEF CancelSave, SaveStep, ThrottleEnds, ParticipantsEnd, CheckFile, WriteFile,
         StatFile, AccessFails
<1>3. SaveIs(s) /\ due = "none" /\ \A t \in Slot \ {s} : save[t] = NoSave
  BY <1>2, OneSave DEF SaveIs
<1>4. ASSUME \/ SaveEnds(s, <<save[s].task, save[s].outer>>)
             \/ SaveEnds(s, <<save[s].outer>>) /\ save[s].phase \notin Accessing
      PROVE  /\ SeqTypes' /\ SeqInv' /\ queued' = queued /\ due' = "none"
             /\ \A t \in Slot : save'[t] = NoSave
  BY <1>1, <1>2, <1>4, EndsSeq
<1>5. ASSUME NEW p \in Phase, p # "none",
             \/ save[s].phase = "throttled" /\ ~save[s].cancelled /\ p = "participants"
             \/ save[s].phase \in Accessing /\ p \in Accessing,
             save' = [save EXCEPT ![s].phase = p],
             UNCHANGED <<running, queued, due, pending>>
      PROVE  /\ SeqTypes' /\ SeqInv' /\ queued' = queued /\ due' = "none"
             /\ save'[s].phase # "none" /\ save'[s].outer = save[s].outer
             /\ \A t \in Slot \ {s} : save'[t] = NoSave
  <2>1. /\ SeqTypes' /\ SeqInv'
        /\ save'[s].phase = p /\ save'[s].outer = save[s].outer
        /\ \A t \in Slot \ {s} : save'[t] = save[t]
    BY <1>1, <1>2, <1>5, PhaseSeq
  <2> QED
    BY <1>3, <1>5, <2>1
<1>6. CASE CancelSave(s)
  BY <1>1, <1>2, <1>4, <1>6 DEF CancelSave, Accessing
<1>7. CASE ThrottleEnds(s)
  <2>1. CASE save[s].cancelled
    BY <1>1, <1>2, <1>4, <1>7, <2>1 DEF ThrottleEnds, Accessing
  <2>2. CASE ~save[s].cancelled
    <3>1. /\ save[s].phase = "throttled" /\ "participants" \in Phase
          /\ save' = [save EXCEPT ![s].phase = "participants"]
          /\ UNCHANGED <<running, queued, due, pending>>
      BY <1>7, <2>2 DEF ThrottleEnds, Phase
    <3> QED
      BY <1>1, <1>2, <1>5, <2>2, <3>1
  <2> QED
    BY <2>1, <2>2
<1>8. CASE ParticipantsEnd(s)
  <2>1. queued' = queued /\ due' = due
    BY <1>8 DEF ParticipantsEnd
  <2> QED
    BY <1>1, <1>2, <1>3, <1>8, <2>1, TakenSeq
<1>9. CASE CheckFile(s)
  <2>1. CASE Modified(s)
    BY <1>1, <1>2, <1>4, <1>9, <2>1 DEF CheckFile, HandleSaveError
  <2>2. CASE ~Modified(s)
    <3>1. /\ save[s].phase \in Accessing /\ "writing" \in Phase /\ "writing" \in Accessing
          /\ save' = [save EXCEPT ![s].phase = "writing"]
          /\ UNCHANGED <<running, queued, due, pending>>
      BY <1>9, <2>2 DEF CheckFile, Phase, Accessing
    <3> QED
      BY <1>1, <1>2, <1>5, <3>1
  <2> QED
    BY <2>1, <2>2
<1>10. CASE WriteFile(s)
  <2>1. /\ save[s].phase \in Accessing /\ "stating" \in Phase /\ "stating" \in Accessing
        /\ save' = [save EXCEPT ![s].phase = "stating"]
        /\ UNCHANGED <<running, queued, due, pending>>
    BY <1>10 DEF WriteFile, Phase, Accessing
  <2> QED
    BY <1>1, <1>2, <1>5, <2>1
<1>11. CASE StatFile(s)
  BY <1>1, <1>2, <1>4, <1>11 DEF StatFile, HandleSaveSuccess
<1>12. CASE AccessFails(s)
  BY <1>1, <1>2, <1>4, <1>12 DEF AccessFails, HandleSaveError
<1> QED
  BY <1>6, <1>7, <1>8, <1>9, <1>10, <1>11, <1>12 DEF SaveStep

\* What the other steps leave of the saves
LEMMA OtherSeq ==
    ASSUME TextTypes, SeqTypes, SeqInv,
           \/ Edit \/ UndoOrRedo \/ RevertReads \/ FilesChange \/ Reload \/ ReadStat
           \/ ReadText \/ ReadDone \/ ReadFails \/ ForeignWrite \/ \E how \in Reverts : Revert(how)
    PROVE  /\ SeqTypes' /\ SeqInv' /\ UNCHANGED saveVars /\ due = "none" /\ pending = <<>>
           /\ \/ versionId' = versionId /\ buffer' = buffer
              \/ versionId' = versionId + 1 /\ Settled
<1>1. UNCHANGED saveVars
  BY DEF Edit, UndoOrRedo, RevertReads, FilesChange, Reload, ReadStat, ReadText, ReadDone,
         ReadFails, ForeignWrite, Revert
<1>2. \/ versionId' = versionId /\ buffer' = buffer
      \/ versionId' = versionId + 1 /\ Settled
  <2>1. CASE Edit \/ UndoOrRedo
    BY <2>1 DEF Edit, UndoOrRedo, ContentChanged
  <2>2. CASE ReadDone
    BY <2>2 DEF ReadDone, ResolveFromContent, TakeText
  <2>3. CASE \/ RevertReads \/ FilesChange \/ Reload \/ ReadStat
             \/ ReadText \/ ReadFails \/ ForeignWrite \/ \E how \in Reverts : Revert(how)
    BY <2>3 DEF RevertReads, FilesChange, Reload, ReadStat, ReadText, ReadFails, ForeignWrite,
                Revert, textVars
  <2> QED
    BY <2>1, <2>2, <2>3
<1>3. due = "none" /\ pending = <<>>
  BY DEF Edit, UndoOrRedo, RevertReads, FilesChange, Reload, ReadStat, ReadText, ReadDone,
         ReadFails, ForeignWrite, Revert, Settled
<1>4. versionId \in Nat /\ versionId' \in Nat /\ versionId <= versionId'
  BY <1>2 DEF TextTypes
<1> QED
  BY <1>1, <1>2, <1>3, <1>4, SeqFrame

\* The saves of every step
LEMMA NextSeq ==
    ASSUME TextTypes, SeqTypes, SeqInv, FileTypes, Next
    PROVE  SeqTypes' /\ SeqInv'
<1>1. CASE \E why \in Reason : Save(why)
  <2>1. PICK why \in Reason : Save(why)
    BY <1>1
  <2>2. /\ DoSave(why) /\ Settled /\ pending' = pending /\ due' = "none"
        /\ versionId' = versionId /\ versionId \in Nat
    BY <2>1 DEF Save, Settled, textVars, TextTypes
  <2> QED
    BY <2>2, DoSaveSeq
<1>2. CASE RunQueued
  <2>1. /\ due \in Reason /\ DoSave(due) /\ due # "none" /\ pending' = pending /\ due' = "none"
        /\ versionId' = versionId /\ versionId \in Nat
    BY <1>2 DEF RunQueued, textVars, TextTypes, SeqTypes
  <2>2. running = NoTask
    BY <2>1, OneSave DEF SeqInv, Quiet, QuietIs, SaveIs
  <2> QED
    BY <2>1, <2>2, DoSaveSeq
<1>3. CASE DoneRunning
  <2>1. versionId' = versionId /\ versionId \in Nat
    BY <1>3 DEF DoneRunning, textVars, TextTypes
  <2> QED
    BY <1>3, <2>1, DoneSeq
<1>4. CASE \E s \in Slot : CancelSave(s) \/ SaveStep(s)
  BY <1>4, StepSeq
<1>5. CASE \/ Edit \/ UndoOrRedo \/ RevertReads \/ FilesChange \/ Reload \/ ReadStat
           \/ ReadText \/ ReadDone \/ ReadFails \/ ForeignWrite \/ \E how \in Reverts : Revert(how)
  BY <1>5, OtherSeq
<1> QED
  BY <1>1, <1>2, <1>3, <1>4, <1>5 DEF Next, Work

-----------------------------------------------------------------------------
(* The text and its marks *)

\* A new entry is the last of the stack, and what it does not replace stays.
LEMMA TypedIs ==
    ASSUME TextTypes, NEW text \in Text
    PROVE  LET b == Typed(text) IN
           /\ b \in [stack : Seq(Entry), at : Nat] /\ b.at \in DOMAIN b.stack
           /\ b.stack[b.at].alt = versionId + 1 /\ b.stack[b.at].text = text
           /\ \A i \in DOMAIN b.stack :
                 i # b.at => i \in DOMAIN buffer.stack /\ b.stack[i] = buffer.stack[i]
<1> DEFINE stack == buffer.stack
           at == buffer.at
           new == [alt |-> versionId + 1, text |-> text]
           short == SubSeq(stack, 1, at)
<1>1. /\ stack \in Seq(Entry) /\ at \in Nat /\ at \in DOMAIN stack /\ new \in Entry
  BY DEF TextTypes, Entry
<1>2. new.alt = versionId + 1 /\ new.text = text
  OBVIOUS
<1>3. Typed(text) = [stack |-> Append(short, new), at |-> at + 1]
  BY DEF Typed
<1> HIDE DEF stack, at, new
<1>4. at \in 1..Len(stack) /\ Len(stack) \in Nat /\ DOMAIN stack = 1..Len(stack)
  BY <1>1
<1>5. /\ short \in Seq(Entry) /\ Len(short) = at
      /\ \A i \in 1..at : short[i] = stack[i] /\ i \in DOMAIN stack
  BY <1>1, <1>4
<1> HIDE DEF short
<1>6. /\ Append(short, new) \in Seq(Entry) /\ DOMAIN Append(short, new) = 1..(at + 1)
      /\ Append(short, new)[at + 1] = new
      /\ \A i \in 1..at : Append(short, new)[i] = short[i]
  BY <1>1, <1>5
<1>7. \A i \in 1..(at + 1) : i # at + 1 => i \in 1..at
  BY <1>1
<1>8. at + 1 \in 1..(at + 1) /\ at + 1 \in Nat
  BY <1>1
<1>9. /\ Typed(text).stack = Append(short, new) /\ Typed(text).at = at + 1
      /\ Typed(text) \in [stack : Seq(Entry), at : Nat]
  BY <1>3, <1>6, <1>8
<1> QED
  BY <1>2, <1>5, <1>6, <1>7, <1>8, <1>9 DEF stack

\* What onModelContentChanged leaves, for a text that was typed or found again.
LEMMA ContentIs ==
    ASSUME TextTypes, TextInv, NEW b, ContentChanged(b), save' = save, SeqTypes,
           b \in [stack : Seq(Entry), at : Nat], b.at \in DOMAIN b.stack,
           \A i \in DOMAIN b.stack :
              \/ i \in DOMAIN buffer.stack /\ b.stack[i] = buffer.stack[i]
              \/ i = b.at /\ b.stack[i].alt = versionId + 1,
           undone' \in BOOLEAN, known' = known, seen' = seen,
           \A s \in Slot : save[s] # NoSave => SaveIs(s)
    PROVE  TextTypes' /\ TextInv' /\ (KeptInv => KeptInv')
<1> DEFINE alt == b.stack[b.at].alt
<1>1. /\ buffer' = b /\ versionId' = versionId + 1
      /\ mark' = IF alt = mark.saved THEN Clean(alt) ELSE [mark EXCEPT !.dirty = TRUE]
      /\ asked' = IF alt = mark.saved THEN 0 ELSE asked
  BY DEF ContentChanged
<1>2. /\ versionId \in Nat /\ mark \in Mark /\ asked \in Nat /\ mark.saved \in Nat
      /\ alt \in Nat /\ known \in Text /\ seen \in SUBSET Text
      /\ \A i \in DOMAIN b.stack : b.stack[i].alt \in Nat /\ b.stack[i].text \in Text
  <2>1. \A i \in DOMAIN b.stack : b.stack[i] \in Entry
    OBVIOUS
  <2> QED
    BY <2>1 DEF TextTypes, Entry, Mark
<1>3. /\ mark' \in Mark /\ mark'.saved = mark.saved
      /\ mark'.conflict \/ mark'.error => mark'.dirty
      /\ ~mark'.dirty => alt = mark.saved
  <2>1. CASE alt = mark.saved
    BY <1>1, <1>2, <2>1, CleanType
  <2>2. CASE alt # mark.saved
    BY <1>1, <1>2, <2>2 DEF Mark
  <2> QED
    BY <2>1, <2>2
<1>4. TextTypes'
  BY <1>1, <1>2, <1>3 DEF TextTypes
<1>5. /\ \A i \in DOMAIN b.stack : b.stack[i].alt <= versionId + 1
      /\ \A i, j \in DOMAIN b.stack : b.stack[i].alt = b.stack[j].alt => i = j
  <2>1. \A i \in DOMAIN buffer.stack : buffer.stack[i].alt <= versionId
    BY DEF TextInv
  <2>2. ASSUME NEW i \in DOMAIN b.stack PROVE b.stack[i].alt <= versionId + 1
    BY <1>2, <2>1
  <2>3. ASSUME NEW i \in DOMAIN b.stack, NEW j \in DOMAIN b.stack, b.stack[i].alt = b.stack[j].alt
        PROVE  i = j
    <3>1. \A k \in DOMAIN buffer.stack : b.stack[k].alt # versionId + 1 \/ b.stack[k] # buffer.stack[k]
      BY <1>2, <2>1
    <3> QED
      BY <2>3, <3>1 DEF TextInv
  <2> QED
    BY <2>2, <2>3
<1>6. \A s \in Slot : save'[s].phase \in Accessing => save'[s].task # versionId'
  <2> SUFFICES ASSUME NEW s \in Slot, save[s].phase \in Accessing PROVE save[s].task # versionId + 1
    BY <1>1
  <2>1. SaveIs(s)
    BY NoSaveType DEF Accessing
  <2> QED
    BY <1>2, <2>1, SlotIs DEF SaveIs
<1>7. TextInv'
  <2>1. mark'.saved <= versionId + 1 /\ asked' <= versionId + 1
    BY <1>1, <1>2, <1>3 DEF TextInv
  <2> QED
    BY <1>1, <1>5, <1>6, <2>1 DEF TextInv
<1>8. ASSUME KeptInv PROVE KeptInv'
  <2>1. \A i \in DOMAIN b.stack : b.stack[i].alt = mark.saved => b.stack[i].text \in seen
    <3> SUFFICES ASSUME NEW i \in DOMAIN b.stack, b.stack[i].alt = mark.saved
                 PROVE  b.stack[i].text \in seen
      OBVIOUS
    <3>1. b.stack[i].alt # versionId + 1
      BY <1>2 DEF TextInv
    <3> QED
      BY <1>8, <3>1 DEF KeptInv
  <2> QED
    BY <1>1, <1>3, <2>1 DEF KeptInv, Shown
<1> QED
  BY <1>4, <1>7, <1>8

\* A text that is read replaces what is shown, and is clean.
LEMMA TakeIs ==
    ASSUME TextTypes, TextInv, SeqTypes, read.text \in Text, TakeText, save' = save,
           undone' = undone, asked' = asked,
           \A s \in Slot : save[s] # NoSave => SaveIs(s)
    PROVE  TextTypes' /\ TextInv' /\ KeptInv' /\ ~mark'.dirty
<1> DEFINE b == IF read.text = Shown.text THEN buffer ELSE Typed(read.text)
           alt == b.stack[b.at].alt
<1>1. /\ buffer' = b /\ versionId' = IF b = buffer THEN versionId ELSE versionId + 1
      /\ mark' = Clean(alt) /\ known' = read.text /\ seen' = seen \union {read.text}
  BY DEF TakeText
<1>2. /\ versionId \in Nat /\ asked \in Nat /\ seen \in SUBSET Text /\ undone \in BOOLEAN
      /\ buffer \in [stack : Seq(Entry), at : Nat] /\ buffer.at \in DOMAIN buffer.stack
  BY DEF TextTypes
<1>3. /\ b \in [stack : Seq(Entry), at : Nat] /\ b.at \in DOMAIN b.stack
      /\ b.stack[b.at].text = read.text
      /\ \A i \in DOMAIN b.stack :
            i # b.at => i \in DOMAIN buffer.stack /\ b.stack[i] = buffer.stack[i]
      /\ b = buffer \/ b.stack[b.at].alt = versionId + 1
  <2>1. CASE read.text = Shown.text
    BY <1>2, <2>1 DEF Shown
  <2>2. CASE read.text # Shown.text
    BY <2>2, TypedIs
  <2> QED
    BY <2>1, <2>2
<1> HIDE DEF b
<1>4. /\ \A i \in DOMAIN b.stack : b.stack[i].alt \in Nat
      /\ \A i \in DOMAIN buffer.stack : buffer.stack[i].alt \in Nat
  <2>1. /\ \A i \in DOMAIN b.stack : b.stack[i] \in Entry
        /\ \A i \in DOMAIN buffer.stack : buffer.stack[i] \in Entry
    BY <1>2, <1>3
  <2> QED
    BY <2>1 DEF Entry
<1>5. alt \in Nat /\ Clean(alt) \in Mark /\ ~Clean(alt).dirty /\ ~Clean(alt).conflict
      /\ ~Clean(alt).error /\ Clean(alt).saved = alt
  BY <1>3, <1>4, CleanType
<1>6. TextTypes'
  BY <1>1, <1>2, <1>3, <1>5 DEF TextTypes
<1>7. /\ \A i \in DOMAIN b.stack : b.stack[i].alt <= versionId'
      /\ \A i, j \in DOMAIN b.stack : b.stack[i].alt = b.stack[j].alt => i = j
      /\ versionId' \in Nat /\ versionId <= versionId'
  <2>1. CASE b = buffer
    BY <1>1, <1>2, <2>1 DEF TextInv
  <2>2. CASE b # buffer
    <3>1. versionId' = versionId + 1 /\ b.stack[b.at].alt = versionId + 1
      BY <1>1, <1>3, <2>2
    <3>2. \A i \in DOMAIN b.stack : i # b.at => b.stack[i].alt <= versionId
      BY <1>3 DEF TextInv
    <3>3. ASSUME NEW i \in DOMAIN b.stack PROVE b.stack[i].alt <= versionId'
      BY <1>2, <1>4, <3>1, <3>2
    <3>4. ASSUME NEW i \in DOMAIN b.stack, NEW j \in DOMAIN b.stack, b.stack[i].alt = b.stack[j].alt
          PROVE  i = j
      <4>1. i = b.at <=> j = b.at
        BY <1>2, <1>4, <3>1, <3>2, <3>4
      <4> QED
        BY <1>3, <3>4, <4>1 DEF TextInv
    <3> QED
      BY <1>2, <3>1, <3>3, <3>4
  <2> QED
    BY <2>1, <2>2
<1>8. \A s \in Slot : save'[s].phase \in Accessing /\ save'[s].task = versionId'
                      => save'[s].text = Shown'.text
  <2> SUFFICES ASSUME NEW s \in Slot, save[s].phase \in Accessing, save[s].task = versionId'
               PROVE  save[s].text = Shown'.text
    OBVIOUS
  <2>1. SaveIs(s) /\ save[s].task \in Nat
    BY NoSaveType, SlotIs DEF Accessing
  <2>2. versionId' = versionId
    BY <1>1, <1>2, <2>1 DEF SaveIs
  <2>3. b = buffer
    BY <1>1, <1>2, <2>2
  <2> QED
    BY <1>1, <2>2, <2>3 DEF TextInv, Shown
<1>9. TextInv'
  <2>1. mark'.saved <= versionId' /\ asked' <= versionId'
    BY <1>1, <1>2, <1>3, <1>5, <1>7 DEF TextInv
  <2> QED
    BY <1>1, <1>7, <1>8, <2>1 DEF TextInv
<1>10. KeptInv'
  <2>1. \A i \in DOMAIN b.stack : b.stack[i].alt = alt => b.stack[i].text = read.text
    BY <1>3, <1>7
  <2> QED
    BY <1>1, <1>5, <2>1 DEF KeptInv, Shown
<1> QED
  BY <1>1, <1>5, <1>6, <1>9, <1>10

\* What changes only the marks of the text
LEMMA MarksAre ==
    ASSUME TextTypes, TextInv, buffer' = buffer, versionId' = versionId, undone' = undone,
           mark' \in Mark, mark'.conflict \/ mark'.error => mark'.dirty,
           mark'.saved <= versionId,
           known' \in Text, seen' \in SUBSET Text, seen \subseteq seen',
           asked' \in Nat, asked' <= versionId,
           \A s \in Slot : save'[s].phase \in Accessing /\ save'[s].task = versionId
                           => save'[s].text = Shown.text
    PROVE  /\ TextTypes' /\ TextInv'
           /\ /\ KeptInv
              /\ mark'.saved = mark.saved \/ (mark'.saved = Shown.alt /\ Shown.text \in seen')
              /\ ~mark'.dirty => mark'.saved = Shown.alt \/ (mark'.saved = mark.saved /\ ~mark.dirty)
              => KeptInv'
<1>1. TextTypes'
  BY DEF TextTypes
<1>2. TextInv'
  BY DEF TextInv, Shown
<1>3. ASSUME KeptInv,
             mark'.saved = mark.saved \/ (mark'.saved = Shown.alt /\ Shown.text \in seen'),
             ~mark'.dirty => mark'.saved = Shown.alt \/ (mark'.saved = mark.saved /\ ~mark.dirty)
      PROVE  KeptInv'
  <2>1. ASSUME NEW i \in DOMAIN buffer.stack, buffer.stack[i].alt = mark'.saved
        PROVE  buffer.stack[i].text \in seen'
    <3>1. CASE mark'.saved = mark.saved
      BY <1>3, <2>1, <3>1 DEF KeptInv
    <3>2. CASE mark'.saved = Shown.alt /\ Shown.text \in seen'
      <4>1. i = buffer.at
        BY <2>1, <3>2 DEF TextInv, TextTypes, Shown
      <4> QED
        BY <3>2, <4>1 DEF Shown
    <3> QED
      BY <1>3, <3>1, <3>2
  <2>2. ~mark'.dirty => Shown.alt = mark'.saved
    BY <1>3 DEF KeptInv
  <2> QED
    BY <2>1, <2>2 DEF KeptInv, Shown
<1> QED
  BY <1>1, <1>2, <1>3

LEMMA OwedIs == \A version, n \in Nat :
    asked \in Nat /\ asked <= n => Owed(version) \in Nat /\ Owed(version) <= n
  BY DEF Owed

\* The steps of a save
LEMMA StepText ==
    ASSUME ModelInv, NEW s \in Slot, CancelSave(s) \/ SaveStep(s)
    PROVE  TextTypes' /\ TextInv' /\ (KeptInv => KeptInv')
<1>1. TextTypes /\ SeqTypes /\ FileTypes /\ SeqInv /\ TextInv
  BY DEF ModelInv, Types
<1>2. /\ buffer' = buffer /\ versionId' = versionId /\ undone' = undone
  BY DEF CancelSave, SaveStep, ThrottleEnds, ParticipantsEnd, CheckFile, WriteFile,
         StatFile, AccessFails, textVars
<1>3. /\ versionId \in Nat /\ mark \in Mark /\ (mark.conflict \/ mark.error => mark.dirty)
      /\ known \in Text /\ seen \in SUBSET Text /\ asked \in Nat /\ asked <= versionId
      /\ mark.saved <= versionId /\ mark.saved \in Nat
  BY <1>1 DEF TextTypes, TextInv, Mark
<1>4. /\ Shown.alt \in Nat /\ Shown.text \in Text /\ Shown.alt <= versionId
  BY <1>1, ShownType DEF TextInv, TextTypes, Shown
<1>5. /\ SaveIs(s) /\ save[s].task \in Nat /\ save[s].text \in Text /\ save[s].phase # "none"
      /\ \A t \in Slot \ {s} : save[t] = NoSave
  <2>1. save[s].phase # "none"
    BY <1>1, StepSeq
  <2> QED
    BY <1>1, <2>1, OneSave, SlotIs DEF SaveIs
<1>6. ASSUME \A t \in Slot : save'[t] = NoSave
      PROVE  \A t \in Slot : save'[t].phase \in Accessing /\ save'[t].task = versionId
                             => save'[t].text = Shown.text
  BY <1>6, NoSaveType DEF Accessing
<1>7. ASSUME NEW p \in Phase, save[s].phase \in Accessing \/ p \notin Accessing,
             save' = [save EXCEPT ![s].phase = p]
      PROVE  \A t \in Slot : save'[t].phase \in Accessing /\ save'[t].task = versionId
                             => save'[t].text = Shown.text
  <2>1. save' = [save EXCEPT ![s] = [save[s] EXCEPT !.phase = p]]
    BY <1>7
  <2>2. save[s] \in Call
    BY <1>1, SlotIs
  <2>3. /\ save'[s].phase = p /\ save'[s].task = save[s].task /\ save'[s].text = save[s].text
        /\ \A t \in Slot \ {s} : save'[t] = save[t]
    BY <1>1, <2>1, <2>2 DEF SeqTypes, Call
  <2> QED
    BY <1>1, <1>7, <2>3 DEF TextInv
<1>8. ASSUME mark' = mark, known' = known, seen' = seen, asked' \in {0, asked},
             \A t \in Slot : save'[t].phase \in Accessing /\ save'[t].task = versionId
                             => save'[t].text = Shown.text
      PROVE  TextTypes' /\ TextInv' /\ (KeptInv => KeptInv')
  <2>1. asked' \in Nat /\ asked' <= versionId
    BY <1>3, <1>8
  <2> QED
    BY <1>1, <1>2, <1>3, <1>8, <2>1, MarksAre
<1>9. ASSUME NEW conflict \in BOOLEAN, HandleSaveError(s, conflict)
      PROVE  TextTypes' /\ TextInv' /\ (KeptInv => KeptInv')
  <2>1. /\ mark' \in Mark /\ mark'.dirty /\ mark'.saved = mark.saved
    <3>1. mark' = [mark EXCEPT !.dirty = TRUE, !.error = TRUE, !.conflict = @ \/ conflict]
      BY <1>9 DEF HandleSaveError, Failed
    <3> QED
      BY <1>3, <3>1 DEF Mark
  <2>2. asked' \in Nat /\ asked' <= versionId /\ known' = known /\ seen' = seen
    BY <1>3, <1>5, <1>9, OwedIs DEF HandleSaveError
  <2>3. \A t \in Slot : save'[t] = NoSave
    BY <1>5, <1>1, <1>9 DEF HandleSaveError, SaveEnds, SeqTypes
  <2> QED
    BY <1>1, <1>2, <1>3, <1>6, <2>1, <2>2, <2>3, MarksAre
<1>10. CASE CancelSave(s)
  <2>1. /\ mark' = mark /\ known' = known /\ seen' = seen /\ asked' \in {0, asked}
        /\ \A t \in Slot : save'[t] = NoSave
    BY <1>1, <1>5, <1>10 DEF CancelSave, SaveEnds, SeqTypes
  <2> QED
    BY <1>6, <1>8, <2>1
<1>11. CASE ThrottleEnds(s)
  <2>1. mark' = mark /\ known' = known /\ seen' = seen /\ asked' \in {0, asked}
    BY <1>11 DEF ThrottleEnds
  <2>2. \A t \in Slot : save'[t].phase \in Accessing /\ save'[t].task = versionId
                        => save'[t].text = Shown.text
    <3>1. CASE save[s].cancelled
      <4>1. \A t \in Slot : save'[t] = NoSave
        BY <1>1, <1>5, <1>11, <3>1 DEF ThrottleEnds, SaveEnds, SeqTypes
      <4> QED
        BY <1>6, <4>1
    <3>2. CASE ~save[s].cancelled
      <4>1. save' = [save EXCEPT ![s].phase = "participants"]
        BY <1>11, <3>2 DEF ThrottleEnds
      <4>2. "participants" \in Phase /\ "participants" \notin Accessing
        BY DEF Phase, Accessing
      <4> QED
        BY <1>7, <4>1, <4>2
    <3> QED
      BY <3>1, <3>2
  <2> QED
    BY <1>8, <2>1, <2>2
<1>12. CASE ParticipantsEnd(s)
  <2>1. mark' = [mark EXCEPT !.error = FALSE] /\ known' = known /\ seen' = seen /\ asked' = asked
    BY <1>12 DEF ParticipantsEnd
  <2>2. /\ mark' \in Mark /\ (mark'.dirty <=> mark.dirty) /\ mark'.saved = mark.saved
        /\ mark'.conflict \/ mark'.error => mark'.dirty
    BY <1>3, <2>1 DEF Mark
  <2>3. save'[s].text = Shown.text /\ \A t \in Slot \ {s} : save'[t] = NoSave
    BY <1>1, <1>12, TakenSeq
  <2>4. \A t \in Slot : save'[t].phase \in Accessing /\ save'[t].task = versionId
                        => save'[t].text = Shown.text
    BY <2>3, NoSaveType DEF Accessing
  <2> QED
    BY <1>1, <1>2, <1>3, <2>1, <2>2, <2>4, MarksAre
<1>13. CASE CheckFile(s)
  <2>1. CASE Modified(s)
    BY <1>9, <1>13, <2>1 DEF CheckFile
  <2>2. CASE ~Modified(s)
    <3>1. /\ mark' = mark /\ known' = known /\ seen' = seen /\ asked' \in {0, asked}
          /\ save' = [save EXCEPT ![s].phase = "writing"] /\ save[s].phase \in Accessing
      BY <1>13, <2>2 DEF CheckFile, Accessing
    <3>2. "writing" \in Phase
      BY DEF Phase
    <3> QED
      BY <1>7, <1>8, <3>1, <3>2
  <2> QED
    BY <2>1, <2>2
<1>14. CASE WriteFile(s)
  <2>1. /\ mark' = mark /\ known' = known /\ seen' = seen /\ asked' \in {0, asked}
        /\ save' = [save EXCEPT ![s].phase = "stating"] /\ save[s].phase \in Accessing
    BY <1>14 DEF WriteFile, Accessing
  <2>2. "stating" \in Phase
    BY DEF Phase
  <2> QED
    BY <1>7, <1>8, <2>1, <2>2
<1>15. CASE StatFile(s)
  <2>1. /\ mark' = IF Unchanged(s) THEN Clean(Shown.alt) ELSE mark
        /\ known' = save[s].text /\ seen' = seen \union {save[s].text}
        /\ asked' = Owed(save[s].task) /\ save[s].phase \in Accessing
        /\ save' = [save EXCEPT ![s] = NoSave]
    BY <1>15 DEF StatFile, HandleSaveSuccess, SaveEnds, Accessing
  <2>2. /\ asked' \in Nat /\ asked' <= versionId /\ known' \in Text /\ seen' \in SUBSET Text
        /\ seen \subseteq seen'
    BY <1>3, <1>5, <2>1, OwedIs
  <2>3. \A t \in Slot : save'[t] = NoSave
    BY <1>1, <1>5, <2>1 DEF SeqTypes
  <2>4. CASE Unchanged(s)
    <3>1. /\ mark' \in Mark /\ ~mark'.dirty /\ ~mark'.conflict /\ ~mark'.error
          /\ mark'.saved = Shown.alt
      BY <1>4, <2>1, <2>4, CleanType
    <3>2. Shown.text \in seen'
      BY <1>1, <2>1, <2>4 DEF Unchanged, TextInv
    <3> QED
      BY <1>1, <1>2, <1>4, <1>6, <2>2, <2>3, <3>1, <3>2, MarksAre
  <2>5. CASE ~Unchanged(s)
    <3>1. mark' = mark
      BY <2>1, <2>5
    <3> QED
      BY <1>1, <1>2, <1>3, <1>6, <2>2, <2>3, <3>1, MarksAre
  <2> QED
    BY <2>4, <2>5
<1>16. CASE AccessFails(s)
  BY <1>9, <1>16 DEF AccessFails
<1> QED
  BY <1>10, <1>11, <1>12, <1>13, <1>14, <1>15, <1>16 DEF SaveStep

\* The other steps
LEMMA NextText ==
    ASSUME ModelInv, Next
    PROVE  /\ TextTypes' /\ TextInv'
           /\ KeptInv /\ revert.phase = "none" /\ (Work \/ ForeignWrite) => KeptInv'
<1>1. /\ TextTypes /\ SeqTypes /\ FileTypes /\ ReadTypes /\ SeqInv /\ TextInv /\ ReadInv
  BY DEF ModelInv, Types
<1>2. /\ versionId \in Nat /\ mark \in Mark /\ (mark.conflict \/ mark.error => mark.dirty)
      /\ known \in Text /\ seen \in SUBSET Text /\ asked \in Nat /\ asked <= versionId
      /\ mark.saved <= versionId /\ mark.saved \in Nat /\ undone \in BOOLEAN
      /\ buffer \in [stack : Seq(Entry), at : Nat] /\ buffer.at \in DOMAIN buffer.stack
  BY <1>1 DEF TextTypes, TextInv, Mark
<1>3. /\ Shown.alt \in Nat /\ Shown.text \in Text /\ Shown.alt <= versionId
  BY <1>1, ShownType DEF TextInv, TextTypes, Shown
<1>4. \A s \in Slot : save[s] # NoSave => SaveIs(s)
  BY <1>1 DEF SeqInv
<1>5. ASSUME save' = save \/ \A s \in Slot : SameCall(s) \/ save'[s].phase \notin Accessing,
             buffer' = buffer, versionId' = versionId, undone' = undone, mark' = mark,
             known' = known, seen' = seen, asked' \in {asked, versionId}
      PROVE  TextTypes' /\ TextInv' /\ (KeptInv => KeptInv')
  <2>1. \A s \in Slot : save'[s].phase \in Accessing /\ save'[s].task = versionId
                        => save'[s].text = Shown.text
    BY <1>1, <1>5 DEF SameCall, TextInv
  <2>2. asked' \in Nat /\ asked' <= versionId
    BY <1>2, <1>5
  <2> QED
    BY <1>1, <1>2, <1>5, <2>1, <2>2, MarksAre
<1>6. CASE Edit
  <2> DEFINE b == Typed(versionId + 1)
  <2>1. /\ ContentChanged(b) /\ save' = save /\ undone' \in BOOLEAN /\ known' = known /\ seen' = seen
        /\ versionId < MaxVersion
    BY <1>2, <1>6 DEF Edit, saveVars
  <2>2. versionId + 1 \in Text
    BY <1>2, <2>1, Texts
  <2>3. /\ b \in [stack : Seq(Entry), at : Nat] /\ b.at \in DOMAIN b.stack
        /\ \A i \in DOMAIN b.stack :
              \/ i \in DOMAIN buffer.stack /\ b.stack[i] = buffer.stack[i]
              \/ i = b.at /\ b.stack[i].alt = versionId + 1
    BY <1>1, <2>2, TypedIs
  <2> HIDE DEF b
  <2> QED
    BY <1>1, <1>4, <2>1, <2>3, ContentIs
<1>7. CASE UndoOrRedo
  <2>1. PICK at \in {buffer.at - 1, buffer.at + 1} \cap DOMAIN buffer.stack :
           ContentChanged([buffer EXCEPT !.at = at])
    BY <1>7 DEF UndoOrRedo
  <2> DEFINE b == [buffer EXCEPT !.at = at]
  <2>2. ContentChanged(b) /\ save' = save /\ undone' \in BOOLEAN /\ known' = known /\ seen' = seen
    BY <1>7, <2>1 DEF UndoOrRedo, saveVars
  <2>3. /\ b \in [stack : Seq(Entry), at : Nat] /\ b.at \in DOMAIN b.stack
        /\ \A i \in DOMAIN b.stack : i \in DOMAIN buffer.stack /\ b.stack[i] = buffer.stack[i]
    BY <1>2, <2>1
  <2> HIDE DEF b
  <2> QED
    BY <1>1, <1>4, <2>2, <2>3, ContentIs
<1>8. CASE \E why \in Reason : Save(why)
  <2>1. PICK why \in Reason : Save(why)
    BY <1>8
  <2>2. /\ DoSave(why) /\ Settled /\ pending' = pending /\ due' = "none"
        /\ buffer' = buffer /\ versionId' = versionId /\ undone' = undone /\ mark' = mark
        /\ known' = known /\ seen' = seen /\ asked' \in {asked, versionId}
    BY <2>1 DEF Save, Settled, textVars
  <2>3. \/ save' = save
        \/ \A s \in Slot : SameCall(s)
        \/ \E s \in Slot : NewCall(s)
    BY <1>1, <1>2, <2>2, DoSaveSeq
  <2>4. (\E s \in Slot : NewCall(s)) => \A s \in Slot : save'[s].phase \notin Accessing
    BY NoSaveType DEF NewCall, Accessing
  <2> QED
    BY <1>5, <2>2, <2>3, <2>4
<1>9. CASE RunQueued
  <2>1. /\ due \in Reason /\ DoSave(due) /\ due # "none" /\ pending' = pending /\ due' = "none"
        /\ buffer' = buffer /\ versionId' = versionId /\ undone' = undone /\ mark' = mark
        /\ known' = known /\ seen' = seen /\ asked' \in {asked, versionId}
    BY <1>1, <1>9 DEF RunQueued, textVars, SeqTypes
  <2>2. running = NoTask
    BY <1>1, <2>1, OneSave DEF SeqInv, Quiet, QuietIs, SaveIs
  <2>3. \/ save' = save
        \/ \A s \in Slot : SameCall(s)
        \/ \E s \in Slot : NewCall(s)
    BY <1>1, <1>2, <2>1, <2>2, DoSaveSeq
  <2>4. (\E s \in Slot : NewCall(s)) => \A s \in Slot : save'[s].phase \notin Accessing
    BY NoSaveType DEF NewCall, Accessing
  <2> QED
    BY <1>5, <2>1, <2>3, <2>4
<1>10. CASE \E s \in Slot : CancelSave(s) \/ SaveStep(s)
  BY <1>10, StepText
<1>11. CASE ReadDone
  <2>1. save' = save /\ undone' = undone /\ asked' = asked
    BY <1>11 DEF ReadDone, saveVars
  <2>2. CASE read.version = versionId
    <3>1. TakeText /\ read.text \in Text
      BY <1>1, <1>11, <2>2 DEF ReadDone, ResolveFromContent, ReadTypes
    <3> QED
      BY <1>1, <1>4, <2>1, <3>1, TakeIs
  <2>3. CASE read.version # versionId
    <3>1. buffer' = buffer /\ versionId' = versionId /\ mark' = mark /\ known' = known /\ seen' = seen
      BY <1>11, <2>3 DEF ReadDone, ResolveFromContent
    <3> QED
      BY <1>5, <2>1, <3>1
  <2> QED
    BY <2>2, <2>3
<1>12. CASE ReadFails
  <2>1. /\ buffer' = buffer /\ versionId' = versionId /\ undone' = undone /\ save' = save
        /\ known' = known /\ seen' = seen /\ asked' = asked
        /\ mark' = IF revert.phase = "reads" THEN revert.undo ELSE mark
    BY <1>12 DEF ReadFails, textVars, saveVars
  <2>2. CASE revert.phase = "reads"
    <3>1. /\ mark' \in Mark /\ mark'.saved <= versionId
          /\ mark'.conflict \/ mark'.error => mark'.dirty
      BY <1>1, <2>1, <2>2 DEF ReadTypes, ReadInv
    <3>2. \A s \in Slot : save'[s].phase \in Accessing /\ save'[s].task = versionId
                          => save'[s].text = Shown.text
      BY <1>1, <2>1 DEF TextInv
    <3> QED
      BY <1>1, <1>2, <2>1, <2>2, <3>1, <3>2, MarksAre
  <2>3. CASE revert.phase # "reads"
    BY <1>5, <2>1, <2>3
  <2> QED
    BY <2>2, <2>3
<1>13. CASE DoneRunning \/ RevertReads \/ FilesChange \/ Reload \/ ReadStat \/ ReadText \/ ForeignWrite
  <2>1. /\ buffer' = buffer /\ versionId' = versionId /\ undone' = undone /\ save' = save
        /\ known' = known /\ seen' = seen /\ asked' = asked /\ mark' = mark
    BY <1>13 DEF DoneRunning, RevertReads, FilesChange, Reload, ReadStat, ReadText, ForeignWrite,
                 textVars, saveVars
  <2> QED
    BY <1>5, <2>1
<1>14. ASSUME NEW how \in Reverts, Revert(how) PROVE TextTypes' /\ TextInv'
  <2>1. /\ buffer' = buffer /\ versionId' = versionId /\ undone' = undone /\ save' = save
        /\ known' = known /\ seen' = seen /\ asked' = 0 /\ mark' = Clean(Shown.alt)
    BY <1>14 DEF Revert, textVars, saveVars
  <2>2. /\ mark' \in Mark /\ ~mark'.conflict /\ ~mark'.error /\ mark'.saved = Shown.alt
    BY <1>3, <2>1, CleanType
  <2>3. \A s \in Slot : save'[s].phase \in Accessing /\ save'[s].task = versionId
                        => save'[s].text = Shown.text
    BY <1>1, <2>1 DEF TextInv
  <2> QED
    BY <1>1, <1>2, <1>3, <2>1, <2>2, <2>3, MarksAre
<1> QED
  BY <1>6, <1>7, <1>8, <1>9, <1>10, <1>11, <1>12, <1>13, <1>14 DEF Next, Work

-----------------------------------------------------------------------------
(* Reads and the file *)

ReadType == [on : BOOLEAN, version : Nat, etag : Nat, stat : Nat, has : BOOLEAN, text : Text]

LEMMA NoReadType == NoRead \in ReadType /\ ~NoRead.on /\ NoRead.version = 0
<1>1. 0 \in Text
  BY Texts
<1> QED
  BY <1>1 DEF NoRead, ReadType

LEMMA NewReadType ==
    ASSUME versionId \in Nat, mtime \in Nat
    PROVE  /\ NewRead \in ReadType /\ NewRead.on /\ NewRead.version = versionId
           /\ NewRead.stat = 0 /\ ~NewRead.has
<1>1. 0 \in Text
  BY Texts
<1> QED
  BY <1>1 DEF NewRead, NoRead, ReadType

LEMMA NoRevertType == /\ NoRevert \in [phase : {"none", "joins", "reads"}, undo : Mark]
                      /\ NoRevert.phase = "none" /\ NoRevert.undo.saved = 0
                      /\ ~NoRevert.undo.conflict /\ ~NoRevert.undo.error
<1>1. Clean(0) \in Mark /\ ~Clean(0).conflict /\ ~Clean(0).error /\ Clean(0).saved = 0
  BY CleanType
<1> QED
  BY <1>1 DEF NoRevert

\* What reads nothing keeps ReadInv.
LEMMA ReadFrame ==
    ASSUME ModelInv, UNCHANGED readVars, versionId' \in Nat, versionId <= versionId',
           \A s \in Slot : save'[s] # NoSave =>
              \/ save[s] # NoSave /\ save'[s].outer = save[s].outer
              \/ save'[s].outer = versionId
    PROVE  ReadTypes' /\ ReadInv' /\ revert' = revert
<1>1. /\ read' = read /\ reloads' = reloads /\ revert' = revert /\ ReadTypes /\ ReadInv
      /\ SeqTypes /\ versionId \in Nat /\ read.version \in Nat
  BY DEF readVars, ModelInv, Types, TextTypes, ReadTypes
<1>2. ReadTypes'
  BY <1>1 DEF ReadTypes
<1>3. ASSUME NEW s \in Slot, save'[s] # NoSave, read'.on PROVE read'.version <= save'[s].outer
  BY <1>1, <1>3 DEF ReadInv
<1>4. read.version <= versionId' /\ revert.undo.saved <= versionId'
  <2>1. revert.undo.saved \in Nat
    BY <1>1 DEF ReadTypes, Mark
  <2> QED
    BY <1>1, <2>1 DEF ReadInv
<1>5. ReadInv'
  BY <1>1, <1>3, <1>4 DEF ReadInv
<1> QED
  BY <1>1, <1>2, <1>5

LEMMA ReadEndsIs ==
    ASSUME ModelInv, read.on, ReadEnds, save' = save, versionId' \in Nat, versionId <= versionId'
    PROVE  /\ ReadTypes' /\ ReadInv' /\ (revert.phase = "none" => revert'.phase = "none")
           /\ read' = NoRead
<1>1. /\ ReadTypes /\ ReadInv /\ versionId \in Nat /\ read' = NoRead
      /\ revert.undo.saved \in Nat /\ revert.undo.saved <= versionId
  BY DEF ModelInv, Types, TextTypes, ReadTypes, ReadInv, Mark, ReadEnds
<1>2. ReadTypes' /\ revert'.undo.saved <= versionId
      /\ (revert.phase = "none" => revert'.phase = "none")
      /\ (revert'.undo.conflict \/ revert'.undo.error => revert'.undo.dirty)
  <2>1. CASE revert.phase = "reads"
    <3>1. revert' = NoRevert /\ reloads' = reloads
      BY <2>1 DEF ReadEnds
    <3> QED
      BY <1>1, <2>1, <3>1, NoReadType, NoRevertType DEF ReadTypes, ReadType
  <2>2. CASE revert.phase # "reads"
    <3>1. revert' = revert /\ reloads' = reloads - 1 /\ reloads > 0 /\ reloads \in 0..2
      BY <1>1, <2>2 DEF ReadEnds, ReadInv, ReadTypes
    <3>2. reloads' \in 0..2
      BY <3>1
    <3> QED
      BY <1>1, <3>1, <3>2, NoReadType DEF ReadTypes, ReadType, ReadInv
  <2> QED
    BY <2>1, <2>2
<1>3. ReadInv'
  <2>1. revert'.undo.saved \in Nat
    BY <1>2 DEF ReadTypes, Mark
  <2>2. revert'.undo.saved <= versionId' /\ 0 <= versionId'
    BY <1>1, <1>2, <2>1
  <2>3. ~read'.on /\ read'.version = 0
    BY <1>1, NoReadType
  <2> QED
    BY <1>2, <2>2, <2>3 DEF ReadInv
<1> QED
  BY <1>1, <1>2, <1>3

\* A read that begins, for a reload or for a revert
LEMMA ReadBegins ==
    ASSUME ModelInv, running = NoTask, read' = NewRead, save' = save, versionId' = versionId,
           \/ revert' = revert /\ reloads' = reloads /\ reloads > 0
           \/ revert'.phase = "reads" /\ reloads' = reloads,
           revert' \in [phase : {"none", "joins", "reads"}, undo : Mark],
           revert'.undo.conflict \/ revert'.undo.error => revert'.undo.dirty,
           revert'.undo.saved <= versionId
    PROVE  ReadTypes' /\ ReadInv'
<1>1. /\ ReadTypes /\ SeqTypes /\ SeqInv /\ versionId \in Nat /\ mtime \in Nat
  BY DEF ModelInv, Types, TextTypes, FileTypes
<1>2. NewRead \in ReadType /\ NewRead.version = versionId
  BY <1>1, NewReadType
<1>3. ReadTypes'
  BY <1>1, <1>2 DEF ReadTypes, ReadType
<1>4. \A s \in Slot : save'[s] = NoSave
  BY <1>1, NoneRuns DEF Quiet
<1>5. ReadInv'
  BY <1>1, <1>2, <1>4 DEF ReadInv
<1> QED
  BY <1>3, <1>5

LEMMA NextRead ==
    ASSUME ModelInv, Next
    PROVE  /\ ReadTypes' /\ ReadInv'
           /\ revert.phase = "none" /\ (Work \/ ForeignWrite) => revert'.phase = "none"
<1>1. /\ TextTypes /\ SeqTypes /\ FileTypes /\ ReadTypes /\ SeqInv /\ TextInv /\ ReadInv
  BY DEF ModelInv, Types
<1>2. /\ versionId \in Nat /\ mark \in Mark /\ (mark.conflict \/ mark.error => mark.dirty)
      /\ mark.saved <= versionId /\ mark.saved \in Nat
  BY <1>1 DEF TextTypes, TextInv, Mark
<1>3. ASSUME UNCHANGED readVars, save' = save,
             versionId' = versionId \/ versionId' = versionId + 1
      PROVE  ReadTypes' /\ ReadInv' /\ revert' = revert
  <2>1. versionId' \in Nat /\ versionId <= versionId'
    BY <1>2, <1>3
  <2> QED
    BY <1>3, <2>1, ReadFrame
<1>4. CASE Edit \/ UndoOrRedo
  <2>1. UNCHANGED readVars /\ save' = save /\ versionId' = versionId + 1
    BY <1>4 DEF Edit, UndoOrRedo, ContentChanged, saveVars
  <2> QED
    BY <1>3, <2>1
<1>5. CASE DoneRunning \/ ForeignWrite
  <2>1. UNCHANGED readVars /\ save' = save /\ versionId' = versionId
    BY <1>5 DEF DoneRunning, ForeignWrite, textVars, saveVars
  <2> QED
    BY <1>3, <2>1
<1>6. CASE (\E why \in Reason : Save(why)) \/ RunQueued
  <2>1. \E why \in Reason : /\ DoSave(why) /\ pending' = pending /\ due' = "none"
                            /\ Settled \/ (due # "none" /\ running = NoTask)
    <3>1. CASE \E why \in Reason : Save(why)
      BY <3>1 DEF Save, Settled
    <3>2. CASE RunQueued
      <4>1. due \in Reason /\ DoSave(due) /\ due # "none" /\ pending' = pending /\ due' = "none"
        BY <1>1, <3>2 DEF RunQueued, SeqTypes
      <4>2. running = NoTask
        BY <1>1, <4>1, OneSave DEF SeqInv, Quiet, QuietIs, SaveIs
      <4> QED
        BY <4>1, <4>2
    <3> QED
      BY <1>6, <3>1, <3>2
  <2>2. UNCHANGED readVars /\ versionId' = versionId
    BY <1>6 DEF Save, RunQueued, textVars
  <2>3. \/ save' = save
        \/ \A s \in Slot : SameCall(s)
        \/ \E s \in Slot : NewCall(s)
    BY <1>1, <1>2, <2>1, <2>2, DoSaveSeq
  <2>4. \A s \in Slot : save'[s] # NoSave =>
           \/ save[s] # NoSave /\ save'[s].outer = save[s].outer
           \/ save'[s].outer = versionId
    BY <2>3 DEF SameCall, NewCall
  <2> QED
    BY <1>2, <2>2, <2>4, ReadFrame
<1>7. CASE \E s \in Slot : CancelSave(s) \/ SaveStep(s)
  <2>1. PICK s \in Slot : CancelSave(s) \/ SaveStep(s)
    BY <1>7
  <2>2. UNCHANGED readVars
    BY <2>1 DEF CancelSave, SaveStep, ThrottleEnds, ParticipantsEnd, CheckFile, WriteFile,
         StatFile, AccessFails
  <2>3. /\ versionId' = versionId /\ save[s].phase # "none"
        /\ \/ \A t \in Slot : save'[t] = NoSave
           \/ /\ save'[s].outer = save[s].outer
              /\ \A t \in Slot \ {s} : save'[t] = NoSave
    BY <1>1, <2>1, StepSeq
  <2>4. \A t \in Slot : save'[t] # NoSave =>
           \/ save[t] # NoSave /\ save'[t].outer = save[t].outer
           \/ save'[t].outer = versionId
    BY <2>3, NoSaveType
  <2> QED
    BY <1>2, <2>2, <2>3, <2>4, ReadFrame
<1>8. CASE ReadDone \/ ReadFails
  <2>1. read.on /\ ReadEnds /\ save' = save
    BY <1>8 DEF ReadDone, ReadFails, saveVars
  <2>2. versionId' = versionId \/ versionId' = versionId + 1
    BY <1>8 DEF ReadDone, ReadFails, ResolveFromContent, TakeText, textVars
  <2>3. versionId' \in Nat /\ versionId <= versionId'
    BY <1>2, <2>2
  <2> QED
    BY <2>1, <2>3, ReadEndsIs
<1>9. CASE ReadStat
  <2>1. read.on /\ save' = save /\ versionId' = versionId
    BY <1>9 DEF ReadStat, saveVars, textVars
  <2>2. CASE ReadEnds
    <3>1. versionId' \in Nat /\ versionId <= versionId'
      BY <1>2, <2>1
    <3> QED
      BY <2>1, <2>2, <3>1, ReadEndsIs
  <2>3. CASE read' = [read EXCEPT !.stat = disk.mtime] /\ UNCHANGED <<reloads, revert>>
    <3>1. /\ read' \in ReadType /\ read'.on /\ read'.version = read.version
          /\ reloads' = reloads /\ revert' = revert
      BY <1>1, <2>1, <2>3 DEF ReadTypes, ReadType, FileTypes
    <3>2. ReadTypes'
      BY <1>1, <3>1 DEF ReadTypes, ReadType
    <3>3. ReadInv'
      BY <1>1, <2>1, <3>1 DEF ReadInv
    <3> QED
      BY <3>1, <3>2, <3>3
  <2> QED
    BY <1>9, <2>2, <2>3 DEF ReadStat
<1>10. CASE ReadText
  <2>1. /\ read.on /\ save' = save /\ versionId' = versionId /\ reloads' = reloads /\ revert' = revert
        /\ read' = [read EXCEPT !.has = TRUE, !.text = disk.text]
    BY <1>10 DEF ReadText, saveVars, textVars
  <2>2. read' \in ReadType /\ read'.on /\ read'.version = read.version
    BY <1>1, <2>1 DEF ReadTypes, ReadType, FileTypes
  <2>3. ReadTypes'
    BY <1>1, <2>1, <2>2 DEF ReadTypes, ReadType
  <2>4. ReadInv'
    BY <1>1, <2>1, <2>2 DEF ReadInv
  <2> QED
    BY <2>1, <2>3, <2>4
<1>11. CASE FilesChange
  <2>1. /\ read' = read /\ revert' = revert /\ save' = save /\ versionId' = versionId
        /\ reloads' = IF mark.dirty \/ reloads = 2 THEN reloads ELSE reloads + 1
    BY <1>11 DEF FilesChange, saveVars, textVars
  <2>2. reloads' \in 0..2 /\ (reloads > 0 => reloads' > 0)
    <3>1. reloads \in 0..2
      BY <1>1 DEF ReadTypes
    <3> QED
      BY <2>1, <3>1
  <2>3. ReadTypes'
    BY <1>1, <2>1, <2>2 DEF ReadTypes
  <2>4. ReadInv'
    BY <1>1, <2>1, <2>2 DEF ReadInv
  <2> QED
    BY <2>1, <2>3, <2>4
<1>12. CASE Reload
  <2>1. /\ reloads > 0 /\ ~read.on /\ save' = save /\ versionId' = versionId /\ revert' = revert
    BY <1>12 DEF Reload, saveVars, textVars
  <2>2. CASE mark.dirty \/ running # NoTask
    <3>1. read' = read /\ reloads' = reloads - 1
      BY <1>12, <2>2 DEF Reload
    <3>2. reloads' \in 0..2
      <4>1. reloads \in 0..2
        BY <1>1 DEF ReadTypes
      <4> QED
        BY <2>1, <3>1, <4>1
    <3>3. ReadTypes'
      BY <1>1, <2>1, <3>1, <3>2 DEF ReadTypes
    <3>4. ReadInv'
      BY <1>1, <2>1, <3>1 DEF ReadInv
    <3> QED
      BY <2>1, <3>3, <3>4
  <2>3. CASE ~(mark.dirty \/ running # NoTask)
    <3>1. read' = NewRead /\ reloads' = reloads /\ running = NoTask
      BY <1>12, <2>3 DEF Reload
    <3>2. /\ revert' \in [phase : {"none", "joins", "reads"}, undo : Mark]
          /\ revert'.undo.conflict \/ revert'.undo.error => revert'.undo.dirty
          /\ revert'.undo.saved <= versionId
      BY <1>1, <2>1 DEF ReadTypes, ReadInv
    <3> QED
      BY <2>1, <3>1, <3>2, ReadBegins
  <2> QED
    BY <2>2, <2>3
<1>13. CASE RevertReads
  <2>1. revert.phase = "joins" /\ ~read.on /\ save' = save /\ versionId' = versionId /\ reloads' = reloads
    BY <1>13 DEF RevertReads, saveVars, textVars
  <2>2. CASE mark.dirty \/ running # NoTask
    <3>1. read' = read /\ revert' = NoRevert
      BY <1>13, <2>2 DEF RevertReads
    <3>2. ReadTypes'
      BY <1>1, <2>1, <3>1, NoRevertType DEF ReadTypes
    <3>3. ReadInv'
      BY <1>1, <1>2, <2>1, <3>1, NoRevertType DEF ReadInv
    <3> QED
      BY <2>1, <3>2, <3>3
  <2>3. CASE ~(mark.dirty \/ running # NoTask)
    <3>1. read' = NewRead /\ revert' = [revert EXCEPT !.phase = "reads"] /\ running = NoTask
      BY <1>13, <2>3 DEF RevertReads
    <3>2. /\ revert' \in [phase : {"none", "joins", "reads"}, undo : Mark]
          /\ revert'.phase = "reads" /\ revert'.undo = revert.undo
      BY <1>1, <3>1 DEF ReadTypes
    <3>3. /\ revert'.undo.conflict \/ revert'.undo.error => revert'.undo.dirty
          /\ revert'.undo.saved <= versionId
      BY <1>1, <3>2 DEF ReadInv
    <3> QED
      BY <2>1, <3>1, <3>2, <3>3, ReadBegins
  <2> QED
    BY <2>2, <2>3
<1>14. ASSUME NEW how \in Reverts, Revert(how) PROVE ReadTypes' /\ ReadInv'
  <2>1. revert = NoRevert /\ save' = save /\ versionId' = versionId /\ reloads' = reloads
    BY <1>14 DEF Revert, saveVars, textVars
  <2>2. CASE UNCHANGED <<read, revert>>
    <3>1. UNCHANGED readVars
      BY <2>1, <2>2 DEF readVars
    <3> QED
      BY <1>3, <2>1, <3>1
  <2>3. CASE read.on /\ revert' = [phase |-> "joins", undo |-> mark] /\ UNCHANGED read
    <3>1. revert'.phase = "joins" /\ revert'.undo = mark /\ read' = read
      BY <2>3
    <3>2. ReadTypes'
      BY <1>1, <1>2, <2>1, <2>3 DEF ReadTypes
    <3>3. ReadInv'
      BY <1>1, <1>2, <2>1, <2>3, <3>1, NoRevertType DEF ReadInv
    <3> QED
      BY <3>2, <3>3
  <2>4. CASE /\ ~read.on /\ running = NoTask
             /\ revert' = [phase |-> "reads", undo |-> mark] /\ read' = NewRead
    <3>1. /\ revert' \in [phase : {"none", "joins", "reads"}, undo : Mark]
          /\ revert'.phase = "reads" /\ revert'.undo = mark
      BY <1>2, <2>4
    <3> QED
      BY <1>2, <2>1, <2>4, <3>1, ReadBegins
  <2> QED
    BY <1>14, <2>2, <2>3, <2>4 DEF Revert
<1> QED
  BY <1>4, <1>5, <1>6, <1>7, <1>8, <1>9, <1>10, <1>11, <1>12, <1>13, <1>14 DEF Next, Work

LEMMA NextFile ==
    ASSUME ModelInv, Next
    PROVE  FileTypes'
<1>1. /\ TextTypes /\ SeqTypes /\ FileTypes /\ ReadTypes
  BY DEF ModelInv, Types
<1>2. /\ mtime \in Nat /\ disk \in [text : Text, mtime : Nat] /\ disk.mtime \in Nat
      /\ foreign \in 0..MaxForeign /\ event \in BOOLEAN /\ read.stat \in Nat
      /\ mtime' \in {mtime, Later(mtime, disk.mtime), Later(mtime, read.stat)} => mtime' \in Nat
  BY <1>1 DEF FileTypes, ReadTypes, Later
<1>3. ASSUME NEW text \in Text, PutFile(text)
      PROVE  disk' \in [text : Text, mtime : Nat] /\ event' \in BOOLEAN
  BY <1>2, <1>3 DEF PutFile
<1>4. CASE mtime' \in {mtime, Later(mtime, disk.mtime), Later(mtime, read.stat)} /\ UNCHANGED fileVars
  BY <1>2, <1>4 DEF FileTypes, fileVars
<1>5. CASE \E s \in Slot : CancelSave(s) \/ SaveStep(s)
  <2>1. PICK s \in Slot : CancelSave(s) \/ SaveStep(s)
    BY <1>5
  <2>2. CASE CancelSave(s) \/ ThrottleEnds(s) \/ ParticipantsEnd(s)
    BY <1>4, <2>2 DEF CancelSave, ThrottleEnds, ParticipantsEnd
  <2>3. CASE CheckFile(s)
    BY <1>4, <2>3 DEF CheckFile, HandleSaveError
  <2>4. CASE WriteFile(s)
    <3>1. PutFile(save[s].text) /\ foreign' = foreign /\ mtime' = mtime /\ save[s].text \in Text
      BY <1>1, <2>4, SlotIs DEF WriteFile
    <3> QED
      BY <1>2, <1>3, <3>1 DEF FileTypes
  <2>5. CASE StatFile(s)
    BY <1>4, <2>5 DEF StatFile, HandleSaveSuccess
  <2>6. CASE AccessFails(s)
    <3>1. mtime' = mtime
      BY <2>6 DEF AccessFails, HandleSaveError
    <3>2. CASE UNCHANGED fileVars
      BY <1>4, <3>1, <3>2
    <3>3. CASE PutFile(Broken) /\ UNCHANGED foreign
      BY <1>2, <1>3, <3>1, <3>3, Texts DEF FileTypes
    <3> QED
      BY <2>6, <3>2, <3>3 DEF AccessFails
  <2> QED
    BY <2>1, <2>2, <2>3, <2>4, <2>5, <2>6 DEF SaveStep
<1>6. CASE ForeignWrite
  <2>1. /\ PutFile(-(foreign + 2)) /\ foreign' = foreign + 1 /\ mtime' = mtime /\ foreign < MaxForeign
    BY <1>6 DEF ForeignWrite
  <2>2. -(foreign + 2) \in Text /\ foreign + 1 \in 0..MaxForeign
    <3>1. foreign \in Nat
      BY <1>2, Constants
    <3> QED
      BY <2>1, <3>1, Texts, Constants
  <2> QED
    BY <1>2, <1>3, <2>1, <2>2 DEF FileTypes
<1>7. CASE FilesChange
  BY <1>2, <1>7 DEF FilesChange, FileTypes
<1>8. CASE \/ Edit \/ UndoOrRedo \/ DoneRunning \/ RunQueued \/ \E why \in Reason : Save(why)
  BY <1>4, <1>8 DEF Edit, UndoOrRedo, DoneRunning, RunQueued, Save
<1>9. CASE \/ RevertReads \/ Reload \/ ReadStat \/ ReadText \/ ReadFails
           \/ \E how \in Reverts : Revert(how)
  BY <1>4, <1>9 DEF RevertReads, Reload, ReadStat, ReadText, ReadFails, Revert
<1>10. CASE ReadDone
  BY <1>4, <1>10 DEF ReadDone, ReadStatFirst
<1> QED
  BY <1>5, <1>6, <1>7, <1>8, <1>9, <1>10 DEF Next, Work

LEMMA NextModel == ModelInv /\ [Next]_vars => ModelInv'
<1>1. ASSUME ModelInv, Next PROVE ModelInv'
  <2>1. TextTypes /\ SeqTypes /\ FileTypes /\ SeqInv
    BY <1>1 DEF ModelInv, Types
  <2>2. SeqTypes' /\ SeqInv'
    BY <1>1, <2>1, NextSeq
  <2>3. TextTypes' /\ TextInv' /\ ReadTypes' /\ ReadInv' /\ FileTypes'
    BY <1>1, NextText, NextRead, NextFile
  <2> QED
    BY <2>2, <2>3 DEF ModelInv, Types
<1>2. ASSUME ModelInv, UNCHANGED vars PROVE ModelInv'
  <2>1. /\ buffer' = buffer /\ versionId' = versionId /\ mark' = mark /\ mtime' = mtime
        /\ running' = running /\ queued' = queued /\ due' = due /\ pending' = pending
        /\ save' = save /\ read' = read /\ reloads' = reloads /\ revert' = revert
        /\ undone' = undone /\ disk' = disk /\ foreign' = foreign /\ event' = event
        /\ known' = known /\ seen' = seen /\ asked' = asked
    BY <1>2 DEF vars
  <2>2. Types'
    BY <1>2, <2>1 DEF ModelInv, Types, TextTypes, SeqTypes, ReadTypes, FileTypes
  <2>3. SeqInv'
    BY <1>2, <2>1 DEF ModelInv, SeqInv, SaveIs, Quiet, QuietIs
  <2>4. ReadInv' /\ TextInv'
    BY <1>2, <2>1 DEF ModelInv, ReadInv, TextInv, Shown
  <2> QED
    BY <2>2, <2>3, <2>4 DEF ModelInv
<1> QED
  BY <1>1, <1>2

LEMMA ModelHolds == Spec => []ModelInv
  BY InitModel, NextModel, PTL DEF Spec

LEMMA OneAccess == ModelInv => OneWrite
<1> SUFFICES ASSUME ModelInv, NEW s \in Slot, NEW t \in Slot,
                    {save[s].phase, save[t].phase} \subseteq Accessing
             PROVE  s = t
  BY DEF OneWrite, Accessing
<1>1. SeqTypes /\ SeqInv /\ save[s].phase # "none" /\ save[t].phase # "none"
  BY DEF ModelInv, Types, Accessing
<1> QED
  BY <1>1, OneSave, NoSaveType

\* Every variable keeps its type; a model in conflict or error is dirty, and at most one
\* reload waits behind another (TextFileEditorModel, TextFileEditorModelManager).
THEOREM TextFileTypes == Spec => []TypeOK
  BY ModelHolds, TypesImply, PTL DEF ModelInv

\* Two saves never access the file at the same time, whatever is queued, cancelled or
\* settles late (TextFileEditorModel.doSave, TaskSequentializer).
THEOREM OneWriteTheorem == Spec => []OneWrite
  BY ModelHolds, OneAccess, PTL

\* A read replaces the text only if nothing was typed since it began
\* (TextFileEditorModel.resolveFromFile).
THEOREM TypedTheorem == Spec => TypedStays
<1>1. ASSUME Next, read.on, buffer' # buffer, read' = NoRead PROVE read.version = versionId
  <2>1. CASE Edit \/ UndoOrRedo
    <3>1. read' = read
      BY <2>1 DEF Edit, UndoOrRedo, readVars
    <3> QED
      BY <1>1, <3>1, NoReadType
  <2>2. CASE ReadDone
    BY <1>1, <2>2 DEF ReadDone, ResolveFromContent
  <2>3. CASE \/ DoneRunning \/ RunQueued \/ RevertReads \/ FilesChange \/ Reload \/ ReadStat
             \/ ReadText \/ ReadFails \/ ForeignWrite
             \/ (\E why \in Reason : Save(why)) \/ \E how \in Reverts : Revert(how)
    BY <1>1, <2>3 DEF DoneRunning, RunQueued, RevertReads, FilesChange, Reload, ReadStat,
       ReadText, ReadFails, ForeignWrite, Save, Revert, textVars
  <2>4. CASE \E s \in Slot : CancelSave(s) \/ SaveStep(s)
    BY <1>1, <2>4 DEF CancelSave, SaveStep, ThrottleEnds, ParticipantsEnd, CheckFile,
       WriteFile, StatFile, AccessFails, textVars
  <2> QED
    BY <1>1, <2>1, <2>2, <2>3, <2>4 DEF Next, Work
<1>2. [Next]_vars => [read.on /\ buffer' # buffer /\ read' = NoRead => read.version = versionId]_vars
  BY <1>1
<1> QED
  BY <1>2, PTL DEF Spec, TypedStays

-----------------------------------------------------------------------------
(* No save is forgotten *)

\* doSave covers what is owed, when it is asked for and when it runs what was queued.
LEMMA DoSaveCovers ==
    ASSUME ModelInv, NEW why \in Reason, DoSave(why), versionId' = versionId, mark' = mark,
           pending' = pending, due' = "none", CoveredInv,
           \/ Settled /\ asked' = IF mark.dirty \/ why = "force" THEN versionId ELSE asked
           \/ due # "none" /\ running = NoTask /\ why = due /\ asked' = asked
    PROVE  CoveredInv'
<1>1. /\ SeqTypes /\ SeqInv /\ versionId \in Nat /\ asked \in Nat /\ asked <= versionId
      /\ asked' \in Nat /\ asked' <= versionId
  BY DEF ModelInv, Types, TextTypes, TextInv
<1>2. \/ Returns(why) /\ UNCHANGED <<running, queued, save>>
      \/ ~Returns(why) /\ queued' = why /\ \A s \in Slot : SameCall(s)
      \/ /\ ~Returns(why) /\ running = NoTask /\ queued' = "none"
         /\ \E s \in Slot : NewCall(s)
  BY <1>1, DoSaveSeq
<1>3. asked' # 0 /\ due' \notin {"none", "force"} => mark'.dirty
  OBVIOUS
<1>4. CASE Returns(why) /\ UNCHANGED <<running, queued, save>>
  <2>1. running' = running /\ queued' = queued /\ save' = save
    BY <1>4
  <2>2. CASE Participating
    <3>1. PICK s \in Slot : save[s].phase = "participants"
      BY <2>2 DEF Participating
    <3>2. SaveIs(s)
      BY <1>1, <3>1, OneSave
    <3>3. queued = "none" /\ Covers(s)'
      BY <2>1, <3>1, <3>2 DEF SaveIs, Covers
    <3> QED
      BY <1>3, <2>1, <3>3 DEF CoveredInv
  <2>3. CASE ~Participating /\ running.task = versionId
    <3>1. Settled /\ running # NoTask
      BY <1>1, <2>3 DEF NoTask
    <3>2. PICK s \in Slot : save[s] # NoSave /\ SaveIs(s)
      BY <1>1, <3>1, OneRuns
    <3>3. save[s].task = versionId /\ asked' <= save[s].task
      BY <1>1, <2>3, <3>2 DEF SaveIs
    <3>4. CASE save[s].phase \in Accessing
      <4>1. Writes(s)'
        BY <2>1, <3>3, <3>4 DEF Writes
      <4> QED
        BY <1>3, <4>1 DEF CoveredInv, Covers
    <3>5. CASE save[s].phase \notin Accessing
      <4>1. save[s].phase = "throttled" \/ save[s].phase = "participants"
        BY <1>1, <3>2, <3>5, SlotIs DEF SaveIs, Phase, Accessing
      <4>2. queued = "none"
        BY <1>1, <3>2, <3>3, <3>5 DEF SaveIs
      <4>3. Covers(s)'
        BY <2>1, <4>1 DEF Covers
      <4> QED
        BY <1>3, <2>1, <4>2, <4>3 DEF CoveredInv
    <3> QED
      BY <3>4, <3>5
  <2>4. CASE ~Participating /\ running.task # versionId
    <3>1. why # "force" /\ ~mark.dirty
      BY <1>4, <2>4 DEF Returns
    <3>2. asked' = asked
      BY <3>1
    <3>3. CASE Settled
      <4>1. due = "none"
        BY <3>3 DEF Settled
      <4> QED
        BY <1>3, <2>1, <3>2, <4>1 DEF CoveredInv, Covers, Writes
    <3>4. CASE due # "none" /\ running = NoTask /\ why = due
      <4>1. asked = 0
        BY <3>1, <3>4 DEF CoveredInv
      <4> QED
        BY <3>2, <4>1 DEF CoveredInv
    <3> QED
      BY <3>3, <3>4
  <2> QED
    BY <2>2, <2>3, <2>4
<1>5. CASE ~Returns(why) /\ queued' = why /\ \A s \in Slot : SameCall(s)
  <2>1. queued' # "none" /\ (queued' = "force" \/ mark.dirty)
    BY <1>5 DEF Returns, Reason
  <2> QED
    BY <1>3, <2>1 DEF CoveredInv
<1>6. CASE /\ ~Returns(why) /\ running = NoTask /\ queued' = "none"
           /\ \E s \in Slot : NewCall(s)
  <2>1. \E s \in Slot : Covers(s)'
    BY <1>6 DEF NewCall, Covers
  <2> QED
    BY <1>3, <1>6, <2>1 DEF CoveredInv
<1> QED
  BY <1>2, <1>4, <1>5, <1>6

\* The steps of a save
LEMMA StepCovers ==
    ASSUME ModelInv, NEW s \in Slot, CancelSave(s) \/ SaveStep(s), CoveredInv
    PROVE  CoveredInv'
<1>1. /\ TextTypes /\ SeqTypes /\ FileTypes /\ SeqInv /\ versionId \in Nat /\ asked \in Nat
      /\ asked <= versionId
  BY DEF ModelInv, Types, TextTypes, TextInv
<1>2. /\ save[s].phase # "none" /\ queued' = queued /\ due' = "none" /\ Settled
  BY <1>1, StepSeq
<1>3. /\ SaveIs(s) /\ save[s].task \in Nat /\ \A t \in Slot : t # s => save[t] = NoSave
  BY <1>1, <1>2, OneSave, SlotIs
<1>4. \A t \in Slot : Covers(t) => t = s
  BY <1>3, NoSaveType DEF Covers, Writes, Accessing
<1>5. /\ asked # 0 => queued # "none" \/ Covers(s)
      /\ asked # 0 /\ queued \notin {"none", "force"} => mark.dirty \/ Writes(s)
  BY <1>2, <1>4 DEF CoveredInv, Covers, Settled
<1>6. ASSUME NEW conflict \in BOOLEAN, HandleSaveError(s, conflict), save[s].phase \in Accessing
      PROVE  CoveredInv'
  <2>1. mark'.dirty /\ asked' = Owed(save[s].task)
    BY <1>1, <1>6 DEF HandleSaveError, Failed, TextTypes, Mark
  <2>2. asked' # 0 => asked' = asked /\ ~Writes(s)
    BY <2>1 DEF Owed, Writes
  <2>3. asked' # 0 => queued' # "none"
    BY <1>2, <1>5, <1>6, <2>2 DEF Covers, Accessing
  <2> QED
    BY <1>2, <2>1, <2>3 DEF CoveredInv
<1>7. ASSUME save' = [save EXCEPT ![s].phase = "writing"] \/ save' = [save EXCEPT ![s].phase = "stating"],
             save[s].phase \in Accessing, mark' = mark, asked' = asked
      PROVE  CoveredInv'
  <2>1. /\ save'[s].phase \in Accessing /\ save'[s].task = save[s].task
    BY <1>1, <1>7 DEF SeqTypes, Call, Accessing
  <2>2. Covers(s) => Covers(s)' /\ Writes(s)'
    BY <1>7, <2>1 DEF Covers, Writes, Accessing
  <2>3. Writes(s) => Writes(s)'
    BY <1>7, <2>1 DEF Writes
  <2> QED
    BY <1>2, <1>5, <1>7, <2>2, <2>3 DEF CoveredInv
<1>8. CASE CancelSave(s)
  <2>1. queued = "none" /\ asked' = 0
    BY <1>3, <1>8 DEF CancelSave, SaveIs
  <2> QED
    BY <2>1 DEF CoveredInv
<1>9. CASE ThrottleEnds(s)
  <2>1. /\ save[s].phase = "throttled" /\ mark' = mark /\ asked' = asked
    BY <1>9 DEF ThrottleEnds
  <2>2. ~Writes(s)
    BY <2>1 DEF Writes, Accessing
  <2>3. CASE save[s].cancelled
    <3>1. queued # "none"
      BY <1>3, <2>3 DEF SaveIs
    <3> QED
      BY <1>2, <1>5, <2>1, <2>2, <3>1 DEF CoveredInv
  <2>4. CASE ~save[s].cancelled
    <3>1. queued = "none"
      BY <1>3, <2>1, <2>4 DEF SaveIs
    <3>2. save' = [save EXCEPT ![s].phase = "participants"]
      BY <1>9, <2>4 DEF ThrottleEnds
    <3>3. save'[s].phase = "participants"
      BY <1>1, <3>2 DEF SeqTypes, Call
    <3> QED
      BY <1>2, <3>1, <3>3 DEF CoveredInv, Covers
  <2> QED
    BY <2>3, <2>4
<1>10. CASE ParticipantsEnd(s)
  <2>1. queued = "none" /\ save'[s].phase = "checking" /\ save'[s].task = versionId
    BY <1>1, <1>10, TakenSeq
  <2>2. asked' = asked
    BY <1>10 DEF ParticipantsEnd
  <2>3. Covers(s)'
    BY <1>1, <2>1, <2>2 DEF Covers, Writes, Accessing
  <2> QED
    BY <1>2, <2>1, <2>3 DEF CoveredInv
<1>11. CASE CheckFile(s)
  <2>1. save[s].phase \in Accessing
    BY <1>11 DEF CheckFile, Accessing
  <2>2. CASE Modified(s)
    BY <1>6, <1>11, <2>1, <2>2 DEF CheckFile
  <2>3. CASE ~Modified(s)
    <3>1. save' = [save EXCEPT ![s].phase = "writing"] /\ mark' = mark /\ asked' = asked
      BY <1>11, <2>3 DEF CheckFile
    <3> QED
      BY <1>7, <2>1, <3>1
  <2> QED
    BY <2>2, <2>3
<1>12. CASE WriteFile(s)
  <2>1. /\ save[s].phase \in Accessing /\ save' = [save EXCEPT ![s].phase = "stating"]
        /\ mark' = mark /\ asked' = asked
    BY <1>12 DEF WriteFile, Accessing
  <2> QED
    BY <1>7, <2>1
<1>13. CASE StatFile(s)
  <2>1. /\ mark' = IF Unchanged(s) THEN Clean(Shown.alt) ELSE mark
        /\ asked' = Owed(save[s].task) /\ save[s].phase \in Accessing
    BY <1>13 DEF StatFile, HandleSaveSuccess, Accessing
  <2>2. asked' # 0 => asked' = asked /\ ~Writes(s) /\ asked > save[s].task
    BY <1>1, <1>3, <2>1 DEF Owed, Writes
  <2>3. asked' # 0 => queued' # "none"
    BY <1>2, <1>5, <2>1, <2>2 DEF Covers, Accessing
  <2>4. asked' # 0 => mark' = mark
    BY <1>1, <1>3, <2>1, <2>2 DEF Unchanged
  <2> QED
    BY <1>2, <1>5, <2>2, <2>3, <2>4 DEF CoveredInv
<1>14. CASE AccessFails(s)
  <2>1. save[s].phase \in Accessing /\ HandleSaveError(s, FALSE)
    BY <1>14 DEF AccessFails, Accessing
  <2> QED
    BY <1>6, <2>1
<1> QED
  BY <1>8, <1>9, <1>10, <1>11, <1>12, <1>13, <1>14 DEF SaveStep

LEMMA NextCovers ==
    ASSUME ModelInv, Work \/ ForeignWrite, revert.phase = "none", CoveredInv
    PROVE  CoveredInv'
<1>1. /\ TextTypes /\ SeqTypes /\ FileTypes /\ ReadTypes /\ SeqInv /\ TextInv /\ ReadInv
      /\ versionId \in Nat /\ asked \in Nat
  BY DEF ModelInv, Types, TextTypes
<1>2. ASSUME queued' = queued, due' = due, save' = save, asked' \in {0, asked},
             mark'.dirty = mark.dirty \/ mark'.dirty
      PROVE  CoveredInv'
  BY <1>2 DEF CoveredInv, Covers, Writes
<1>3. ASSUME asked' = 0 PROVE CoveredInv'
  BY <1>3 DEF CoveredInv
<1>4. CASE Edit \/ UndoOrRedo
  <2>1. PICK b : ContentChanged(b) /\ queued' = queued /\ due' = due /\ save' = save
    BY <1>4 DEF Edit, UndoOrRedo, saveVars
  <2>2. asked' = 0 \/ (asked' = asked /\ mark'.dirty)
    <3>1. mark \in Mark
      BY <1>1 DEF TextTypes
    <3> QED
      BY <2>1, <3>1 DEF ContentChanged, Mark
  <2> QED
    BY <1>2, <1>3, <2>1, <2>2
<1>5. CASE \E why \in Reason : Save(why)
  <2>1. PICK why \in Reason : Save(why)
    BY <1>5
  <2>2. /\ DoSave(why) /\ versionId' = versionId /\ mark' = mark /\ pending' = pending
        /\ due' = "none" /\ Settled
        /\ asked' = IF mark.dirty \/ why = "force" THEN versionId ELSE asked
    BY <2>1 DEF Save, Settled, textVars
  <2> QED
    BY <2>2, DoSaveCovers
<1>6. CASE RunQueued
  <2>1. /\ due \in Reason /\ DoSave(due) /\ due # "none" /\ pending' = pending /\ due' = "none"
        /\ versionId' = versionId /\ mark' = mark /\ asked' = asked
    BY <1>1, <1>6 DEF RunQueued, textVars, SeqTypes
  <2>2. running = NoTask
    BY <1>1, <2>1, OneSave DEF SeqInv, Quiet, QuietIs, SaveIs
  <2> QED
    BY <2>1, <2>2, DoSaveCovers
<1>7. CASE DoneRunning
  <2>1. mark' = mark /\ asked' = asked /\ versionId' = versionId
    BY <1>7 DEF DoneRunning, textVars
  <2>2. /\ save' = save
        /\ \/ running' = running /\ due' = due /\ queued' = queued
           \/ Quiet /\ due = "none" /\ due' = queued /\ queued' = "none"
    BY <1>1, <1>7, <2>1, DoneSeq
  <2>3. CASE due' = due /\ queued' = queued
    BY <1>2, <2>1, <2>2, <2>3
  <2>4. CASE Quiet /\ due = "none" /\ due' = queued /\ queued' = "none"
    <3>1. \A s \in Slot : ~Covers(s) /\ ~Writes(s)
      BY <2>4, NoSaveType DEF Quiet, Covers, Writes, Accessing
    <3> QED
      BY <2>1, <2>4, <3>1 DEF CoveredInv
  <2> QED
    BY <2>2, <2>3, <2>4
<1>8. CASE \E s \in Slot : CancelSave(s) \/ SaveStep(s)
  BY <1>8, StepCovers
<1>9. CASE ReadDone
  <2>1. queued' = queued /\ due' = due /\ save' = save /\ asked' = asked /\ due = "none"
    BY <1>9 DEF ReadDone, saveVars, Settled
  <2>2. CASE read.version # versionId
    <3>1. mark' = mark
      BY <1>9, <2>2 DEF ReadDone, ResolveFromContent
    <3> QED
      BY <1>2, <2>1, <3>1
  <2>3. CASE read.version = versionId
    <3>1. queued = "none"
      <4> SUFFICES ASSUME queued # "none" PROVE FALSE
        OBVIOUS
      <4>1. PICK s \in Slot : save[s] # NoSave /\ SaveIs(s)
        BY <1>1, <1>9, OneRuns DEF ReadDone
      <4>2. save[s].outer < versionId /\ save[s].outer \in Nat
        BY <1>1, <4>1, SlotIs DEF SaveIs
      <4>3. read.version <= save[s].outer
        BY <1>1, <1>9, <4>1 DEF ReadDone, ReadInv
      <4> QED
        BY <1>1, <2>3, <4>2, <4>3
    <3> QED
      BY <2>1, <3>1 DEF CoveredInv, Covers, Writes
  <2> QED
    BY <2>2, <2>3
<1>10. CASE ReadFails
  <2>1. queued' = queued /\ due' = due /\ save' = save /\ asked' = asked /\ mark' = mark
    BY <1>10 DEF ReadFails, saveVars
  <2> QED
    BY <1>2, <2>1
<1>11. CASE RevertReads \/ FilesChange \/ Reload \/ ReadStat \/ ReadText \/ ForeignWrite
  <2>1. queued' = queued /\ due' = due /\ save' = save /\ asked' = asked /\ mark' = mark
    BY <1>11 DEF RevertReads, FilesChange, Reload, ReadStat, ReadText, ForeignWrite, saveVars
  <2> QED
    BY <1>2, <2>1
<1> QED
  BY <1>4, <1>5, <1>6, <1>7, <1>8, <1>9, <1>10, <1>11 DEF Work

-----------------------------------------------------------------------------
(* What a save overwrites *)

\* Other programs write between the accesses only.
Polite == Work \/ (\E how \in Reverts : Revert(how)) \/ (NoAccessHalfDone /\ ForeignWrite)

LEMMA MineGrows == \A text : seen \subseteq seen' /\ Mine(text) => Mine(text)'
  BY DEF Mine

\* The values that FileInv compares
LEMMA FileValues ==
    ASSUME ModelInv
    PROVE  /\ TextTypes /\ SeqTypes /\ ReadTypes /\ FileTypes /\ SeqInv
           /\ mtime \in Nat /\ disk.mtime \in Nat /\ disk.text \in Int
           /\ read.stat \in Nat /\ read.text \in Int /\ versionId \in Nat
           /\ \A s \in Slot : save[s].mtime \in Nat /\ save[s].text \in Int
           /\ \A i \in DOMAIN buffer.stack : buffer.stack[i].text \in Int
           /\ buffer.at \in DOMAIN buffer.stack
<1>1. TextTypes /\ SeqTypes /\ ReadTypes /\ FileTypes /\ SeqInv
  BY DEF ModelInv, Types
<1>2. \A i \in DOMAIN buffer.stack : buffer.stack[i] \in Entry
  BY <1>1 DEF TextTypes
<1> QED
  BY <1>1, <1>2, SlotIs, Texts DEF TextTypes, ReadTypes, FileTypes, Entry

\* What changes neither the file nor its stat
LEMMA FileFrame ==
    ASSUME ModelInv, FileInv, disk' = disk, mtime' = mtime, seen \subseteq seen',
           buffer' = buffer,
           \/ read' = read
           \/ read' = NoRead
           \/ read'.stat = 0 /\ ~read'.has,
           \A s \in Slot : CheckedIs(s)'
    PROVE  FileInv'
<1>1. (\A i \in DOMAIN buffer.stack : Mine(buffer.stack[i].text))'
  BY DEF FileInv, Mine
<1>2. StatInv'
  <2>1. read'.on => read'.stat <= disk.mtime
    BY FileValues DEF FileInv, StatInv, NoRead
  <2>2. read'.on /\ read'.has /\ read'.stat \in {0, disk.mtime}
        => read'.text = disk.text \/ Mine(disk.text)'
    BY MineGrows DEF FileInv, StatInv, NoRead
  <2>3. mtime = disk.mtime => Mine(disk.text)'
    BY MineGrows DEF FileInv, StatInv
  <2> QED
    BY <2>1, <2>2, <2>3 DEF FileInv, StatInv, Mine
<1> QED
  BY <1>1, <1>2 DEF FileInv

\* What changes no save keeps what it has checked.
LEMMA SameChecked ==
    ASSUME ModelInv, FileInv, disk' = disk, seen \subseteq seen', mtime' \in Nat, mtime <= mtime',
           NEW s \in Slot,
           \/ save'[s] = save[s] \/ SameCall(s)
           \/ save'[s] = NoSave \/ (save'[s].text = 0 /\ save'[s].mtime = 0 /\ save'[s].phase \notin Accessing)
    PROVE  CheckedIs(s)'
<1>1. CheckedIs(s) /\ save[s].mtime \in Nat
  BY FileValues DEF FileInv
<1>2. CASE save'[s] = save[s] \/ SameCall(s)
  <2>1. save'[s].mtime <= mtime'
    BY <1>1, <1>2, FileValues DEF SameCall, CheckedIs
  <2> QED
    BY <1>1, <1>2, <2>1 DEF SameCall, CheckedIs, Mine
<1>3. CASE save'[s] = NoSave \/ (save'[s].text = 0 /\ save'[s].mtime = 0 /\ save'[s].phase \notin Accessing)
  <2>1. save'[s].text = 0 /\ save'[s].mtime = 0 /\ save'[s].phase \notin Accessing
    BY <1>3 DEF NoSave, Accessing
  <2>2. 0 <= mtime' /\ Mine(0)'
    BY FileValues DEF Mine, Broken
  <2> QED
    BY <2>1, <2>2 DEF CheckedIs, Accessing
<1> QED
  BY <1>2, <1>3

\* The steps of a save
LEMMA StepFile ==
    ASSUME ModelInv, FileInv, NEW s \in Slot, CancelSave(s) \/ SaveStep(s)
    PROVE  FileInv'
<1>1. /\ TextTypes /\ SeqTypes /\ ReadTypes /\ FileTypes /\ SeqInv
      /\ mtime \in Nat /\ disk.mtime \in Nat /\ versionId \in Nat /\ mtime <= disk.mtime
  BY FileValues DEF FileInv, StatInv
<1>2. /\ buffer' = buffer /\ versionId' = versionId /\ read' = read
  BY DEF CancelSave, SaveStep, ThrottleEnds, ParticipantsEnd, CheckFile, WriteFile,
         StatFile, AccessFails, textVars, readVars
<1>3. /\ SaveIs(s) /\ save[s].phase # "none" /\ \A t \in Slot : t # s => save[t] = NoSave
  <2>1. save[s].phase # "none"
    BY <1>1, StepSeq
  <2> QED
    BY <1>1, <2>1, OneSave
<1>4. CheckedIs(s) /\ save[s].mtime \in Nat /\ save[s].text \in Int
  BY FileValues DEF FileInv
<1>5. ASSUME \A t \in Slot : save'[t] = NoSave, disk' = disk, mtime' = mtime, seen \subseteq seen'
      PROVE  FileInv'
  <2>1. \A t \in Slot : CheckedIs(t)'
    BY <1>1, <1>5, SameChecked
  <2> QED
    BY <1>2, <1>5, <2>1, FileFrame
<1>6. ASSUME NEW p \in Phase, save' = [save EXCEPT ![s].phase = p]
      PROVE  /\ save'[s].phase = p /\ save'[s].text = save[s].text /\ save'[s].mtime = save[s].mtime
             /\ save'[s].overwrite = save[s].overwrite
             /\ \A t \in Slot : t # s => save'[t] = NoSave
  <2>1. save' = [save EXCEPT ![s] = [save[s] EXCEPT !.phase = p]] /\ save[s] \in Call
    BY <1>1, <1>6, SlotIs
  <2> QED
    BY <1>1, <1>3, <2>1 DEF SeqTypes, Call
<1>7. ASSUME disk' = disk, mtime' = mtime, seen' = seen, CheckedIs(s)',
             \A t \in Slot : t # s => save'[t] = NoSave
      PROVE  FileInv'
  <2>1. \A t \in Slot : CheckedIs(t)'
    BY <1>1, <1>7, SameChecked
  <2> QED
    BY <1>2, <1>7, <2>1, FileFrame
<1>8. ASSUME NEW text, Mine(text), PutFile(text), mtime' = mtime, seen' = seen,
             CheckedIs(s)', \A t \in Slot : t # s => save'[t] = NoSave
      PROVE  FileInv'
  <2>1. disk'.text = text /\ disk'.mtime = disk.mtime + 1
    BY <1>8 DEF PutFile
  <2>2. Mine(disk.text)' /\ mtime' <= disk'.mtime
    BY <1>1, <1>8, <2>1 DEF Mine
  <2>3. read'.on => read'.stat <= disk'.mtime
    BY <1>1, <1>2, <2>1, FileValues DEF FileInv, StatInv
  <2>4. StatInv'
    BY <2>2, <2>3 DEF StatInv
  <2>5. (\A i \in DOMAIN buffer.stack : Mine(buffer.stack[i].text))'
    BY <1>2, <1>8 DEF FileInv, Mine
  <2>6. ASSUME NEW t \in Slot PROVE CheckedIs(t)'
    <3>1. CASE t # s
      <4>1. save'[t] = NoSave /\ 0 <= mtime'
        BY <1>1, <1>8, <3>1
      <4> QED
        BY <4>1 DEF CheckedIs, NoSave, Mine, Broken
    <3> QED
      BY <1>8, <3>1
  <2> QED
    BY <2>4, <2>5, <2>6 DEF FileInv
<1>9. ASSUME SaveEnds(s, <<save[s].outer>>) \/ SaveEnds(s, <<save[s].task, save[s].outer>>)
      PROVE  \A t \in Slot : save'[t] = NoSave
  BY <1>1, <1>3, <1>9 DEF SaveEnds, SeqTypes
<1>10. CASE CancelSave(s)
  BY <1>5, <1>9, <1>10 DEF CancelSave, fileVars
<1>11. CASE ThrottleEnds(s)
  <2>1. disk' = disk /\ mtime' = mtime /\ seen' = seen
    BY <1>11 DEF ThrottleEnds, fileVars
  <2>2. CASE save[s].cancelled
    BY <1>5, <1>9, <1>11, <2>1, <2>2 DEF ThrottleEnds
  <2>3. CASE ~save[s].cancelled
    <3>1. save' = [save EXCEPT ![s].phase = "participants"] /\ "participants" \in Phase
      BY <1>11, <2>3 DEF ThrottleEnds, Phase
    <3>2. CheckedIs(s)'
      BY <1>4, <1>6, <2>1, <3>1 DEF CheckedIs, Mine
    <3> QED
      BY <1>6, <1>7, <2>1, <3>1, <3>2
  <2> QED
    BY <2>2, <2>3
<1>12. CASE ParticipantsEnd(s)
  <2>1. disk' = disk /\ mtime' = mtime /\ seen' = seen
    BY <1>12 DEF ParticipantsEnd, fileVars
  <2>2. /\ save'[s].phase = "checking" /\ save'[s].text = Shown.text /\ save'[s].mtime = mtime
        /\ \A t \in Slot \ {s} : save'[t] = NoSave
    BY <1>1, <1>12, TakenSeq
  <2>3. Mine(Shown.text)
    BY <1>1 DEF FileInv, TextTypes, Shown
  <2>4. CheckedIs(s)'
    BY <1>1, <2>1, <2>2, <2>3 DEF CheckedIs, Mine
  <2> QED
    BY <1>7, <2>1, <2>2, <2>4
<1>13. CASE CheckFile(s)
  <2>1. disk' = disk
    BY <1>13 DEF CheckFile, fileVars
  <2>2. CASE Modified(s)
    <3>1. HandleSaveError(s, TRUE)
      BY <1>13, <2>2 DEF CheckFile
    <3> QED
      BY <1>5, <1>9, <2>1, <3>1 DEF HandleSaveError
  <2>3. CASE ~Modified(s)
    <3>1. /\ save' = [save EXCEPT ![s].phase = "writing"] /\ "writing" \in Phase
          /\ mtime' = mtime /\ seen' = seen
      BY <1>13, <2>3 DEF CheckFile, Phase
    <3>2. ~save[s].overwrite => save[s].mtime = disk.mtime \/ save[s].text = disk.text
      BY <1>1, <1>4, <2>3 DEF Modified, CheckedIs
    <3>3. CheckedIs(s)'
      BY <1>4, <1>6, <2>1, <3>1, <3>2 DEF CheckedIs, Mine
    <3> QED
      BY <1>6, <1>7, <2>1, <3>1, <3>3
  <2> QED
    BY <2>2, <2>3
<1>14. CASE WriteFile(s)
  <2>1. /\ save' = [save EXCEPT ![s].phase = "stating"] /\ "stating" \in Phase
        /\ mtime' = mtime /\ seen' = seen /\ PutFile(save[s].text)
    BY <1>14 DEF WriteFile, Phase
  <2>2. Mine(save[s].text) /\ disk'.text = save[s].text
    BY <1>4, <2>1 DEF CheckedIs, PutFile
  <2>3. CheckedIs(s)'
    BY <1>4, <1>6, <2>1, <2>2 DEF CheckedIs, Mine
  <2> QED
    BY <1>6, <1>8, <2>1, <2>2, <2>3
<1>15. CASE StatFile(s)
  <2>1. /\ mtime' = Later(mtime, disk.mtime) /\ seen' = seen \union {save[s].text}
        /\ disk' = disk /\ save[s].phase = "stating"
        /\ SaveEnds(s, <<save[s].task, save[s].outer>>)
    BY <1>15 DEF StatFile, HandleSaveSuccess, fileVars
  <2>2. mtime' = disk.mtime /\ Mine(disk.text)
    BY <1>1, <1>4, <2>1 DEF Later, CheckedIs
  <2>3. (\A i \in DOMAIN buffer.stack : Mine(buffer.stack[i].text))'
    BY <1>2, <2>1 DEF FileInv, Mine
  <2>4. \A t \in Slot : CheckedIs(t)'
    <3>1. mtime' \in Nat /\ mtime <= mtime' /\ \A t \in Slot : save'[t] = NoSave
      BY <1>1, <1>9, <2>1, <2>2
    <3> QED
      BY <2>1, <3>1, SameChecked
  <2>5. StatInv'
    <3>1. Mine(disk.text)' /\ mtime' <= disk.mtime
      BY <1>1, <2>1, <2>2 DEF Mine
    <3> QED
      BY <1>2, <2>1, <3>1 DEF FileInv, StatInv
  <2> QED
    BY <2>3, <2>4, <2>5 DEF FileInv
<1>16. CASE AccessFails(s)
  <2>1. /\ mtime' = mtime /\ seen' = seen /\ \A t \in Slot : save'[t] = NoSave
    BY <1>9, <1>16 DEF AccessFails, HandleSaveError
  <2>2. CASE UNCHANGED fileVars
    BY <1>5, <2>1, <2>2 DEF fileVars
  <2>3. CASE PutFile(Broken)
    <3>1. CheckedIs(s)'
      <4>1. save'[s] = NoSave /\ 0 <= mtime'
        BY <1>1, <2>1
      <4> QED
        BY <4>1 DEF CheckedIs, NoSave, Mine, Broken
    <3>2. Mine(Broken)
      BY DEF Mine, Broken
    <3> QED
      BY <1>8, <2>1, <2>3, <3>1, <3>2
  <2> QED
    BY <1>16, <2>2, <2>3 DEF AccessFails
<1> QED
  BY <1>10, <1>11, <1>12, <1>13, <1>14, <1>15, <1>16 DEF SaveStep

LEMMA NextStat ==
    ASSUME ModelInv, FileInv, Polite
    PROVE  FileInv'
<1>1. /\ TextTypes /\ SeqTypes /\ ReadTypes /\ FileTypes /\ SeqInv
      /\ mtime \in Nat /\ disk.mtime \in Nat /\ versionId \in Nat /\ mtime <= disk.mtime
      /\ read.stat \in Nat
  BY FileValues DEF FileInv, StatInv
<1>2. ASSUME NEW b, buffer' = b, disk' = disk, mtime' = mtime, seen' = seen, read' = read,
             save' = save,
             \A i \in DOMAIN b.stack : \/ i \in DOMAIN buffer.stack /\ b.stack[i] = buffer.stack[i]
                                       \/ Mine(b.stack[i].text)
      PROVE  FileInv'
  <2>1. (\A i \in DOMAIN buffer.stack : Mine(buffer.stack[i].text))'
    BY <1>2 DEF FileInv, Mine
  <2>2. StatInv'
    BY <1>2 DEF FileInv, StatInv, Mine
  <2>3. \A s \in Slot : CheckedIs(s)'
    BY <1>1, <1>2, SameChecked
  <2> QED
    BY <2>1, <2>2, <2>3 DEF FileInv
<1>3. ASSUME buffer' = buffer, disk' = disk, mtime' = mtime, seen' = seen, save' = save,
             \/ read' = read
             \/ read' = NoRead
             \/ read'.stat = 0 /\ ~read'.has
      PROVE  FileInv'
  <2>1. \A s \in Slot : CheckedIs(s)'
    BY <1>1, <1>3, SameChecked
  <2> QED
    BY <1>3, <2>1, FileFrame
<1>4. CASE Edit
  <2> DEFINE b == Typed(versionId + 1)
  <2>1. /\ buffer' = b /\ disk' = disk /\ mtime' = mtime /\ seen' = seen /\ read' = read /\ save' = save
        /\ versionId < MaxVersion
    BY <1>4 DEF Edit, ContentChanged, fileVars, readVars, saveVars
  <2>2. /\ b.stack[b.at].text = versionId + 1
        /\ \A i \in DOMAIN b.stack : i = b.at \/ (i \in DOMAIN buffer.stack /\ b.stack[i] = buffer.stack[i])
    <3>1. versionId + 1 \in Text
      BY <1>1, <2>1, Texts
    <3> QED
      BY <1>1, <3>1, TypedIs
  <2>3. Mine(versionId + 1)
    BY <1>1 DEF Mine, Broken
  <2> HIDE DEF b
  <2> QED
    BY <1>2, <2>1, <2>2, <2>3
<1>5. CASE UndoOrRedo
  <2>1. PICK at \in {buffer.at - 1, buffer.at + 1} \cap DOMAIN buffer.stack :
           ContentChanged([buffer EXCEPT !.at = at])
    BY <1>5 DEF UndoOrRedo
  <2> DEFINE b == [buffer EXCEPT !.at = at]
  <2>2. /\ buffer' = b /\ disk' = disk /\ mtime' = mtime /\ seen' = seen /\ read' = read /\ save' = save
    BY <1>5, <2>1 DEF UndoOrRedo, ContentChanged, fileVars, readVars, saveVars
  <2>3. b.stack = buffer.stack
    BY <1>1 DEF TextTypes
  <2> HIDE DEF b
  <2> QED
    BY <1>2, <2>2, <2>3
<1>6. CASE (\E why \in Reason : Save(why)) \/ RunQueued
  <2>1. \E why \in Reason : /\ DoSave(why) /\ pending' = pending /\ due' = "none"
                            /\ Settled \/ (due # "none" /\ running = NoTask)
    <3>1. CASE \E why \in Reason : Save(why)
      BY <3>1 DEF Save, Settled
    <3>2. CASE RunQueued
      <4>1. due \in Reason /\ DoSave(due) /\ due # "none" /\ pending' = pending /\ due' = "none"
        BY <1>1, <3>2 DEF RunQueued, SeqTypes
      <4>2. running = NoTask
        BY <1>1, <4>1, OneSave DEF SeqInv, Quiet, QuietIs, SaveIs
      <4> QED
        BY <4>1, <4>2
    <3> QED
      BY <1>6, <3>1, <3>2
  <2>2. /\ disk' = disk /\ mtime' = mtime /\ seen' = seen /\ read' = read /\ buffer' = buffer
        /\ versionId' = versionId
    BY <1>6 DEF Save, RunQueued, fileVars, readVars, textVars
  <2>3. \/ save' = save
        \/ \A s \in Slot : SameCall(s)
        \/ \E s \in Slot : NewCall(s)
    BY <1>1, <2>1, <2>2, DoSaveSeq
  <2>4. ASSUME NEW t \in Slot
        PROVE  \/ save'[t] = save[t] \/ SameCall(t)
               \/ save'[t] = NoSave
               \/ (save'[t].text = 0 /\ save'[t].mtime = 0 /\ save'[t].phase \notin Accessing)
    BY <2>3 DEF NewCall, Accessing
  <2>5. \A t \in Slot : CheckedIs(t)'
    BY <1>1, <2>2, <2>4, SameChecked
  <2> QED
    BY <2>2, <2>5, FileFrame
<1>7. CASE DoneRunning \/ FilesChange
  <2>1. buffer' = buffer /\ disk' = disk /\ mtime' = mtime /\ seen' = seen /\ save' = save /\ read' = read
    BY <1>7 DEF DoneRunning, FilesChange, textVars, fileVars, readVars, saveVars
  <2> QED
    BY <1>3, <2>1
<1>8. CASE \E s \in Slot : CancelSave(s) \/ SaveStep(s)
  BY <1>8, StepFile
<1>9. CASE RevertReads \/ Reload \/ ReadFails \/ \E how \in Reverts : Revert(how)
  <2>1. buffer' = buffer /\ disk' = disk /\ mtime' = mtime /\ seen' = seen /\ save' = save
    BY <1>9 DEF RevertReads, Reload, ReadFails, Revert, textVars, fileVars, saveVars
  <2>2. read' = read \/ read' = NewRead \/ read' = NoRead
    BY <1>9 DEF RevertReads, Reload, ReadFails, Revert, ReadEnds
  <2> QED
    BY <1>1, <1>3, <2>1, <2>2, NewReadType
<1>10. CASE ReadStat
  <2>1. buffer' = buffer /\ disk' = disk /\ mtime' = mtime /\ seen' = seen /\ save' = save /\ read.on
        /\ read.stat = 0
    BY <1>10 DEF ReadStat, textVars, fileVars, saveVars
  <2>2. CASE ReadEnds
    BY <1>3, <2>1, <2>2 DEF ReadEnds
  <2>3. CASE read' = [read EXCEPT !.stat = disk.mtime]
    <3>1. /\ read'.on /\ read'.stat = disk.mtime /\ read'.has = read.has /\ read'.text = read.text
      BY <1>1, <2>1, <2>3 DEF ReadTypes
    <3>2. StatInv'
      BY <1>1, <2>1, <3>1 DEF FileInv, StatInv, Mine
    <3>3. \A s \in Slot : CheckedIs(s)'
      BY <1>1, <2>1, SameChecked
    <3>4. (\A i \in DOMAIN buffer.stack : Mine(buffer.stack[i].text))'
      BY <2>1 DEF FileInv, Mine
    <3> QED
      BY <3>2, <3>3, <3>4 DEF FileInv
  <2> QED
    BY <1>10, <2>2, <2>3 DEF ReadStat
<1>11. CASE ReadText
  <2>1. /\ buffer' = buffer /\ disk' = disk /\ mtime' = mtime /\ seen' = seen /\ save' = save
        /\ read' = [read EXCEPT !.has = TRUE, !.text = disk.text]
    BY <1>11 DEF ReadText, textVars, fileVars, saveVars
  <2>2. /\ read'.on = read.on /\ read'.stat = read.stat /\ read'.text = disk.text
    BY <1>1, <2>1 DEF ReadTypes
  <2>3. StatInv'
    BY <1>1, <1>11, <2>1, <2>2 DEF FileInv, StatInv, Mine, ReadText
  <2>4. \A s \in Slot : CheckedIs(s)'
    BY <1>1, <2>1, SameChecked
  <2>5. (\A i \in DOMAIN buffer.stack : Mine(buffer.stack[i].text))'
    BY <2>1 DEF FileInv, Mine
  <2> QED
    BY <2>3, <2>4, <2>5 DEF FileInv
<1>12. CASE ReadDone
  <2>1. /\ disk' = disk /\ save' = save /\ read' = NoRead /\ read.on /\ read.has
        /\ mtime' = IF read.version = versionId THEN Later(mtime, read.stat) ELSE mtime
    BY <1>12 DEF ReadDone, ReadStatFirst, ReadEnds, fileVars, saveVars
  <2>2. CASE read.version # versionId
    <3>1. buffer' = buffer /\ seen' = seen /\ mtime' = mtime
      BY <1>12, <2>1, <2>2 DEF ReadDone, ResolveFromContent
    <3> QED
      BY <1>3, <2>1, <3>1
  <2>3. CASE read.version = versionId
    <3> DEFINE b == IF read.text = Shown.text THEN buffer ELSE Typed(read.text)
    <3>1. /\ buffer' = b /\ seen' = seen \union {read.text} /\ mtime' = Later(mtime, read.stat)
      BY <1>12, <2>1, <2>3 DEF ReadDone, ResolveFromContent, TakeText
    <3>2. \A i \in DOMAIN b.stack :
             \/ i \in DOMAIN buffer.stack /\ b.stack[i] = buffer.stack[i]
             \/ b.stack[i].text = read.text
      <4>1. read.text \in Text
        BY <1>1 DEF ReadTypes
      <4> QED
        BY <1>1, <4>1, TypedIs
    <3> HIDE DEF b
    <3>3. (\A i \in DOMAIN buffer.stack : Mine(buffer.stack[i].text))'
      BY <3>1, <3>2 DEF FileInv, Mine
    <3>4. mtime' \in Nat /\ mtime <= mtime' /\ mtime' <= disk.mtime
          /\ (mtime' = mtime \/ mtime' = read.stat)
      BY <1>1, <2>1, <3>1 DEF FileInv, StatInv, Later
    <3>5. \A s \in Slot : CheckedIs(s)'
      BY <1>1, <2>1, <3>1, <3>4, SameChecked
    <3>6. StatInv'
      <4>1. mtime' = disk.mtime => Mine(disk.text) \/ disk.text \in seen'
        BY <2>1, <3>1, <3>4 DEF FileInv, StatInv
      <4>2. mtime' = disk.mtime => Mine(disk.text)'
        BY <2>1, <3>1, <4>1 DEF Mine
      <4>3. ~read'.on
        BY <2>1, NoReadType
      <4> QED
        BY <2>1, <3>4, <4>2, <4>3 DEF StatInv
    <3> QED
      BY <3>3, <3>5, <3>6 DEF FileInv
  <2> QED
    BY <2>2, <2>3
<1>13. CASE NoAccessHalfDone /\ ForeignWrite
  <2>1. /\ buffer' = buffer /\ mtime' = mtime /\ seen' = seen /\ save' = save /\ read' = read
        /\ disk'.mtime = disk.mtime + 1
    BY <1>13 DEF ForeignWrite, PutFile, textVars, readVars, saveVars
  <2>2. ASSUME NEW s \in Slot PROVE CheckedIs(s)'
    <3>1. save[s].phase # "writing" /\ save[s].phase # "stating" /\ CheckedIs(s)
      BY <1>13 DEF NoAccessHalfDone, FileInv
    <3> QED
      BY <2>1, <3>1 DEF CheckedIs, Mine
  <2>3. read.on => read.stat <= disk.mtime /\ (read.has => read.stat # 0)
    BY <1>13 DEF NoAccessHalfDone, FileInv, StatInv
  <2>4. StatInv'
    BY <1>1, <2>1, <2>3 DEF StatInv
  <2>5. (\A i \in DOMAIN buffer.stack : Mine(buffer.stack[i].text))'
    BY <2>1 DEF FileInv, Mine
  <2> QED
    BY <2>2, <2>4, <2>5 DEF FileInv
<1> QED
  BY <1>4, <1>5, <1>6, <1>7, <1>8, <1>9, <1>10, <1>11, <1>12, <1>13 DEF Polite, Work

\* The write of a save finds what its check found.
LEMMA WritesKnown == ModelInv /\ FileInv /\ Next => OverwritesKnown
<1> SUFFICES ASSUME ModelInv, FileInv, Next, NEW s \in Slot, save[s].phase = "writing",
                    save'[s].phase = "stating", ~save[s].overwrite
             PROVE  disk.text >= Broken \/ disk.text \in seen \union {save[s].text}
  BY DEF OverwritesKnown
<1>1. /\ mtime \in Nat /\ disk.mtime \in Nat /\ save[s].mtime \in Nat
  BY FileValues
<1>2. CheckedIs(s) /\ StatInv
  BY DEF FileInv
<1>3. save[s].mtime = disk.mtime => mtime = disk.mtime
  BY <1>1, <1>2 DEF CheckedIs, StatInv
<1> QED
  BY <1>2, <1>3 DEF CheckedIs, StatInv, Mine

-----------------------------------------------------------------------------
(* Without reverts, and without writes of others during an access *)

SaveInv == revert.phase = "none" /\ KeptInv /\ CoveredInv

LEMMA NextSave == ModelInv /\ SaveInv /\ (Work \/ ForeignWrite) => SaveInv'
<1> SUFFICES ASSUME ModelInv, SaveInv, Work \/ ForeignWrite PROVE SaveInv'
  OBVIOUS
<1>1. Next /\ revert.phase = "none" /\ KeptInv /\ CoveredInv
  BY DEF Next, SaveInv
<1> QED
  BY <1>1, NextText, NextRead, NextCovers DEF SaveInv

LEMMA Unchanging == UNCHANGED vars => (SaveInv => SaveInv') /\ (FileInv => FileInv')
<1> SUFFICES ASSUME UNCHANGED vars PROVE (SaveInv => SaveInv') /\ (FileInv => FileInv')
  OBVIOUS
<1>1. /\ buffer' = buffer /\ mark' = mark /\ mtime' = mtime /\ queued' = queued /\ due' = due
      /\ save' = save /\ read' = read /\ revert' = revert /\ disk' = disk /\ seen' = seen
      /\ asked' = asked
  BY DEF vars
<1>2. SaveInv => SaveInv'
  BY <1>1 DEF SaveInv, KeptInv, CoveredInv, Covers, Writes, Shown
<1>3. FileInv => FileInv'
  BY <1>1 DEF FileInv, StatInv, CheckedIs, Mine
<1> QED
  BY <1>2, <1>3

LEMMA NothingForgotten == ModelInv /\ SaveInv => SavesWritten
<1> SUFFICES ASSUME ModelInv, SaveInv, Settled, running = NoTask PROVE queued = "none" /\ asked = 0
  BY DEF SavesWritten
<1>1. Quiet /\ queued = "none" /\ due = "none"
  BY NoneRuns DEF ModelInv, Types, Settled
<1>2. \A s \in Slot : ~Covers(s)
  BY <1>1, NoSaveType DEF Quiet, Covers, Writes, Accessing
<1> QED
  BY <1>1, <1>2 DEF SaveInv, CoveredInv

LEMMA NothingLost == ModelInv /\ SaveInv => WorkKept
<1> SUFFICES ASSUME ModelInv, SaveInv, ~mark.dirty PROVE Shown.text \in seen
  BY DEF WorkKept
<1>1. buffer.at \in DOMAIN buffer.stack
  BY DEF ModelInv, Types, TextTypes
<1> QED
  BY <1>1 DEF SaveInv, KeptInv, Shown

LEMMA InitSave == Init => SaveInv
  BY InitModel, NoRevertType DEF SaveInv, Init

\* Where nobody reverts, no save is forgotten, whatever it joins, waits behind or replaces in
\* the queue (TextFileEditorModel.doSave, TaskSequentializer).
THEOREM SavesTheorem == Reverts = {} => (Spec => []SavesWritten)
<1> SUFFICES ASSUME Reverts = {} PROVE Spec => []SavesWritten
  OBVIOUS
<1>1. ModelInv /\ SaveInv /\ [Next]_vars => SaveInv'
  BY NextSave, Unchanging DEF Next
<1> QED
  BY <1>1, InitSave, ModelHolds, NothingForgotten, PTL DEF Spec

\* Where nobody reverts, a model that is not dirty shows a text that was read or written
\* (TextFileEditorModel.onModelContentChanged, handleSaveSuccess).
THEOREM WorkTheorem == Reverts = {} => (Spec => []WorkKept)
<1> SUFFICES ASSUME Reverts = {} PROVE Spec => []WorkKept
  OBVIOUS
<1>1. ModelInv /\ SaveInv /\ [Next]_vars => SaveInv'
  BY NextSave, Unchanging DEF Next
<1> QED
  BY <1>1, InitSave, ModelHolds, NothingLost, PTL DEF Spec

\* Where other programs write between the accesses only, no save overwrites a text of theirs
\* that the model has not read (FileService.validateWriteFile, updateLastResolvedFileStat).
THEOREM OverwriteTheorem == Concurrent = FALSE => (Spec => [][OverwritesKnown]_vars)
<1> SUFFICES ASSUME Concurrent = FALSE PROVE Spec => [][OverwritesKnown]_vars
  OBVIOUS
<1>1. Next => Polite
  BY DEF Next, Polite, ForeignWrite
<1>2. ModelInv /\ FileInv /\ [Next]_vars => FileInv'
  BY <1>1, NextStat, Unchanging
<1>3. ModelInv /\ FileInv /\ [Next]_vars => [OverwritesKnown]_vars
  BY WritesKnown
<1> QED
  BY <1>2, <1>3, InitModel, ModelHolds, PTL DEF Spec

-----------------------------------------------------------------------------
(* The scenarios of the runs *)

ScenarioInv ==
    /\ ModelInv
    /\ scenario = "save" => SaveInv
    /\ scenario = "revert" => FileInv

LEMMA ScenarioStep == ScenarioInv /\ [MCNext]_mcVars => ScenarioInv' /\ [OverwritesKnown \/ scenario # "revert"]_vars
<1> SUFFICES ASSUME ScenarioInv, [MCNext]_mcVars
             PROVE  ScenarioInv' /\ [OverwritesKnown \/ scenario # "revert"]_vars
  OBVIOUS
<1>1. CASE MCNext
  <2>1. Next /\ scenario' = scenario /\ ModelInv
    BY <1>1 DEF MCNext, Next, ScenarioInv
  <2>2. ModelInv'
    BY <2>1, NextModel
  <2>3. ASSUME scenario = "save" PROVE SaveInv'
    BY <1>1, <2>3, NextSave DEF MCNext, ScenarioInv
  <2>4. ASSUME scenario = "revert" PROVE FileInv'
    BY <1>1, <2>4, NextStat DEF MCNext, ScenarioInv, Polite
  <2>5. scenario = "revert" => OverwritesKnown
    BY <2>1, WritesKnown DEF ScenarioInv
  <2> QED
    BY <2>1, <2>2, <2>3, <2>4, <2>5 DEF ScenarioInv
<1>2. CASE UNCHANGED mcVars
  <2>1. UNCHANGED vars /\ scenario' = scenario
    BY <1>2 DEF mcVars
  <2>2. ModelInv'
    BY <2>1, NextModel DEF ScenarioInv
  <2> QED
    BY <2>1, <2>2, Unchanging DEF ScenarioInv
<1> QED
  BY <1>1, <1>2

LEMMA ScenarioHolds == MCSpec => []ScenarioInv
<1>1. MCInit => ScenarioInv
  BY InitModel, InitSave DEF MCInit, ScenarioInv
<1>2. ScenarioInv /\ [MCNext]_mcVars => ScenarioInv'
  BY ScenarioStep
<1> QED
  BY <1>1, <1>2, PTL DEF MCSpec

\* In the scenario without reverts no save is forgotten.
THEOREM SavesInScenario == MCSpec => []SavesAreWritten
<1>1. ScenarioInv => SavesAreWritten
  BY NothingForgotten DEF ScenarioInv, SavesAreWritten
<1> QED
  BY <1>1, ScenarioHolds, PTL

\* In the scenario without reverts a model that is not dirty shows a text of the file.
THEOREM WorkInScenario == MCSpec => []WorkIsKept
<1>1. ScenarioInv => WorkIsKept
  BY NothingLost DEF ScenarioInv, WorkIsKept
<1> QED
  BY <1>1, ScenarioHolds, PTL

\* In the scenario with reverts, where other programs write between the accesses, no save
\* overwrites a text that the model has not read.
THEOREM OverwriteInScenario == MCSpec => NoBlindOverwrite
<1>1. ScenarioInv /\ [MCNext]_mcVars => [scenario = "revert" => OverwritesKnown]_vars
  BY ScenarioStep
<1> QED
  BY <1>1, ScenarioHolds, PTL DEF MCSpec, NoBlindOverwrite
================================================================================
