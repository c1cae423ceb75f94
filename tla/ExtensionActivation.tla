-------------------------- MODULE ExtensionActivation --------------------------
(***************************************************************************)
(* The extensions of a window and its local extension host: the registry   *)
(* and the changes of it (AbstractExtensionService), the manager of the    *)
(* host process, which crashes and restarts (ExtensionHostManager), and in *)
(* the process the activation of extensions after their dependencies       *)
(* (ExtensionsActivator).  Both processes change the same picture: which   *)
(* extensions there are and which ones run.                                *)
(*                                                                         *)
(* There is one activation event; events do not affect each other.  The    *)
(* two processes are joined by channels that deliver in order.  Promise    *)
(* callbacks that follow each other without a wait are one step.           *)
(***************************************************************************)
EXTENDS Integers, Sequences, FiniteSets

CONSTANTS
    Ext,
    Deps,           \* extensionDependencies of each, in order
    OnEvent,        \* those with the activation event
    Fallible,       \* those whose activate may throw
    MaxDelta,       \* bound: changes of the installed extensions
    MaxRestart      \* bound: crashes, and restarts the user asks for

ASSUME ExtAssumption == IsFiniteSet(Ext) /\ OnEvent \subseteq Ext /\ Fallible \subseteq Ext
ASSUME DepsAssumption == Deps \in [Ext -> Seq(Ext)]
ASSUME BoundAssumption == MaxDelta \in Nat /\ MaxRestart \in Nat

\* The registry takes no extensions whose dependencies form a loop (removedDueToLooping).
ASSUME NoLoopAssumption ==
    \E rank \in [Ext -> 1..Cardinality(Ext)] :
        \A x \in Ext : \A i \in DOMAIN Deps[x] : rank[Deps[x][i]] < rank[x]

VARIABLES
    \* the window
    registry,       \* extensions it knows
    requested,      \* the event is in _allRequestedActivateEvents
    started,        \* activationStarted of the extensions' status
    deltas,         \* _deltaExtensionsQueue
    handling,       \* _inHandleDeltaExtensions: "no", "locking", "yes", "sent"
    adding,         \* toAdd of the change that was sent
    lock,           \* of the registry: "free", "delta" or "start"
    manager,        \* "none", "starting", "running", "crashed", "failed" (start was refused)
    cached,         \* the event is in the manager's _cachedActivationEvents
    restart,        \* "no", "locking" (startExtensionHosts), "prompt" (the user is asked)
    \* the extension host
    hostRegistry, hostDelta,    \* its registry, and the one $deltaExtensions has computed
    op,                         \* the activation of each extension
    \* between them
    toHost, toMain,
    changes, restarts

deltaVars == <<deltas, handling, adding, lock>>
windowVars == <<registry, requested, started>>
managerVars == <<manager, cached, restart>>
hostVars == <<hostRegistry, hostDelta, op>>
channelVars == <<toHost, toMain>>
vars == <<windowVars, deltaVars, managerVars, hostVars, channelVars, changes, restarts>>

Delta == [add : SUBSET Ext, remove : SUBSET Ext]
Idle == [add |-> {}, remove |-> {}]     \* no $deltaExtensions is under way
Message == [type : {"event", "activate", "delta", "will", "reply"}, add : SUBSET Ext, remove : SUBSET Ext]
Status == {"none", "waiting", "announced", "activating", "ok", "failed"}
NoOps == [x \in Ext |-> "none"]

DepsOf(x) == {Deps[x][i] : i \in DOMAIN Deps[x]}

\* The window is up and its extension host runs; nothing was activated yet.
Init ==
    /\ registry \in SUBSET Ext /\ requested = FALSE /\ started = {}
    /\ deltas = <<>> /\ handling = "no" /\ adding = {} /\ lock = "free"
    /\ manager = "running" /\ cached = FALSE /\ restart = "no"
    /\ hostRegistry = registry /\ hostDelta = Idle /\ op = NoOps
    /\ toHost = <<>> /\ toMain = <<>>
    /\ changes = 0 /\ restarts = 0

\* What is sent to a process that died is lost.
Send(type, add, remove) ==
    toHost' = IF manager = "running"
              THEN Append(toHost, [type |-> type, add |-> add, remove |-> remove])
              ELSE toHost

-----------------------------------------------------------------------------
(* The window: activation events and changes of the extensions *)

\* Of the manager: the event is sent once, unless nothing there waits for it or the host
\* failed to start.
ActivateByEvent ==
    /\ requested' = TRUE
    /\ IF registry \cap OnEvent = {} \/ manager = "none" \/ cached
       THEN UNCHANGED <<cached, toHost>>
       ELSE /\ cached' = TRUE
            /\ IF manager = "starting" THEN UNCHANGED toHost ELSE Send("event", {}, {})
    /\ UNCHANGED <<registry, started, deltaVars, manager, restart, hostVars, toMain, changes, restarts>>

Enqueue(delta) ==
    /\ deltas' = Append(deltas, delta)
    /\ handling' = IF handling = "no" THEN "locking" ELSE handling

\* Extensions are installed, removed, enabled or disabled.
ChangeExtensions(add, remove) ==
    /\ changes < MaxDelta /\ add \cup remove # {}
    /\ changes' = changes + 1
    /\ Enqueue([add |-> add, remove |-> remove])
    /\ UNCHANGED <<windowVars, adding, lock, managerVars, hostVars, channelVars, restarts>>

LockForDelta ==
    /\ handling = "locking" /\ lock = "free"
    /\ handling' = "yes" /\ lock' = "delta"
    /\ UNCHANGED <<windowVars, deltas, adding, managerVars, hostVars, channelVars, changes, restarts>>

\* canRemoveExtension: not one that runs.
Removable(remove) == (remove \cap registry) \ started

\* _canAddExtension: known extensions only if they are removed first.  (The one host there
\* is may run them all.)
Addable(add, removed) == add \ (registry \ removed)

\* The next change of the queue.  With a host, the loop waits for it, unless its start
\* failed.
HandleDelta ==
    /\ handling = "yes" /\ deltas # <<>>
    /\ deltas' = Tail(deltas)
    /\ LET remove == Removable(Head(deltas).remove)
           add == Addable(Head(deltas).add, remove)
       IN /\ registry' = (registry \ remove) \cup add
          /\ IF add \cup remove = {} \/ manager \in {"none", "failed"}
             THEN UNCHANGED <<handling, adding, toHost>>
             ELSE /\ handling' = "sent" /\ adding' = add
                  /\ Send("delta", add, remove)
    /\ UNCHANGED <<requested, started, lock, managerVars, hostVars, toMain, changes, restarts>>

DeltasDone ==
    /\ handling = "yes" /\ deltas = <<>>
    /\ handling' = "no" /\ lock' = "free"
    /\ UNCHANGED <<windowVars, deltas, adding, managerVars, hostVars, channelVars, changes, restarts>>

\* Faulty variant of ActivateAdded: the event is thought to reach them.
ActivateAddedNever == UNCHANGED toHost

\* _activateAddedExtensionIfNeeded
ActivateAdded ==
    IF requested /\ adding \cap OnEvent # {}
    THEN Send("activate", adding \cap OnEvent, {})
    ELSE UNCHANGED toHost

MainReceives ==
    /\ toMain # <<>>
    /\ toMain' = Tail(toMain)
    /\ LET msg == Head(toMain)
       IN \/ /\ msg.type = "will"
             /\ started' = started \cup msg.add
             /\ Send("reply", msg.add, {})
             /\ UNCHANGED <<handling, adding>>
          \/ /\ msg.type = "reply"
             /\ handling' = "yes" /\ adding' = {}
             /\ ActivateAdded
             /\ UNCHANGED started
    /\ UNCHANGED <<registry, requested, deltas, lock, managerVars, hostVars, changes, restarts>>

-----------------------------------------------------------------------------
(* The window: the extension host stops and starts *)

\* Also a host that is starting, or that never became ready.
Crash ==
    /\ manager \in {"starting", "running", "failed"} /\ restarts < MaxRestart
    /\ manager' = "crashed" /\ restarts' = restarts + 1
    /\ hostRegistry' = {} /\ hostDelta' = Idle /\ op' = NoOps /\ toHost' = <<>>
    /\ UNCHANGED <<windowVars, deltaVars, cached, restart, toMain, changes>>

\* _doStopExtensionHosts.  The answer to a change that was sent never comes: its
\* handler ends with an error, and leaves the rest of the queue where it is.  The start
\* of a host that was not ready goes on to wait for it, with the lock.
Stop ==
    /\ manager' = "none" /\ cached' = FALSE
    /\ started' = {}
    /\ hostRegistry' = {} /\ hostDelta' = Idle /\ op' = NoOps
    /\ toHost' = <<>> /\ toMain' = <<>>
    /\ adding' = {}
    /\ lock' = IF handling = "sent" THEN "free" ELSE lock

\* Faulty variant of StopHandling: without the finally.
StopHandlingStuck == handling

StopHandling == IF handling = "sent" THEN "no" ELSE handling

\* The window learns of the crash: it starts a new host, or asks the user after
\* several crashes.  (Of a host of another version too; the answer then is to relaunch,
\* which starts everything.)
NoticeCrash ==
    /\ manager = "crashed"
    /\ Stop
    /\ handling' = StopHandling
    /\ restart' \in {"locking", "prompt"}
    /\ UNCHANGED <<registry, requested, deltas, changes, restarts>>

\* The user restarts the host, with or without (Idle) changes of the extensions.
Restart(delta) ==
    /\ manager # "none" /\ restarts < MaxRestart
    /\ restarts' = restarts + 1
    /\ Stop
    /\ IF delta = Idle
       THEN handling' = StopHandling /\ UNCHANGED <<deltas, changes>>
       ELSE /\ changes < MaxDelta /\ changes' = changes + 1
            /\ deltas' = Append(deltas, delta)
            /\ handling' = IF StopHandling = "no" THEN "locking" ELSE StopHandling
    /\ restart' = "locking"
    /\ UNCHANGED <<registry, requested>>

AnswerPrompt ==
    /\ restart = "prompt"
    /\ restart' = "locking"
    /\ UNCHANGED <<windowVars, deltaVars, manager, cached, hostVars, channelVars, changes, restarts>>

StartExtensionHosts ==
    /\ restart = "locking" /\ lock = "free"
    /\ restart' = "no" /\ lock' = "start"
    /\ manager' = "starting" /\ cached' = requested
    /\ UNCHANGED <<windowVars, deltas, handling, adding, hostVars, channelVars, changes, restarts>>

\* The process is up, with a copy of the registry; the events it missed are sent.
HostReady ==
    /\ manager = "starting"
    /\ manager' = "running" /\ lock' = "free"
    /\ hostRegistry' = registry
    /\ toHost' = IF cached /\ registry \cap OnEvent # {}
                 THEN <<[type |-> "event", add |-> {}, remove |-> {}]>> ELSE <<>>
    /\ UNCHANGED <<windowVars, deltas, handling, adding, cached, restart, hostDelta, op, toMain, changes, restarts>>

\* The process cannot be started, or is not ready in time: there is a manager without a
\* proxy, and nothing but the log says so.
StartFails ==
    /\ manager = "starting" /\ restarts < MaxRestart
    /\ restarts' = restarts + 1
    /\ manager' = "failed" /\ lock' = "free"
    /\ UNCHANGED <<windowVars, deltas, handling, adding, cached, restart, hostVars, channelVars, changes>>

\* Faulty variant of StartTimesOut: nothing ends the wait for a host that died.
StartNeverTimesOut == FALSE

\* The start of a host that is gone ends when its time is up.
StartTimesOut ==
    /\ lock = "start" /\ manager # "starting"
    /\ lock' = "free"
    /\ UNCHANGED <<windowVars, deltas, handling, adding, managerVars, hostVars, channelVars, changes, restarts>>

-----------------------------------------------------------------------------
(* The extension host *)

\* Neither known nor asked for.
Missing(x) == x \notin hostRegistry /\ op[x] = "none"

\* The dependencies an activation looks at: up to the first that is missing.
Looked(x) == {Deps[x][i] : i \in {j \in DOMAIN Deps[x] : \A k \in 1..j : ~Missing(Deps[x][k])}}

\* All that a request for these asks for is in S.
Includes(S, exts) == exts \subseteq S /\ \A x \in S : op[x] = "none" => Looked(x) \subseteq S

\* What a request for these creates operations for.
Created(exts) ==
    {x \in Ext : op[x] = "none" /\ \A S \in SUBSET Ext : Includes(S, exts) => x \in S}

\* Faulty variant of Ready: one dependency is enough.
ReadyByOne(x) == DepsOf(x) = {} \/ \E d \in DepsOf(x) : op[d] = "ok"

Ready(x) == \A d \in DepsOf(x) : op[d] = "ok"

Doomed(x) == \E d \in DepsOf(x) : Missing(d) \/ op[d] = "failed"

\* Of new operations, those that fail at once, and so do those that depend on them.
FailAtOnce(created) ==
    {x \in created : \A S \in SUBSET created :
        (\A y \in created : Doomed(y) \/ DepsOf(y) \cap S # {} => y \in S) => x \in S}

\* _activateExtensions.  What activates at once is announced to the window.
Request(exts) ==
    LET created == Created(exts)
        failing == FailAtOnce(created)
        announced == {x \in created \ failing : Ready(x)}
    IN /\ op' = [x \in Ext |-> IF x \in failing THEN "failed"
                               ELSE IF x \in announced THEN "announced"
                               ELSE IF x \in created THEN "waiting" ELSE op[x]]
       /\ toMain' = IF announced = {} THEN toMain
                    ELSE Append(toMain, [type |-> "will", add |-> announced, remove |-> {}])

HostReceives ==
    /\ manager = "running" /\ toHost # <<>>
    /\ toHost' = Tail(toHost)
    /\ LET msg == Head(toHost)
       IN \/ /\ msg.type = "event"
             /\ Request(hostRegistry \cap OnEvent)
             /\ UNCHANGED hostDelta
          \/ /\ msg.type = "activate"
             /\ Request(hostRegistry \cap msg.add)
             /\ UNCHANGED hostDelta
          \/ /\ msg.type = "delta"
             /\ hostDelta' = [add |-> msg.add, remove |-> msg.remove]
             /\ UNCHANGED <<op, toMain>>
          \/ /\ msg.type = "reply"
             /\ op' = [x \in Ext |-> IF x \in msg.add THEN "activating" ELSE op[x]]
             /\ UNCHANGED <<hostDelta, toMain>>
    /\ UNCHANGED <<windowVars, deltaVars, managerVars, hostRegistry, changes, restarts>>

\* Faulty variant of Applied: what was removed stays.
AppliedAdditions == hostRegistry \cup hostDelta.add

Applied == (hostRegistry \ hostDelta.remove) \cup hostDelta.add

\* $deltaExtensions, after its search tree is built.
ApplyDelta ==
    /\ manager = "running" /\ hostDelta # Idle
    /\ hostRegistry' = Applied /\ hostDelta' = Idle
    /\ toMain' = Append(toMain, [type |-> "reply", add |-> {}, remove |-> {}])
    /\ UNCHANGED <<windowVars, deltaVars, managerVars, op, toHost, changes, restarts>>

\* A dependency ended: the operation looks at them again.  An extension that was
\* removed meanwhile fails.
CheckDependencies(x) ==
    /\ op[x] = "waiting" /\ (Ready(x) \/ Doomed(x))
    /\ IF Doomed(x) \/ x \notin hostRegistry
       THEN op' = [op EXCEPT ![x] = "failed"] /\ UNCHANGED toMain
       ELSE /\ op' = [op EXCEPT ![x] = "announced"]
            /\ toMain' = Append(toMain, [type |-> "will", add |-> {x}, remove |-> {}])
    /\ UNCHANGED <<windowVars, deltaVars, managerVars, hostRegistry, hostDelta, toHost, changes, restarts>>

ActivateEnds(x) ==
    /\ op[x] = "activating"
    /\ \/ op' = [op EXCEPT ![x] = "ok"]
       \/ x \in Fallible /\ op' = [op EXCEPT ![x] = "failed"]
    /\ UNCHANGED <<windowVars, deltaVars, managerVars, hostRegistry, hostDelta, channelVars, changes, restarts>>

-----------------------------------------------------------------------------

AtMostOne == {xs \in SUBSET Ext : Cardinality(xs) <= 1}

\* What the code does when it is not kept waiting.
Progress ==
    \/ LockForDelta \/ HandleDelta \/ DeltasDone
    \/ MainReceives
    \/ NoticeCrash \/ StartExtensionHosts \/ HostReady \/ StartTimesOut
    \/ HostReceives \/ ApplyDelta
    \/ \E x \in Ext : CheckDependencies(x)

Next ==
    \/ Progress
    \/ ActivateByEvent
    \/ \E add, remove \in AtMostOne :
            \/ ChangeExtensions(add, remove)
            \/ Restart([add |-> add, remove |-> remove])
    \/ Crash \/ StartFails
    \/ AnswerPrompt
    \/ \E x \in Ext : ActivateEnds(x)

Spec == Init /\ [][Next]_vars

\* Messages arrive, a process that is started comes up, fails or dies, a start ends after
\* a time, and promises settle.  Users, extensions and crashes owe nothing.
FairSpec == Spec /\ WF_vars(Progress)

-----------------------------------------------------------------------------
(* Properties *)

\* The state has the types above; a change is under way for a manager only with the
\* lock, and one at a time.
TypeOK ==
    /\ registry \subseteq Ext /\ requested \in BOOLEAN /\ started \subseteq Ext
    /\ deltas \in Seq(Delta) /\ handling \in {"no", "locking", "yes", "sent"}
    /\ adding \subseteq Ext /\ lock \in {"free", "delta", "start"}
    /\ manager \in {"none", "starting", "running", "crashed", "failed"} /\ cached \in BOOLEAN
    /\ restart \in {"no", "locking", "prompt"}
    /\ hostRegistry \subseteq Ext /\ hostDelta \in Delta /\ op \in [Ext -> Status]
    /\ toHost \in Seq(Message) /\ toMain \in Seq(Message)
    /\ changes \in 0..MaxDelta /\ restarts \in 0..MaxRestart
    /\ handling \in {"yes", "sent"} <=> lock = "delta"
    /\ manager = "starting" => lock = "start"

\* The window knows the host: their registries agree unless a change is on its way,
\* and an extension that runs, or did, is known to have started.
WindowKnowsHost ==
    manager = "running" =>
        /\ handling # "sent" => hostRegistry = registry
        /\ \A x \in Ext : op[x] \in {"activating", "ok"} => x \in started

\* An extension activates after all its dependencies did, without an error, whatever
\* was added, removed or asked for in between.
DependenciesFirst ==
    \A x \in Ext : op[x] \in {"announced", "activating", "ok"} => \A d \in DepsOf(x) : op[d] = "ok"

\* An event that was fired is tried on every extension that asks for it, also on one that
\* was added later, or after a crash: its activation ends, well or with an error, unless
\* the extension is removed, a host is wanting because its start failed or the user is
\* asked, or an extension's activate goes on.
RequestedIsActivated ==
    \A x \in OnEvent :
        (requested /\ x \in registry)
        ~> \/ x \notin registry
           \/ restart = "prompt" \/ manager = "failed"
           \/ op[x] \in {"ok", "failed"}
           \/ \E d \in Ext : op[d] = "activating"
================================================================================
