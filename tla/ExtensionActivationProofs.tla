---------------------- MODULE ExtensionActivationProofs ----------------------
(* InStep is an inductive invariant of ExtensionActivation: at any moment     *)
(* there is one place where the change of the extensions that the window has  *)
(* made and the host has not is kept, and one where the announcement of an    *)
(* activation is.  From it follow the invariants the runs check.              *)
EXTENDS ExtensionActivation, SequenceTheorems, TLAPS

-----------------------------------------------------------------------------
(* The inductive invariant *)

\* A host that does not run has nothing, and once the window knows, nothing of the
\* old one arrives any more.
NoHost ==
    /\ manager # "running" => toHost = <<>> /\ op = NoOps /\ hostDelta = Idle
    /\ manager \in {"none", "starting"} => toMain = <<>>
    /\ restart # "no" => manager = "none"

Replies == {i \in DOMAIN toMain : toMain[i].type = "reply"}
Announcements == {i \in DOMAIN toMain : toMain[i].type = "will"}
Changes == {i \in DOMAIN toHost : toHost[i].type = "delta"}
Confirmations == {i \in DOMAIN toHost : toHost[i].type = "reply"}

\* The answer to a change is the only one, and awaited.
OneReply ==
    \A i \in Replies : handling = "sent" /\ \A j \in Replies : j = i

\* A change is on its way to the host, being applied there, or answered: in one of
\* these places only, and until it is applied it is what the registries differ by.
OneChange ==
    /\ \A i \in Changes :
          /\ handling = "sent" /\ hostDelta = Idle /\ Replies = {}
          /\ toHost[i].add \cup toHost[i].remove # {}
          /\ registry = (hostRegistry \ toHost[i].remove) \cup toHost[i].add
          /\ \A j \in Changes : j = i
    /\ hostDelta # Idle => handling = "sent" /\ Changes = {} /\ Replies = {} /\ registry = Applied
    /\ manager = "running" /\ (handling # "sent" \/ Replies # {}) => hostRegistry = registry

\* What is announced to the window, and what the window has confirmed, waits for it,
\* and is in no other message.
OneAnnouncement ==
    manager = "running" =>
        /\ \A i \in Announcements : \A x \in toMain[i].add :
              /\ op[x] = "announced"
              /\ \A j \in Announcements : x \in toMain[j].add => j = i
              /\ \A j \in Confirmations : x \notin toHost[j].add
        /\ \A i \in Confirmations : \A x \in toHost[i].add :
              /\ op[x] = "announced" /\ x \in started
              /\ \A j \in Confirmations : x \in toHost[j].add => j = i

\* What runs in the host has been announced to the window.
RunningIsStarted ==
    \A x \in Ext : op[x] \in {"activating", "ok"} => x \in started

InStep ==
    /\ TypeOK
    /\ NoHost
    /\ OneReply
    /\ OneChange
    /\ OneAnnouncement
    /\ RunningIsStarted
    /\ DependenciesFirst

-----------------------------------------------------------------------------
(* Queues of messages *)

\* A message that is sent goes to the end, and the others stay where they are.
LEMMA AppendAt ==
    ASSUME NEW S, NEW q \in Seq(S), NEW m \in S
    PROVE  /\ Append(q, m) \in Seq(S)
           /\ Len(q) \in Nat /\ DOMAIN q = 1..Len(q)
           /\ DOMAIN Append(q, m) = 1..(Len(q) + 1)
           /\ \A i \in DOMAIN q : Append(q, m)[i] = q[i]
           /\ Append(q, m)[Len(q) + 1] = m
  OBVIOUS

\* A message that is taken is the first, and the others move up by one.
LEMMA TailAt ==
    ASSUME NEW S, NEW q \in Seq(S), q # <<>>
    PROVE  /\ Tail(q) \in Seq(S) /\ Head(q) \in S
           /\ 1 \in DOMAIN q /\ Head(q) = q[1]
           /\ \A i \in DOMAIN Tail(q) : i \in Nat \ {0} /\ i + 1 \in DOMAIN q /\ Tail(q)[i] = q[i + 1]
  OBVIOUS

\* A message to the host is appended, or lost with the process.
LEMMA SendEffect ==
    ASSUME TypeOK, NEW type \in {"event", "activate", "delta", "will", "reply"},
           NEW add \in SUBSET Ext, NEW remove \in SUBSET Ext,
           Send(type, add, remove)
    PROVE  /\ toHost' \in Seq(Message)
           /\ manager # "running" => toHost' = toHost
           /\ manager = "running" =>
                 toHost' = Append(toHost, [type |-> type, add |-> add, remove |-> remove])
<1>1. [type |-> type, add |-> add, remove |-> remove] \in Message
  BY DEF Message
<1> QED
  BY <1>1, AppendAt DEF Send, TypeOK

\* What these do to the messages of the invariant.
LEMMA HostAppend ==
    ASSUME TypeOK, NEW m \in Message, toHost' = Append(toHost, m)
    PROVE  /\ Changes' = Changes \cup (IF m.type = "delta" THEN {Len(toHost) + 1} ELSE {})
           /\ Confirmations' = Confirmations \cup (IF m.type = "reply" THEN {Len(toHost) + 1} ELSE {})
           /\ \A i \in Changes \cup Confirmations : toHost'[i] = toHost[i] /\ i # Len(toHost) + 1
           /\ toHost'[Len(toHost) + 1] = m
  BY AppendAt DEF TypeOK, Changes, Confirmations

LEMMA MainAppend ==
    ASSUME TypeOK, NEW m \in Message, toMain' = Append(toMain, m)
    PROVE  /\ Replies' = Replies \cup (IF m.type = "reply" THEN {Len(toMain) + 1} ELSE {})
           /\ Announcements' = Announcements \cup (IF m.type = "will" THEN {Len(toMain) + 1} ELSE {})
           /\ \A i \in Replies \cup Announcements : toMain'[i] = toMain[i] /\ i # Len(toMain) + 1
           /\ toMain'[Len(toMain) + 1] = m
  BY AppendAt DEF TypeOK, Replies, Announcements

LEMMA HostTail ==
    ASSUME TypeOK, toHost # <<>>, toHost' = Tail(toHost)
    PROVE  /\ Head(toHost) \in Message /\ Head(toHost) = toHost[1]
           /\ 1 \in Changes <=> Head(toHost).type = "delta"
           /\ 1 \in Confirmations <=> Head(toHost).type = "reply"
           /\ \A i \in Changes' : i \in Nat \ {0} /\ i + 1 \in Changes /\ toHost'[i] = toHost[i + 1]
           /\ \A i \in Confirmations' :
                 i \in Nat \ {0} /\ i + 1 \in Confirmations /\ toHost'[i] = toHost[i + 1]
  BY TailAt DEF TypeOK, Changes, Confirmations

LEMMA MainTail ==
    ASSUME TypeOK, toMain # <<>>, toMain' = Tail(toMain)
    PROVE  /\ Head(toMain) \in Message /\ Head(toMain) = toMain[1]
           /\ 1 \in Replies <=> Head(toMain).type = "reply"
           /\ 1 \in Announcements <=> Head(toMain).type = "will"
           /\ \A i \in Replies' : i \in Nat \ {0} /\ i + 1 \in Replies /\ toMain'[i] = toMain[i + 1]
           /\ \A i \in Announcements' :
                 i \in Nat \ {0} /\ i + 1 \in Announcements /\ toMain'[i] = toMain[i + 1]
  BY TailAt DEF TypeOK, Replies, Announcements

\* Empty and unchanged queues.
LEMMA Emptied ==
    /\ toHost' = <<>> => Changes' = {} /\ Confirmations' = {}
    /\ toMain' = <<>> => Replies' = {} /\ Announcements' = {}
  BY DEF Changes, Confirmations, Replies, Announcements

LEMMA Kept ==
    /\ toHost' = toHost => Changes' = Changes /\ Confirmations' = Confirmations
    /\ toMain' = toMain => Replies' = Replies /\ Announcements' = Announcements
  BY DEF Changes, Confirmations, Replies, Announcements

\* The operations a request creates are of extensions that had none.
LEMMA CreatedNew ==
    ASSUME NEW exts
    PROVE  Created(exts) \subseteq Ext /\ \A x \in Created(exts) : op[x] = "none"
  BY DEF Created

-----------------------------------------------------------------------------
(* Types *)

LEMMA InitTypes == Init => TypeOK
<1> SUFFICES ASSUME Init PROVE TypeOK
  OBVIOUS
<1>1. requested \in BOOLEAN /\ cached \in BOOLEAN
  BY DEF Init
<1>2. changes \in 0..MaxDelta /\ restarts \in 0..MaxRestart
  BY BoundAssumption DEF Init
<1>3. deltas \in Seq(Delta) /\ toHost \in Seq(Message) /\ toMain \in Seq(Message)
  BY DEF Init
<1>4. hostDelta \in Delta /\ op \in [Ext -> Status]
  BY DEF Init, Idle, Delta, NoOps, Status
<1>5. registry \subseteq Ext /\ started \subseteq Ext /\ adding \subseteq Ext /\ hostRegistry \subseteq Ext
  BY DEF Init
<1>6. /\ handling \in {"yes", "sent"} <=> lock = "delta"
      /\ manager = "starting" => lock = "start"
  BY DEF Init
<1> QED
  BY <1>1, <1>2, <1>3, <1>4, <1>5, <1>6 DEF Init, TypeOK

LEMMA WindowTypes ==
    ASSUME TypeOK, OneReply,
           \/ ActivateByEvent
           \/ \E add, remove \in SUBSET Ext : ChangeExtensions(add, remove)
           \/ LockForDelta \/ HandleDelta \/ DeltasDone \/ MainReceives
    PROVE  TypeOK'
<1>1. CASE ActivateByEvent
  <2>1. toHost' \in Seq(Message)
    <3>1. Send("event", {}, {}) => toHost' \in Seq(Message)
      BY SendEffect, {} \in SUBSET Ext
    <3> QED
      BY <1>1, <3>1 DEF ActivateByEvent, TypeOK
  <2>2. requested' \in BOOLEAN /\ cached' \in BOOLEAN
    BY <1>1 DEF ActivateByEvent, TypeOK
  <2> QED
    BY <1>1, <2>1, <2>2 DEF ActivateByEvent, TypeOK, deltaVars, hostVars
<1>2. ASSUME NEW add \in SUBSET Ext, NEW remove \in SUBSET Ext, ChangeExtensions(add, remove)
      PROVE  TypeOK'
  <2>1. [add |-> add, remove |-> remove] \in Delta
    BY DEF Delta
  <2>2. deltas' \in Seq(Delta) /\ handling' \in {"no", "locking", "yes", "sent"}
        /\ (handling' \in {"yes", "sent"} <=> handling \in {"yes", "sent"})
    BY <1>2, <2>1, AppendAt DEF ChangeExtensions, Enqueue, TypeOK
  <2>3. changes' \in 0..MaxDelta
    BY <1>2, BoundAssumption DEF ChangeExtensions, TypeOK
  <2> QED
    BY <1>2, <2>2, <2>3 DEF ChangeExtensions, TypeOK, windowVars, managerVars, hostVars, channelVars
<1>3. CASE LockForDelta \/ DeltasDone
  BY <1>3 DEF LockForDelta, DeltasDone, TypeOK, windowVars, managerVars, hostVars, channelVars
<1>4. CASE HandleDelta
  <2> DEFINE remove == Removable(Head(deltas).remove)
             add == Addable(Head(deltas).add, remove)
  <2>1. deltas' \in Seq(Delta) /\ Head(deltas) \in Delta
    BY <1>4, TailAt DEF HandleDelta, TypeOK
  <2>2. remove \in SUBSET Ext /\ add \in SUBSET Ext
    BY <2>1 DEF Delta, Removable, Addable
  <2>3. /\ registry' = (registry \ remove) \cup add
        /\ \/ UNCHANGED <<handling, adding, toHost>>
           \/ handling' = "sent" /\ adding' = add /\ Send("delta", add, remove)
    BY <1>4 DEF HandleDelta
  <2> HIDE DEF remove, add
  <2>4. toHost' \in Seq(Message)
    BY <2>2, <2>3, SendEffect DEF TypeOK
  <2> QED
    BY <1>4, <2>1, <2>2, <2>3, <2>4 DEF HandleDelta, TypeOK, managerVars, hostVars
<1>5. CASE MainReceives
  <2>1. toMain # <<>> /\ toMain' = Tail(toMain) /\ toMain \in Seq(Message)
    BY <1>5 DEF MainReceives, TypeOK
  <2>2. toMain' \in Seq(Message) /\ Head(toMain) \in Message /\ 1 \in DOMAIN toMain
        /\ Head(toMain) = toMain[1]
    BY <2>1, TailAt
  <2>3. CASE /\ Head(toMain).type = "will"
             /\ started' = started \cup Head(toMain).add
             /\ Send("reply", Head(toMain).add, {})
             /\ UNCHANGED <<handling, adding>>
    <3>1. Head(toMain).add \in SUBSET Ext
      BY <2>2 DEF Message
    <3>2. toHost' \in Seq(Message)
      BY <2>3, <3>1, SendEffect, {} \in SUBSET Ext
    <3>3. started' \subseteq Ext
      BY <2>3, <3>1 DEF TypeOK
    <3> QED
      BY <1>5, <2>2, <2>3, <3>2, <3>3 DEF MainReceives, TypeOK, managerVars, hostVars
  <2>4. CASE /\ Head(toMain).type = "reply"
             /\ handling' = "yes" /\ adding' = {}
             /\ ActivateAdded
             /\ UNCHANGED started
    <3>1. handling = "sent"
      BY <2>2, <2>4 DEF OneReply, Replies
    <3>2. toHost' \in Seq(Message)
      BY <2>4, SendEffect, {} \in SUBSET Ext DEF ActivateAdded, TypeOK
    <3> QED
      BY <1>5, <2>2, <2>4, <3>1, <3>2 DEF MainReceives, TypeOK, managerVars, hostVars
  <2> QED
    BY <1>5, <2>3, <2>4 DEF MainReceives
<1> QED
  BY <1>1, <1>2, <1>3, <1>4, <1>5

LEMMA StopTypes ==
    ASSUME TypeOK, Stop
    PROVE  /\ manager' = "none" /\ cached' \in BOOLEAN
           /\ started' \subseteq Ext /\ hostRegistry' \subseteq Ext /\ adding' \subseteq Ext
           /\ hostDelta' \in Delta /\ op' \in [Ext -> Status]
           /\ toHost' \in Seq(Message) /\ toMain' \in Seq(Message)
           /\ lock' \in {"free", "delta", "start"}
           /\ StopHandling \in {"no", "locking", "yes"}
           /\ StopHandling = "yes" <=> lock' = "delta"
<1>1. cached' \in BOOLEAN
  BY DEF Stop
<1>2. hostDelta' \in Delta /\ op' \in [Ext -> Status]
  BY DEF Stop, Idle, Delta, NoOps, Status
<1>3. toHost' \in Seq(Message) /\ toMain' \in Seq(Message)
  BY DEF Stop
<1>4. /\ lock' \in {"free", "delta", "start"} /\ StopHandling \in {"no", "locking", "yes"}
      /\ StopHandling = "yes" <=> lock' = "delta"
  BY DEF Stop, StopHandling, TypeOK
<1> QED
  BY <1>1, <1>2, <1>3, <1>4 DEF Stop

LEMMA ManagerTypes ==
    ASSUME TypeOK,
           \/ Crash \/ NoticeCrash \/ AnswerPrompt \/ StartExtensionHosts \/ HostReady
           \/ StartFails \/ StartTimesOut
           \/ \E delta \in Delta : Restart(delta)
    PROVE  TypeOK'
<1>1. CASE Crash
  <2>1. hostDelta' \in Delta /\ op' \in [Ext -> Status]
    BY <1>1 DEF Crash, Idle, Delta, NoOps, Status
  <2>2. restarts' \in 0..MaxRestart
    BY <1>1, BoundAssumption DEF Crash, TypeOK
  <2> QED
    BY <1>1, <2>1, <2>2 DEF Crash, TypeOK, windowVars, deltaVars
<1>2. CASE NoticeCrash
  <2>1. Stop /\ handling' = StopHandling /\ manager = "crashed"
    BY <1>2 DEF NoticeCrash
  <2> QED
    BY <1>2, <2>1, StopTypes DEF NoticeCrash, TypeOK
<1>3. ASSUME NEW delta \in Delta, Restart(delta)
      PROVE  TypeOK'
  <2>1. /\ registry' = registry /\ requested' = requested /\ restart' = "locking"
        /\ Stop
    BY <1>3 DEF Restart
  <2>2. changes' \in 0..MaxDelta /\ restarts' \in 0..MaxRestart
    BY <1>3, BoundAssumption DEF Restart, TypeOK
  <2>3. deltas' \in Seq(Delta)
    <3>1. deltas' = deltas \/ deltas' = Append(deltas, delta)
      BY <1>3 DEF Restart
    <3>2. deltas \in Seq(Delta)
      BY DEF TypeOK
    <3> QED
      BY <3>1, <3>2, AppendAt
  <2>4. handling' = StopHandling \/ (StopHandling = "no" /\ handling' = "locking")
    BY <1>3 DEF Restart
  <2> QED
    BY <2>1, <2>2, <2>3, <2>4, StopTypes DEF TypeOK
<1>4. CASE AnswerPrompt
  BY <1>4 DEF AnswerPrompt, TypeOK, windowVars, deltaVars, hostVars, channelVars
<1>5. CASE StartExtensionHosts
  BY <1>5 DEF StartExtensionHosts, TypeOK, windowVars, hostVars, channelVars
<1>6. CASE HostReady
  <2>1. [type |-> "event", add |-> {}, remove |-> {}] \in Message
    BY DEF Message
  <2>2. toHost' \in Seq(Message)
    BY <1>6, <2>1 DEF HostReady
  <2> QED
    BY <1>6, <2>2 DEF HostReady, TypeOK, windowVars
<1>7. CASE StartFails
  <2>1. restarts' \in 0..MaxRestart
    BY <1>7, BoundAssumption DEF StartFails, TypeOK
  <2> QED
    BY <1>7, <2>1 DEF StartFails, TypeOK, windowVars, hostVars, channelVars
<1>8. CASE StartTimesOut
  BY <1>8 DEF StartTimesOut, TypeOK, windowVars, managerVars, hostVars, channelVars
<1> QED
  BY <1>1, <1>2, <1>3, <1>4, <1>5, <1>6, <1>7, <1>8

LEMMA RequestTypes ==
    ASSUME TypeOK, NEW exts, Request(exts)
    PROVE  op' \in [Ext -> Status] /\ toMain' \in Seq(Message)
<1> DEFINE announced == {x \in Created(exts) \ FailAtOnce(Created(exts)) : Ready(x)}
           will == [type |-> "will", add |-> announced, remove |-> {}]
<1>1. will \in Message
  BY CreatedNew DEF Message
<1>2. toMain' = toMain \/ toMain' = Append(toMain, will)
  BY DEF Request
<1>4. op' \in [Ext -> Status]
  BY DEF Request, Status, TypeOK
<1> HIDE DEF will
<1>5. toMain' \in Seq(Message)
  <2>1. toMain \in Seq(Message)
    BY DEF TypeOK
  <2> QED
    BY <1>1, <1>2, <2>1, AppendAt
<1> QED
  BY <1>4, <1>5

LEMMA HostTypes ==
    ASSUME TypeOK, HostReceives \/ ApplyDelta \/ \E x \in Ext : CheckDependencies(x) \/ ActivateEnds(x)
    PROVE  TypeOK'
<1>1. CASE HostReceives
  <2> DEFINE msg == Head(toHost)
  <2>1. toHost' \in Seq(Message) /\ msg \in Message
    BY <1>1, TailAt DEF HostReceives, TypeOK
  <2>2. /\ op' \in [Ext -> Status] /\ toMain' \in Seq(Message) /\ hostDelta' \in Delta
    <3>1. CASE \E exts : Request(exts) /\ UNCHANGED hostDelta
      BY <3>1, RequestTypes DEF TypeOK
    <3>2. CASE hostDelta' = [add |-> msg.add, remove |-> msg.remove] /\ UNCHANGED <<op, toMain>>
      BY <2>1, <3>2 DEF Message, Delta, TypeOK
    <3>3. CASE /\ op' = [x \in Ext |-> IF x \in msg.add THEN "activating" ELSE op[x]]
               /\ UNCHANGED <<hostDelta, toMain>>
      BY <3>3 DEF Status, TypeOK
    <3> QED
      BY <1>1, <3>1, <3>2, <3>3 DEF HostReceives
  <2> QED
    BY <1>1, <2>1, <2>2 DEF HostReceives, TypeOK, windowVars, deltaVars, managerVars
<1>2. CASE ApplyDelta
  <2>1. [type |-> "reply", add |-> {}, remove |-> {}] \in Message
    BY DEF Message
  <2>2. toMain' \in Seq(Message)
    BY <1>2, <2>1, AppendAt DEF ApplyDelta, TypeOK
  <2>3. hostDelta' \in Delta /\ hostRegistry' \subseteq Ext
    BY <1>2 DEF ApplyDelta, Applied, Idle, Delta, TypeOK
  <2> QED
    BY <1>2, <2>2, <2>3 DEF ApplyDelta, TypeOK, windowVars, deltaVars, managerVars
<1>3. ASSUME NEW x \in Ext, CheckDependencies(x)
      PROVE  TypeOK'
  <2> DEFINE will == [type |-> "will", add |-> {x}, remove |-> {}]
  <2>1. will \in Message
    BY DEF Message
  <2>2. toMain' = toMain \/ toMain' = Append(toMain, will)
    BY <1>3 DEF CheckDependencies
  <2> HIDE DEF will
  <2>3. op' \in [Ext -> Status]
    BY <1>3 DEF CheckDependencies, Status, TypeOK
  <2>4. toMain' \in Seq(Message)
    BY <2>1, <2>2, AppendAt DEF TypeOK
  <2> QED
    BY <1>3, <2>3, <2>4 DEF CheckDependencies, TypeOK, windowVars, deltaVars, managerVars
<1>4. ASSUME NEW x \in Ext, ActivateEnds(x)
      PROVE  TypeOK'
  <2>1. op' \in [Ext -> Status]
    BY <1>4 DEF ActivateEnds, Status, TypeOK
  <2> QED
    BY <1>4, <2>1 DEF ActivateEnds, TypeOK, windowVars, deltaVars, managerVars, channelVars
<1> QED
  BY <1>1, <1>2, <1>3, <1>4

-----------------------------------------------------------------------------
(* The steps of the window *)

\* All of InStep but the types.
Agree ==
    /\ NoHost
    /\ OneReply
    /\ OneChange
    /\ OneAnnouncement
    /\ RunningIsStarted
    /\ DependenciesFirst

\* Steps that leave both ends, and what is between them, as they are.
LEMMA QuietSteps ==
    ASSUME InStep,
           \/ \E add, remove \in SUBSET Ext : ChangeExtensions(add, remove)
           \/ LockForDelta \/ DeltasDone \/ AnswerPrompt \/ StartExtensionHosts
           \/ StartFails \/ StartTimesOut \/ UNCHANGED vars
    PROVE  Agree'
<1>1. /\ UNCHANGED <<registry, started, hostRegistry, hostDelta, op, toHost, toMain>>
      /\ manager' # manager =>
            /\ restart' = "no"
            /\ \/ manager = "none" /\ manager' = "starting"
               \/ manager = "starting" /\ manager' = "failed"
      /\ restart' # "no" => restart # "no" /\ manager' = manager
      /\ handling' = "sent" <=> handling = "sent"
  BY DEF InStep, NoHost, ChangeExtensions, Enqueue, LockForDelta, DeltasDone, AnswerPrompt,
     StartExtensionHosts, StartFails, StartTimesOut, vars, windowVars, deltaVars, managerVars,
     hostVars, channelVars
<1>2. NoHost'
  BY <1>1 DEF InStep, NoHost, NoOps, Idle
<1>3. OneReply' /\ OneChange'
  BY <1>1, Kept DEF InStep, OneReply, OneChange, Applied, Idle
<1>4. OneAnnouncement' /\ RunningIsStarted' /\ DependenciesFirst'
  BY <1>1, Kept DEF InStep, OneAnnouncement, RunningIsStarted, DependenciesFirst, DepsOf
<1> QED
  BY <1>2, <1>3, <1>4 DEF Agree

\* An event is sent: neither a change nor a confirmation.
LEMMA EventStep ==
    ASSUME InStep, ActivateByEvent
    PROVE  Agree'
<1> DEFINE event == [type |-> "event", add |-> {}, remove |-> {}]
<1>1. event \in Message
  BY DEF Message
<1>2. /\ UNCHANGED <<registry, started, hostRegistry, hostDelta, op, toMain, manager, handling, restart>>
      /\ toHost' = toHost \/ (manager = "running" /\ toHost' = Append(toHost, event))
  BY DEF ActivateByEvent, Send, deltaVars, managerVars, hostVars
<1>3. event.type = "event"
  OBVIOUS
<1> HIDE DEF event
<1>4. /\ Changes' = Changes /\ Confirmations' = Confirmations
      /\ \A i \in Changes \cup Confirmations : toHost'[i] = toHost[i]
  BY <1>1, <1>2, <1>3, HostAppend, Kept DEF InStep
<1>5. NoHost'
  BY <1>2 DEF InStep, NoHost, NoOps, Idle
<1>6. OneReply' /\ OneChange'
  BY <1>2, <1>4, Kept DEF InStep, OneReply, OneChange, Applied, Idle
<1>7. OneAnnouncement' /\ RunningIsStarted' /\ DependenciesFirst'
  BY <1>2, <1>4, Kept DEF InStep, OneAnnouncement, RunningIsStarted, DependenciesFirst, DepsOf
<1> QED
  BY <1>5, <1>6, <1>7 DEF Agree

\* A change is made to the registry and sent: it is what the registries differ by.
LEMMA HandleDeltaStep ==
    ASSUME InStep, HandleDelta
    PROVE  Agree'
<1> DEFINE remove == Removable(Head(deltas).remove)
           add == Addable(Head(deltas).add, remove)
           m == [type |-> "delta", add |-> add, remove |-> remove]
<1>1. /\ UNCHANGED <<started, hostRegistry, hostDelta, op, toMain, manager, restart>>
      /\ handling = "yes" /\ registry' = (registry \ remove) \cup add
  BY DEF HandleDelta, managerVars, hostVars
<1>2. Head(deltas) \in Delta
  BY TailAt DEF HandleDelta, InStep, TypeOK
<1>3. m \in Message /\ m.type = "delta" /\ m.add = add /\ m.remove = remove
  BY <1>2 DEF Delta, Removable, Addable, Message
<1>4. \/ UNCHANGED <<handling, toHost>> /\ (add \cup remove = {} \/ manager # "running")
      \/ /\ add \cup remove # {} /\ handling' = "sent"
         /\ IF manager = "running" THEN toHost' = Append(toHost, m) ELSE UNCHANGED toHost
  BY DEF HandleDelta, Send
<1> HIDE DEF add, remove, m
<1>5. Replies = {} /\ Changes = {} /\ hostDelta = Idle /\ (manager = "running" => hostRegistry = registry)
  BY <1>1 DEF InStep, OneReply, OneChange
<1>6. CASE UNCHANGED <<handling, toHost>> /\ (add \cup remove = {} \/ manager # "running")
  <2>1. registry' = registry \/ manager # "running"
    BY <1>1, <1>6
  <2>2. NoHost' /\ OneReply' /\ OneChange'
    BY <1>1, <1>5, <1>6, <2>1, Kept DEF InStep, NoHost, OneReply, OneChange, NoOps, Idle
  <2>3. OneAnnouncement' /\ RunningIsStarted' /\ DependenciesFirst'
    BY <1>1, <1>6, Kept DEF InStep, OneAnnouncement, RunningIsStarted, DependenciesFirst, DepsOf
  <2> QED
    BY <2>2, <2>3 DEF Agree
<1>7. CASE manager # "running" /\ handling' = "sent" /\ UNCHANGED toHost
  <2>1. NoHost' /\ OneReply' /\ OneChange'
    BY <1>1, <1>5, <1>7, Kept DEF InStep, NoHost, OneReply, OneChange, NoOps, Idle
  <2>2. OneAnnouncement' /\ RunningIsStarted' /\ DependenciesFirst'
    BY <1>1, <1>7 DEF InStep, OneAnnouncement, RunningIsStarted, DependenciesFirst, DepsOf
  <2> QED
    BY <2>1, <2>2 DEF Agree
<1>8. CASE manager = "running" /\ add \cup remove # {} /\ handling' = "sent" /\ toHost' = Append(toHost, m)
  <2>1. /\ Changes' = {Len(toHost) + 1} /\ Confirmations' = Confirmations
        /\ \A i \in Confirmations : toHost'[i] = toHost[i]
        /\ toHost'[Len(toHost) + 1] = m
    BY <1>3, <1>5, <1>8, HostAppend DEF InStep
  <2>2. NoHost' /\ OneReply'
    BY <1>1, <1>5, <1>8, Kept DEF InStep, NoHost, OneReply
  <2>3. OneChange'
    BY <1>1, <1>3, <1>5, <1>8, <2>1, Kept DEF OneChange, Idle
  <2>4. OneAnnouncement' /\ RunningIsStarted' /\ DependenciesFirst'
    BY <1>1, <2>1, Kept DEF InStep, OneAnnouncement, RunningIsStarted, DependenciesFirst, DepsOf
  <2> QED
    BY <2>2, <2>3, <2>4 DEF Agree
<1> QED
  BY <1>4, <1>6, <1>7, <1>8

\* An announcement is confirmed: it moves to the other queue.
LEMMA WillStep ==
    ASSUME InStep, toMain # <<>>, toMain' = Tail(toMain), Head(toMain).type = "will",
           started' = started \cup Head(toMain).add,
           Send("reply", Head(toMain).add, {}),
           UNCHANGED <<handling, registry, managerVars, hostVars>>
    PROVE  Agree'
<1> DEFINE exts == Head(toMain).add
           m == [type |-> "reply", add |-> exts, remove |-> {}]
<1> HIDE DEF exts, m
<1>1. /\ 1 \in Announcements /\ 1 \notin Replies /\ exts = toMain[1].add /\ exts \subseteq Ext
      /\ \A i \in Replies' : i \in Nat \ {0} /\ i + 1 \in Replies
      /\ \A i \in Announcements' : /\ i \in Nat \ {0} /\ i + 1 \in Announcements
                                    /\ toMain'[i] = toMain[i + 1]
  <2>1. /\ Head(toMain) \in Message /\ Head(toMain) = toMain[1]
        /\ 1 \in Announcements /\ 1 \notin Replies
        /\ \A i \in Replies' : i \in Nat \ {0} /\ i + 1 \in Replies
        /\ \A i \in Announcements' :
              i \in Nat \ {0} /\ i + 1 \in Announcements /\ toMain'[i] = toMain[i + 1]
    BY MainTail DEF InStep
  <2>2. exts = toMain[1].add /\ exts \subseteq Ext
    BY <2>1 DEF Message, exts
  <2> QED
    BY <2>1, <2>2
<1>2. m \in Message /\ m.type = "reply" /\ m.add = exts
  BY <1>1 DEF Message, m
<1>3. IF manager = "running" THEN toHost' = Append(toHost, m) ELSE toHost' = toHost
  BY DEF Send, m, exts
<1>4. UNCHANGED <<manager, restart, hostRegistry, hostDelta, op>>
  BY DEF managerVars, hostVars
<1>5. OneReply' /\ (Replies = {} => Replies' = {})
  BY <1>1 DEF InStep, OneReply
<1>6. NoHost'
  BY <1>1, <1>3, <1>4 DEF InStep, NoHost, NoOps, Idle
<1>7. RunningIsStarted' /\ DependenciesFirst'
  BY <1>4 DEF InStep, RunningIsStarted, DependenciesFirst, DepsOf
<1>8. Replies' # {} => Replies # {}
  BY <1>1
<1>9. CASE manager = "running"
  <2>1. /\ Changes' = Changes /\ Confirmations' = Confirmations \cup {Len(toHost) + 1}
        /\ \A i \in Changes \cup Confirmations : toHost'[i] = toHost[i] /\ i # Len(toHost) + 1
        /\ toHost'[Len(toHost) + 1] = m
    BY <1>2, <1>3, <1>9, HostAppend DEF InStep
  <2>2. OneChange'
    BY <1>4, <1>5, <1>8, <2>1 DEF InStep, OneChange, Applied, Idle
  <2>3. ASSUME NEW i \in Announcements', NEW x \in toMain'[i].add
        PROVE  /\ op'[x] = "announced"
               /\ \A j \in Announcements' : x \in toMain'[j].add => j = i
               /\ \A j \in Confirmations' : x \notin toHost'[j].add
    <3>1. /\ op[x] = "announced" /\ x \in toMain[i + 1].add /\ x \notin exts
          /\ \A j \in Confirmations : x \notin toHost[j].add
      <4>1. i \in Nat \ {0} /\ i + 1 \in Announcements /\ x \in toMain[i + 1].add
        BY <1>1, <2>3
      <4>2. /\ op[x] = "announced"
            /\ \A j \in Announcements : x \in toMain[j].add => j = i + 1
            /\ \A j \in Confirmations : x \notin toHost[j].add
        BY <1>9, <4>1 DEF InStep, OneAnnouncement
      <4> QED
        BY <1>1, <4>1, <4>2
    <3>2. ASSUME NEW j \in Announcements', x \in toMain'[j].add PROVE j = i
      <4>1. /\ i + 1 \in Announcements /\ x \in toMain[i + 1].add /\ i \in Nat
            /\ j + 1 \in Announcements /\ x \in toMain[j + 1].add /\ j \in Nat
        BY <1>1, <2>3, <3>2
      <4>2. j + 1 = i + 1
        BY <1>9, <4>1 DEF InStep, OneAnnouncement
      <4> QED
        BY <4>1, <4>2
    <3> QED
      BY <1>2, <1>4, <2>1, <3>1, <3>2
  <2>4. ASSUME NEW i \in Confirmations', NEW x \in toHost'[i].add
        PROVE  /\ op'[x] = "announced" /\ x \in started'
               /\ \A j \in Confirmations' : x \in toHost'[j].add => j = i
    <3>1. CASE i = Len(toHost) + 1
      <4>1. x \in exts /\ x \in toMain[1].add
        BY <1>1, <1>2, <2>1, <2>4, <3>1 DEF exts
      <4>2. op[x] = "announced" /\ \A j \in Confirmations : x \notin toHost[j].add
        BY <1>1, <1>9, <4>1 DEF InStep, OneAnnouncement
      <4> QED
        BY <1>4, <2>1, <3>1, <4>1, <4>2 DEF exts
    <3>2. CASE i \in Confirmations
      <4>1. /\ op[x] = "announced" /\ x \in started
            /\ \A j \in Confirmations : x \in toHost[j].add => j = i
        BY <1>9, <2>1, <2>4, <3>2 DEF InStep, OneAnnouncement
      <4>2. x \notin exts
        BY <1>1, <1>9, <2>1, <2>4, <3>2 DEF InStep, OneAnnouncement, exts
      <4> QED
        BY <1>2, <1>4, <2>1, <4>1, <4>2
    <3> QED
      BY <2>1, <3>1, <3>2
  <2>5. OneAnnouncement'
    BY <2>3, <2>4 DEF OneAnnouncement
  <2> QED
    BY <1>5, <1>6, <1>7, <2>2, <2>5 DEF Agree
<1>10. CASE manager # "running"
  <2>1. OneChange'
    BY <1>3, <1>4, <1>10, <1>5, Kept DEF InStep, OneChange, Applied, Idle
  <2>2. OneAnnouncement'
    BY <1>4, <1>10 DEF OneAnnouncement
  <2> QED
    BY <1>5, <1>6, <1>7, <2>1, <2>2 DEF Agree
<1> QED
  BY <1>9, <1>10

\* The answer to a change: the registries agree, and the next one may be made.
LEMMA ReplyStep ==
    ASSUME InStep, toMain # <<>>, toMain' = Tail(toMain), Head(toMain).type = "reply",
           handling' = "yes", ActivateAdded,
           UNCHANGED <<started, registry, managerVars, hostVars>>
    PROVE  Agree'
<1> DEFINE m == [type |-> "activate", add |-> adding \cap OnEvent, remove |-> {}]
<1>1. /\ 1 \in Replies
      /\ \A i \in Replies' : i \in Nat \ {0} /\ i + 1 \in Replies
      /\ \A i \in Announcements' :
            i \in Nat \ {0} /\ i + 1 \in Announcements /\ toMain'[i] = toMain[i + 1]
  BY MainTail DEF InStep
<1>2. m \in Message /\ m.type = "activate"
  BY DEF InStep, TypeOK, Message
<1>3. toHost' = toHost \/ (manager = "running" /\ toHost' = Append(toHost, m))
  BY DEF ActivateAdded, Send
<1>4. UNCHANGED <<manager, restart, hostRegistry, hostDelta, op>>
  BY DEF managerVars, hostVars
<1> HIDE DEF m
<1>5. /\ Changes' = Changes /\ Confirmations' = Confirmations
      /\ \A i \in Changes \cup Confirmations : toHost'[i] = toHost[i]
  BY <1>2, <1>3, HostAppend, Kept DEF InStep
<1>6. Replies' = {} /\ Changes = {} /\ hostDelta = Idle /\ (manager = "running" => hostRegistry = registry)
  <2>1. \A i \in Replies : i = 1
    BY <1>1 DEF InStep, OneReply
  <2>2. Replies' = {}
    BY <1>1, <2>1
  <2> QED
    BY <1>1, <2>2 DEF InStep, OneChange
<1>7. NoHost'
  BY <1>3, <1>4 DEF InStep, NoHost, NoOps, Idle
<1>8. OneReply' /\ OneChange'
  BY <1>4, <1>5, <1>6 DEF OneReply, OneChange, Idle
<1>9. OneAnnouncement'
  <2> SUFFICES ASSUME manager = "running" PROVE OneAnnouncement'
    BY <1>4 DEF OneAnnouncement
  <2>1. ASSUME NEW i \in Announcements', NEW x \in toMain'[i].add
        PROVE  /\ op'[x] = "announced"
               /\ \A j \in Announcements' : x \in toMain'[j].add => j = i
               /\ \A j \in Confirmations' : x \notin toHost'[j].add
    <3>1. i \in Nat \ {0} /\ i + 1 \in Announcements /\ x \in toMain[i + 1].add
      BY <1>1, <2>1
    <3>2. /\ op[x] = "announced"
          /\ \A j \in Announcements : x \in toMain[j].add => j = i + 1
          /\ \A j \in Confirmations : x \notin toHost[j].add
      BY <3>1 DEF InStep, OneAnnouncement
    <3>3. ASSUME NEW j \in Announcements', x \in toMain'[j].add PROVE j = i
      <4>1. j \in Nat /\ j + 1 \in Announcements /\ x \in toMain[j + 1].add
        BY <1>1, <3>3
      <4> QED
        BY <3>1, <3>2, <4>1
    <3> QED
      BY <1>4, <1>5, <3>2, <3>3
  <2>2. ASSUME NEW i \in Confirmations', NEW x \in toHost'[i].add
        PROVE  /\ op'[x] = "announced" /\ x \in started'
               /\ \A j \in Confirmations' : x \in toHost'[j].add => j = i
    BY <1>4, <1>5, <2>2 DEF InStep, OneAnnouncement
  <2> QED
    BY <2>1, <2>2 DEF OneAnnouncement
<1>10. RunningIsStarted' /\ DependenciesFirst'
  BY <1>4 DEF InStep, RunningIsStarted, DependenciesFirst, DepsOf
<1> QED
  BY <1>7, <1>8, <1>9, <1>10 DEF Agree

-----------------------------------------------------------------------------
(* The host stops and starts *)

LEMMA CrashStep ==
    ASSUME InStep, Crash
    PROVE  Agree'
<1>1. /\ manager' = "crashed" /\ manager # "none" /\ hostDelta' = Idle /\ op' = NoOps /\ toHost' = <<>>
      /\ UNCHANGED <<handling, restart, toMain>>
  BY DEF Crash, deltaVars
<1>2. NoHost' /\ OneAnnouncement'
  BY <1>1 DEF InStep, NoHost, OneAnnouncement, NoOps, Idle
<1>3. OneReply' /\ OneChange'
  BY <1>1, Emptied, Kept DEF InStep, OneReply, OneChange, Idle
<1>4. RunningIsStarted' /\ DependenciesFirst'
  BY <1>1 DEF NoOps, RunningIsStarted, DependenciesFirst
<1> QED
  BY <1>2, <1>3, <1>4 DEF Agree

LEMMA StopStep ==
    ASSUME InStep, NoticeCrash \/ \E delta \in Delta : Restart(delta)
    PROVE  Agree'
<1>1. Stop
  BY DEF NoticeCrash, Restart
<1>2. /\ manager' = "none" /\ hostDelta' = Idle /\ op' = NoOps
      /\ toHost' = <<>> /\ toMain' = <<>>
  BY <1>1 DEF Stop
<1>3. NoHost' /\ OneAnnouncement'
  BY <1>2 DEF NoHost, OneAnnouncement, NoOps, Idle
<1>4. OneReply' /\ OneChange'
  BY <1>2, Emptied DEF OneReply, OneChange, Idle
<1>5. RunningIsStarted' /\ DependenciesFirst'
  BY <1>2 DEF NoOps, RunningIsStarted, DependenciesFirst
<1> QED
  BY <1>3, <1>4, <1>5 DEF Agree

LEMMA HostReadyStep ==
    ASSUME InStep, HostReady
    PROVE  Agree'
<1>1. /\ manager = "starting" /\ manager' = "running" /\ hostRegistry' = registry
      /\ UNCHANGED <<registry, started, handling, restart, hostDelta, op, toMain>>
  BY DEF HostReady, windowVars
<1>2. op = NoOps /\ hostDelta = Idle /\ toMain = <<>> /\ restart = "no"
  BY <1>1 DEF InStep, NoHost, TypeOK
<1>3. Changes' = {} /\ Confirmations' = {}
  BY DEF HostReady, Changes, Confirmations
<1>4. Replies' = {} /\ Announcements' = {}
  BY <1>1, <1>2, Emptied
<1>5. NoHost' /\ OneReply' /\ OneChange' /\ OneAnnouncement'
  BY <1>1, <1>2, <1>3, <1>4 DEF NoHost, OneReply, OneChange, OneAnnouncement, Idle, NoOps
<1>6. RunningIsStarted' /\ DependenciesFirst'
  BY <1>1, <1>2 DEF NoOps, RunningIsStarted, DependenciesFirst
<1> QED
  BY <1>5, <1>6 DEF Agree

-----------------------------------------------------------------------------
(* The extension host *)

\* Dependencies are extensions.
LEMMA DepsInExt == \A x \in Ext : DepsOf(x) \subseteq Ext
  BY DepsAssumption DEF DepsOf

\* Messages are about extensions.
LEMMA MessagesInExt ==
    ASSUME TypeOK
    PROVE  /\ \A i \in Announcements : toMain[i].add \subseteq Ext
           /\ \A i \in Confirmations : toHost[i].add \subseteq Ext
<1>1. /\ \A i \in DOMAIN toMain : toMain[i] \in Message
      /\ \A i \in DOMAIN toHost : toHost[i] \in Message
  BY DEF TypeOK
<1> QED
  BY <1>1 DEF Message, Announcements, Confirmations

\* A message of the window that is taken or none: the changes and confirmations that
\* are left were there, k places further on.
LEMMA HostShift ==
    ASSUME TypeOK, toHost' = toHost \/ (toHost # <<>> /\ toHost' = Tail(toHost))
    PROVE  \E k \in {0, 1} :
              /\ \A i \in Changes' : i \in Nat /\ i + k \in Changes /\ toHost'[i] = toHost[i + k]
              /\ \A i \in Confirmations' :
                    i \in Nat /\ i + k \in Confirmations /\ toHost'[i] = toHost[i + k]
<1>1. CASE toHost' = toHost
  <2>1. Changes' = Changes /\ Confirmations' = Confirmations
    BY <1>1, Kept
  <2>2. \A i \in Changes \cup Confirmations : i \in Nat /\ i + 0 = i
    BY DEF TypeOK, Changes, Confirmations
  <2> QED
    BY <1>1, <2>1, <2>2
<1>2. CASE toHost # <<>> /\ toHost' = Tail(toHost)
  BY <1>2, HostTail
<1> QED
  BY <1>1, <1>2

\* Activations that have not begun are announced, wait or fail: those announced have
\* all their dependencies, and were in no message before.
LEMMA AnnounceStep ==
    ASSUME InStep, manager = "running",
           NEW changed \in SUBSET Ext,
           \A x \in changed : op[x] \in {"none", "waiting"} /\ op'[x] \in {"failed", "waiting", "announced"},
           \A x \in Ext \ changed : op'[x] = op[x],
           NEW announced, announced = {x \in changed : op'[x] = "announced"},
           \A x \in announced : \A d \in DepsOf(x) : op[d] = "ok",
           toMain' = IF announced = {} THEN toMain
                     ELSE Append(toMain, [type |-> "will", add |-> announced, remove |-> {}]),
           toHost' = toHost \/ (toHost # <<>> /\ toHost' = Tail(toHost)),
           UNCHANGED <<registry, started, handling, manager, restart, hostRegistry, hostDelta>>
    PROVE  Agree'
<1> DEFINE will == [type |-> "will", add |-> announced, remove |-> {}]
<1>1. will \in Message /\ will.type = "will" /\ will.add = announced
  BY DEF Message
<1>2. PICK k \in {0, 1} :
         /\ \A i \in Changes' : i \in Nat /\ i + k \in Changes /\ toHost'[i] = toHost[i + k]
         /\ \A i \in Confirmations' :
               i \in Nat /\ i + k \in Confirmations /\ toHost'[i] = toHost[i + k]
  BY HostShift DEF InStep
<1>3. toMain' = toMain \/ toMain' = Append(toMain, will)
  OBVIOUS
<1> HIDE DEF will
<1>4. /\ Replies' = Replies
      /\ \A i \in Announcements' :
            \/ i \in Announcements /\ toMain'[i] = toMain[i]
            \/ i = Len(toMain) + 1 /\ toMain'[i] = will
  <2>1. CASE toMain' = toMain
    BY <2>1, Kept
  <2>2. CASE toMain' = Append(toMain, will)
    BY <1>1, <2>2, MainAppend DEF InStep
  <2> QED
    BY <1>3, <2>1, <2>2
<1>5. NoHost' /\ OneReply'
  BY <1>4 DEF InStep, NoHost, OneReply
<1>6. OneChange'
  <2>1. ASSUME NEW i \in Changes'
        PROVE  /\ handling' = "sent" /\ hostDelta' = Idle /\ Replies' = {}
               /\ toHost'[i].add \cup toHost'[i].remove # {}
               /\ registry' = (hostRegistry' \ toHost'[i].remove) \cup toHost'[i].add
               /\ \A j \in Changes' : j = i
    <3>1. i \in Nat /\ i + k \in Changes /\ toHost'[i] = toHost[i + k]
      BY <1>2
    <3>2. /\ handling = "sent" /\ hostDelta = Idle /\ Replies = {}
          /\ toHost[i + k].add \cup toHost[i + k].remove # {}
          /\ registry = (hostRegistry \ toHost[i + k].remove) \cup toHost[i + k].add
          /\ \A j \in Changes : j = i + k
      BY <3>1 DEF InStep, OneChange
    <3>3. ASSUME NEW j \in Changes' PROVE j = i
      <4>1. j \in Nat /\ j + k = i + k
        BY <1>2, <3>2
      <4> QED
        BY <3>1, <4>1
    <3> QED
      BY <1>4, <3>1, <3>2, <3>3
  <2>2. hostDelta # Idle => handling = "sent" /\ Changes' = {} /\ Replies' = {} /\ registry = Applied
    BY <1>2, <1>4 DEF InStep, OneChange
  <2>3. handling # "sent" \/ Replies # {} => hostRegistry = registry
    BY DEF InStep, OneChange
  <2> QED
    BY <1>4, <2>1, <2>2, <2>3 DEF OneChange, Idle, Applied
<1>7. OneAnnouncement'
  <2>1. ASSUME NEW i \in Announcements, NEW x \in toMain[i].add
        PROVE  /\ x \notin changed /\ op[x] = "announced"
               /\ \A j \in Announcements : x \in toMain[j].add => j = i
               /\ \A j \in Confirmations : x \notin toHost[j].add
    BY <2>1 DEF InStep, OneAnnouncement
  <2>2. ASSUME NEW i \in Confirmations, NEW x \in toHost[i].add
        PROVE  /\ x \notin changed /\ op[x] = "announced" /\ x \in started
               /\ \A j \in Confirmations : x \in toHost[j].add => j = i
    BY <2>2 DEF InStep, OneAnnouncement
  <2>3. /\ \A i \in Announcements : toMain[i].add \subseteq Ext
        /\ \A i \in Confirmations : toHost[i].add \subseteq Ext
    BY MessagesInExt DEF InStep
  <2>4. ASSUME NEW x \in announced PROVE x \in changed /\ op'[x] = "announced"
    OBVIOUS
  <2>5. ASSUME NEW i \in Announcements', NEW x \in toMain'[i].add
        PROVE  /\ op'[x] = "announced"
               /\ \A j \in Announcements' : x \in toMain'[j].add => j = i
               /\ \A j \in Confirmations' : x \notin toHost'[j].add
    <3>1. CASE i \in Announcements /\ toMain'[i] = toMain[i]
      <4>1. /\ x \in Ext /\ x \notin changed /\ op[x] = "announced"
            /\ \A j \in Announcements : x \in toMain[j].add => j = i
            /\ \A j \in Confirmations : x \notin toHost[j].add
        BY <2>1, <2>3, <2>5, <3>1
      <4>2. x \notin will.add /\ op'[x] = "announced"
        BY <1>1, <2>4, <4>1
      <4>3. \A j \in Announcements' : x \in toMain'[j].add => j = i
        BY <1>4, <4>1, <4>2
      <4> QED
        BY <1>2, <4>1, <4>2, <4>3
    <3>2. CASE i = Len(toMain) + 1 /\ toMain'[i] = will
      <4>1. x \in changed /\ op'[x] = "announced"
        BY <1>1, <2>4, <2>5, <3>2
      <4>2. \A j \in Announcements' : x \in toMain'[j].add => j = i
        BY <1>4, <2>1, <3>2, <4>1
      <4>3. \A j \in Confirmations' : x \notin toHost'[j].add
        BY <1>2, <2>2, <4>1
      <4> QED
        BY <4>1, <4>2, <4>3
    <3> QED
      BY <1>4, <3>1, <3>2
  <2>6. ASSUME NEW i \in Confirmations', NEW x \in toHost'[i].add
        PROVE  /\ op'[x] = "announced" /\ x \in started'
               /\ \A j \in Confirmations' : x \in toHost'[j].add => j = i
    <3>1. i \in Nat /\ i + k \in Confirmations /\ x \in toHost[i + k].add
      BY <1>2, <2>6
    <3>2. /\ x \notin changed /\ op[x] = "announced" /\ x \in started /\ x \in Ext
          /\ \A j \in Confirmations : x \in toHost[j].add => j = i + k
      BY <2>2, <2>3, <3>1
    <3>3. ASSUME NEW j \in Confirmations', x \in toHost'[j].add PROVE j = i
      <4>1. j \in Nat /\ j + k = i + k
        BY <1>2, <3>2, <3>3
      <4> QED
        BY <3>1, <4>1
    <3> QED
      BY <3>2, <3>3
  <2> QED
    BY <2>5, <2>6 DEF OneAnnouncement
<1>8. RunningIsStarted'
  BY DEF InStep, RunningIsStarted
<1>9. DependenciesFirst'
  <2> SUFFICES ASSUME NEW x \in Ext, op'[x] \in {"announced", "activating", "ok"}, NEW d \in DepsOf(x)
               PROVE  op'[d] = "ok"
    BY DEF DependenciesFirst, DepsOf
  <2>1. op[d] = "ok"
    BY DEF InStep, DependenciesFirst
  <2>2. d \in Ext \ changed
    BY <2>1, DepsInExt
  <2> QED
    BY <2>1, <2>2
<1> QED
  BY <1>5, <1>6, <1>7, <1>8, <1>9 DEF Agree

LEMMA RequestStep ==
    ASSUME InStep, manager = "running", toHost # <<>>, toHost' = Tail(toHost), NEW exts, Request(exts),
           UNCHANGED <<registry, started, handling, manager, restart, hostRegistry, hostDelta>>
    PROVE  Agree'
<1> DEFINE failing == FailAtOnce(Created(exts))
           announced == {x \in Created(exts) \ failing : Ready(x)}
<1>1. Created(exts) \in SUBSET Ext /\ \A x \in Created(exts) : op[x] = "none"
  BY CreatedNew
<1>2. \A x \in Ext : op'[x] = IF x \in failing THEN "failed"
                              ELSE IF x \in announced THEN "announced"
                              ELSE IF x \in Created(exts) THEN "waiting" ELSE op[x]
  BY DEF Request
<1>3. failing \subseteq Created(exts) /\ announced \subseteq Created(exts) \ failing
  BY DEF FailAtOnce
<1>5. \A x \in announced : \A d \in DepsOf(x) : op[d] = "ok"
  BY DEF Ready
<1>6. toMain' = IF announced = {} THEN toMain
                ELSE Append(toMain, [type |-> "will", add |-> announced, remove |-> {}])
  BY DEF Request
<1> HIDE DEF failing, announced
<1>4. announced = {x \in Created(exts) : op'[x] = "announced"}
  BY <1>1, <1>2, <1>3
<1>7. /\ \A x \in Created(exts) : op[x] \in {"none", "waiting"} /\ op'[x] \in {"failed", "waiting", "announced"}
      /\ \A x \in Ext \ Created(exts) : op'[x] = op[x]
  BY <1>1, <1>2, <1>3
<1> QED
  BY <1>1, <1>4, <1>5, <1>6, <1>7, AnnounceStep

LEMMA CheckStep ==
    ASSUME InStep, NEW x \in Ext, CheckDependencies(x)
    PROVE  Agree'
<1>1. /\ op[x] = "waiting" /\ toHost' = toHost /\ op \in [Ext -> Status]
      /\ UNCHANGED <<registry, started, handling, manager, restart, hostRegistry, hostDelta>>
  BY DEF CheckDependencies, windowVars, deltaVars, managerVars, InStep, TypeOK
<1>2. manager = "running"
  BY <1>1 DEF InStep, NoHost, NoOps
<1>3. CASE op' = [op EXCEPT ![x] = "failed"] /\ UNCHANGED toMain
  <2>1. {} = {y \in {x} : op'[y] = "announced"}
    BY <1>1, <1>3
  <2> QED
    BY <1>1, <1>2, <1>3, <2>1, AnnounceStep
<1>4. CASE /\ op' = [op EXCEPT ![x] = "announced"] /\ ~Doomed(x)
           /\ toMain' = Append(toMain, [type |-> "will", add |-> {x}, remove |-> {}])
  <2>1. {x} = {y \in {x} : op'[y] = "announced"}
    BY <1>1, <1>4
  <2>2. \A d \in DepsOf(x) : op[d] = "ok"
    BY <1>4 DEF CheckDependencies, Ready
  <2> QED
    BY <1>1, <1>2, <1>4, <2>1, <2>2, AnnounceStep
<1> QED
  BY <1>3, <1>4 DEF CheckDependencies

\* The window has confirmed an announcement: the extensions of it activate.
LEMMA ConfirmStep ==
    ASSUME InStep, manager = "running", toHost # <<>>, toHost' = Tail(toHost), Head(toHost).type = "reply",
           op' = [x \in Ext |-> IF x \in Head(toHost).add THEN "activating" ELSE op[x]],
           UNCHANGED <<registry, started, handling, manager, restart, hostRegistry, hostDelta, toMain>>
    PROVE  Agree'
<1> DEFINE exts == Head(toHost).add
<1>1. /\ 1 \in Confirmations /\ exts = toHost[1].add /\ 1 \notin Changes
      /\ \A i \in Changes' : i \in Nat \ {0} /\ i + 1 \in Changes /\ toHost'[i] = toHost[i + 1]
      /\ \A i \in Confirmations' :
            i \in Nat \ {0} /\ i + 1 \in Confirmations /\ toHost'[i] = toHost[i + 1]
  BY HostTail DEF InStep
<1>2. \A x \in Ext : op'[x] = IF x \in exts THEN "activating" ELSE op[x]
  OBVIOUS
<1> HIDE DEF exts
<1>3. \A x \in exts : op[x] = "announced" /\ x \in started /\ \A j \in Confirmations : x \in toHost[j].add => j = 1
  BY <1>1 DEF InStep, OneAnnouncement
<1>4. Replies' = Replies /\ Announcements' = Announcements
  BY Kept
<1>5. NoHost' /\ OneReply'
  BY <1>4 DEF InStep, NoHost, OneReply
<1>6. OneChange'
  <2>1. ASSUME NEW i \in Changes'
        PROVE  /\ handling' = "sent" /\ hostDelta' = Idle /\ Replies' = {}
               /\ toHost'[i].add \cup toHost'[i].remove # {}
               /\ registry' = (hostRegistry' \ toHost'[i].remove) \cup toHost'[i].add
               /\ \A j \in Changes' : j = i
    <3>1. i \in Nat /\ i + 1 \in Changes /\ toHost'[i] = toHost[i + 1]
      BY <1>1
    <3>2. /\ handling = "sent" /\ hostDelta = Idle /\ Replies = {}
          /\ toHost[i + 1].add \cup toHost[i + 1].remove # {}
          /\ registry = (hostRegistry \ toHost[i + 1].remove) \cup toHost[i + 1].add
          /\ \A j \in Changes : j = i + 1
      BY <3>1 DEF InStep, OneChange
    <3>3. ASSUME NEW j \in Changes' PROVE j = i
      <4>1. j \in Nat /\ j + 1 = i + 1
        BY <1>1, <3>2
      <4> QED
        BY <3>1, <4>1
    <3> QED
      BY <1>4, <3>1, <3>2, <3>3
  <2>2. hostDelta # Idle => handling = "sent" /\ Changes' = {} /\ Replies' = {} /\ registry = Applied
    BY <1>1, <1>4 DEF InStep, OneChange
  <2>3. handling # "sent" \/ Replies # {} => hostRegistry = registry
    BY DEF InStep, OneChange
  <2> QED
    BY <1>4, <2>1, <2>2, <2>3 DEF OneChange, Idle, Applied
<1>7. OneAnnouncement'
  <2>1. /\ \A i \in Announcements : toMain[i].add \subseteq Ext
        /\ \A i \in Confirmations : toHost[i].add \subseteq Ext
    BY MessagesInExt DEF InStep
  <2>2. ASSUME NEW i \in Announcements', NEW x \in toMain'[i].add
        PROVE  /\ op'[x] = "announced"
               /\ \A j \in Announcements' : x \in toMain'[j].add => j = i
               /\ \A j \in Confirmations' : x \notin toHost'[j].add
    <3>1. /\ op[x] = "announced" /\ x \in Ext
          /\ \A j \in Announcements : x \in toMain[j].add => j = i
          /\ \A j \in Confirmations : x \notin toHost[j].add
      BY <1>4, <2>1, <2>2 DEF InStep, OneAnnouncement
    <3> QED
      BY <1>1, <1>2, <1>4, <3>1
  <2>3. ASSUME NEW i \in Confirmations', NEW x \in toHost'[i].add
        PROVE  /\ op'[x] = "announced" /\ x \in started'
               /\ \A j \in Confirmations' : x \in toHost'[j].add => j = i
    <3>1. i \in Nat \ {0} /\ i + 1 \in Confirmations /\ x \in toHost[i + 1].add
      BY <1>1, <2>3
    <3>2. /\ op[x] = "announced" /\ x \in started /\ x \in Ext
          /\ \A j \in Confirmations : x \in toHost[j].add => j = i + 1
      BY <2>1, <3>1 DEF InStep, OneAnnouncement
    <3>3. x \notin exts
      BY <1>1, <3>1, <3>2
    <3>4. ASSUME NEW j \in Confirmations', x \in toHost'[j].add PROVE j = i
      <4>1. j \in Nat /\ j + 1 = i + 1
        BY <1>1, <3>2, <3>4
      <4> QED
        BY <3>1, <4>1
    <3> QED
      BY <1>2, <3>2, <3>3, <3>4
  <2> QED
    BY <2>2, <2>3 DEF OneAnnouncement
<1>8. RunningIsStarted'
  BY <1>2, <1>3 DEF InStep, RunningIsStarted
<1>9. DependenciesFirst'
  <2> SUFFICES ASSUME NEW x \in Ext, op'[x] \in {"announced", "activating", "ok"}, NEW d \in DepsOf(x)
               PROVE  op'[d] = "ok"
    BY DEF DependenciesFirst, DepsOf
  <2>1. op[x] \in {"announced", "activating", "ok"}
    BY <1>2, <1>3
  <2>2. d \in Ext /\ op[d] = "ok"
    BY <2>1, DepsInExt DEF InStep, DependenciesFirst
  <2> QED
    BY <1>2, <1>3, <2>2
<1> QED
  BY <1>5, <1>6, <1>7, <1>8, <1>9 DEF Agree

\* The change arrives: it is no longer on its way but being applied.
LEMMA DeltaStep ==
    ASSUME InStep, manager = "running", toHost # <<>>, toHost' = Tail(toHost), Head(toHost).type = "delta",
           hostDelta' = [add |-> Head(toHost).add, remove |-> Head(toHost).remove],
           UNCHANGED <<registry, started, handling, manager, restart, hostRegistry, op, toMain>>
    PROVE  Agree'
<1>1. /\ 1 \in Changes /\ Head(toHost) = toHost[1]
      /\ \A i \in Changes' : i \in Nat \ {0} /\ i + 1 \in Changes
      /\ \A i \in Confirmations' :
            i \in Nat \ {0} /\ i + 1 \in Confirmations /\ toHost'[i] = toHost[i + 1]
  BY HostTail DEF InStep
<1>2. /\ handling = "sent" /\ Replies = {} /\ toHost[1].add \cup toHost[1].remove # {}
      /\ registry = (hostRegistry \ toHost[1].remove) \cup toHost[1].add
      /\ \A j \in Changes : j = 1
  BY <1>1 DEF InStep, OneChange
<1>3. Replies' = Replies /\ Announcements' = Announcements
  BY Kept
<1>4. Changes' = {}
  BY <1>1, <1>2
<1>5. NoHost' /\ OneReply'
  BY <1>3 DEF InStep, NoHost, OneReply
<1>6. OneChange'
  <2>1. registry = Applied'
    BY <1>1, <1>2 DEF Applied
  <2> QED
    BY <1>2, <1>3, <1>4, <2>1 DEF OneChange
<1>7. OneAnnouncement'
  <2>1. ASSUME NEW i \in Announcements', NEW x \in toMain'[i].add
        PROVE  /\ op'[x] = "announced"
               /\ \A j \in Announcements' : x \in toMain'[j].add => j = i
               /\ \A j \in Confirmations' : x \notin toHost'[j].add
    <3>1. /\ op[x] = "announced"
          /\ \A j \in Announcements : x \in toMain[j].add => j = i
          /\ \A j \in Confirmations : x \notin toHost[j].add
      BY <1>3, <2>1 DEF InStep, OneAnnouncement
    <3> QED
      BY <1>1, <1>3, <3>1
  <2>2. ASSUME NEW i \in Confirmations', NEW x \in toHost'[i].add
        PROVE  /\ op'[x] = "announced" /\ x \in started'
               /\ \A j \in Confirmations' : x \in toHost'[j].add => j = i
    <3>1. i \in Nat \ {0} /\ i + 1 \in Confirmations /\ x \in toHost[i + 1].add
      BY <1>1, <2>2
    <3>2. /\ op[x] = "announced" /\ x \in started
          /\ \A j \in Confirmations : x \in toHost[j].add => j = i + 1
      BY <3>1 DEF InStep, OneAnnouncement
    <3>3. ASSUME NEW j \in Confirmations', x \in toHost'[j].add PROVE j = i
      <4>1. j \in Nat /\ j + 1 = i + 1
        BY <1>1, <3>2, <3>3
      <4> QED
        BY <3>1, <4>1
    <3> QED
      BY <3>2, <3>3
  <2> QED
    BY <2>1, <2>2 DEF OneAnnouncement
<1>8. RunningIsStarted' /\ DependenciesFirst'
  BY DEF InStep, RunningIsStarted, DependenciesFirst, DepsOf
<1> QED
  BY <1>5, <1>6, <1>7, <1>8 DEF Agree

LEMMA HostReceivesStep ==
    ASSUME InStep, HostReceives
    PROVE  Agree'
<1>1. /\ manager = "running" /\ toHost # <<>> /\ toHost' = Tail(toHost)
      /\ UNCHANGED <<registry, started, handling, manager, restart, hostRegistry>>
  BY DEF HostReceives, windowVars, deltaVars, managerVars
<1>2. CASE \E exts : Request(exts) /\ UNCHANGED hostDelta
  BY <1>1, <1>2, RequestStep
<1>3. CASE /\ Head(toHost).type = "delta"
           /\ hostDelta' = [add |-> Head(toHost).add, remove |-> Head(toHost).remove]
           /\ UNCHANGED <<op, toMain>>
  BY <1>1, <1>3, DeltaStep
<1>4. CASE /\ Head(toHost).type = "reply"
           /\ op' = [x \in Ext |-> IF x \in Head(toHost).add THEN "activating" ELSE op[x]]
           /\ UNCHANGED <<hostDelta, toMain>>
  BY <1>1, <1>4, ConfirmStep
<1> QED
  BY <1>2, <1>3, <1>4 DEF HostReceives

\* The change is applied and answered: the registries agree.
LEMMA ApplyStep ==
    ASSUME InStep, ApplyDelta
    PROVE  Agree'
<1> DEFINE m == [type |-> "reply", add |-> {}, remove |-> {}]
<1>1. /\ manager = "running" /\ hostDelta # Idle /\ hostRegistry' = Applied /\ hostDelta' = Idle
      /\ toMain' = Append(toMain, m)
      /\ UNCHANGED <<registry, started, handling, manager, restart, op, toHost>>
  BY DEF ApplyDelta, windowVars, deltaVars, managerVars
<1>2. m \in Message /\ m.type = "reply"
  BY DEF Message
<1> HIDE DEF m
<1>3. handling = "sent" /\ Changes = {} /\ Replies = {} /\ registry = Applied
  BY <1>1 DEF InStep, OneChange
<1>4. /\ Replies' = {Len(toMain) + 1} /\ Announcements' = Announcements
      /\ \A i \in Announcements : toMain'[i] = toMain[i]
  BY <1>1, <1>2, <1>3, MainAppend DEF InStep
<1>5. Changes' = {} /\ Confirmations' = Confirmations
  BY <1>1, <1>3, Kept
<1>6. NoHost' /\ OneReply'
  BY <1>1, <1>3, <1>4 DEF InStep, NoHost, OneReply
<1>7. OneChange'
  BY <1>1, <1>3, <1>4, <1>5 DEF OneChange, Idle
<1>8. OneAnnouncement'
  <2>1. ASSUME NEW i \in Announcements', NEW x \in toMain'[i].add
        PROVE  /\ op'[x] = "announced"
               /\ \A j \in Announcements' : x \in toMain'[j].add => j = i
               /\ \A j \in Confirmations' : x \notin toHost'[j].add
    <3>1. /\ op[x] = "announced"
          /\ \A j \in Announcements : x \in toMain[j].add => j = i
          /\ \A j \in Confirmations : x \notin toHost[j].add
      BY <1>1, <1>4, <2>1 DEF InStep, OneAnnouncement
    <3> QED
      BY <1>1, <1>4, <1>5, <3>1
  <2>2. ASSUME NEW i \in Confirmations', NEW x \in toHost'[i].add
        PROVE  /\ op'[x] = "announced" /\ x \in started'
               /\ \A j \in Confirmations' : x \in toHost'[j].add => j = i
    BY <1>1, <1>5, <2>2 DEF InStep, OneAnnouncement
  <2> QED
    BY <2>1, <2>2 DEF OneAnnouncement
<1>9. RunningIsStarted' /\ DependenciesFirst'
  BY <1>1 DEF InStep, RunningIsStarted, DependenciesFirst, DepsOf
<1> QED
  BY <1>6, <1>7, <1>8, <1>9 DEF Agree

\* An activation that ends was neither announced nor over.
LEMMA EndStep ==
    ASSUME InStep, NEW x \in Ext, ActivateEnds(x)
    PROVE  Agree'
<1>1. /\ op[x] = "activating" /\ op \in [Ext -> Status]
      /\ op' = [op EXCEPT ![x] = "ok"] \/ op' = [op EXCEPT ![x] = "failed"]
      /\ UNCHANGED <<registry, started, handling, manager, restart, hostRegistry, hostDelta, toHost, toMain>>
  BY DEF ActivateEnds, windowVars, deltaVars, managerVars, channelVars, InStep, TypeOK
<1>2. /\ op'[x] \in {"ok", "failed"}
      /\ \A y \in Ext : y # x => op'[y] = op[y]
  BY <1>1
<1>3. manager = "running"
  BY <1>1 DEF InStep, NoHost, NoOps
<1>4. NoHost' /\ OneReply' /\ OneChange'
  BY <1>1, <1>3, Kept DEF InStep, NoHost, OneReply, OneChange, Applied, Idle
<1>5. OneAnnouncement'
  <2>1. \A y \in Ext : op[y] = "announced" => op'[y] = "announced"
    BY <1>1, <1>2
  <2> QED
    BY <1>1, <2>1, Kept, MessagesInExt DEF InStep, OneAnnouncement
<1>6. RunningIsStarted'
  BY <1>1, <1>2 DEF InStep, RunningIsStarted
<1>7. DependenciesFirst'
  <2> SUFFICES ASSUME NEW y \in Ext, op'[y] \in {"announced", "activating", "ok"}, NEW d \in DepsOf(y)
               PROVE  op'[d] = "ok"
    BY DEF DependenciesFirst, DepsOf
  <2>1. op[y] \in {"announced", "activating", "ok"}
    BY <1>1, <1>2
  <2>2. d \in Ext /\ op[d] = "ok"
    BY <2>1, DepsInExt DEF InStep, DependenciesFirst
  <2> QED
    BY <1>1, <1>2, <2>2
<1> QED
  BY <1>4, <1>5, <1>6, <1>7 DEF Agree

-----------------------------------------------------------------------------
(* The invariant *)

LEMMA MainReceivesStep ==
    ASSUME InStep, MainReceives
    PROVE  Agree'
<1>1. /\ toMain # <<>> /\ toMain' = Tail(toMain)
      /\ UNCHANGED <<registry, managerVars, hostVars>>
      /\ \/ /\ Head(toMain).type = "will"
            /\ started' = started \cup Head(toMain).add
            /\ Send("reply", Head(toMain).add, {})
            /\ UNCHANGED <<handling, adding>>
         \/ /\ Head(toMain).type = "reply"
            /\ handling' = "yes" /\ adding' = {}
            /\ ActivateAdded
            /\ UNCHANGED started
  BY DEF MainReceives
<1> QED
  BY <1>1, WillStep, ReplyStep

LEMMA InitInStep == Init => InStep
<1> SUFFICES ASSUME Init PROVE InStep
  OBVIOUS
<1>1. TypeOK
  BY InitTypes
<1>2. Replies = {} /\ Announcements = {} /\ Changes = {} /\ Confirmations = {}
  BY DEF Init, Replies, Announcements, Changes, Confirmations
<1>3. NoHost /\ OneReply /\ OneChange /\ OneAnnouncement
  BY <1>2 DEF Init, NoHost, OneReply, OneChange, OneAnnouncement
<1>4. RunningIsStarted /\ DependenciesFirst
  BY DEF Init, NoOps, RunningIsStarted, DependenciesFirst
<1> QED
  BY <1>1, <1>3, <1>4 DEF InStep

LEMMA NextInStep == InStep /\ [Next]_vars => InStep'
<1> SUFFICES ASSUME InStep, [Next]_vars PROVE InStep'
  OBVIOUS
<1>1. TypeOK /\ OneReply
  BY DEF InStep
<1>2. CASE LockForDelta \/ DeltasDone \/ StartExtensionHosts \/ AnswerPrompt \/ StartFails \/ StartTimesOut
  BY <1>1, <1>2, WindowTypes, ManagerTypes, QuietSteps DEF InStep, Agree
<1>3. CASE HandleDelta
  BY <1>1, <1>3, WindowTypes, HandleDeltaStep DEF InStep, Agree
<1>4. CASE MainReceives
  BY <1>1, <1>4, WindowTypes, MainReceivesStep DEF InStep, Agree
<1>5. CASE ActivateByEvent
  BY <1>1, <1>5, WindowTypes, EventStep DEF InStep, Agree
<1>6. CASE NoticeCrash
  BY <1>1, <1>6, ManagerTypes, StopStep DEF InStep, Agree
<1>7. CASE Crash
  BY <1>1, <1>7, ManagerTypes, CrashStep DEF InStep, Agree
<1>8. CASE HostReady
  BY <1>1, <1>8, ManagerTypes, HostReadyStep DEF InStep, Agree
<1>9. CASE HostReceives
  BY <1>1, <1>9, HostTypes, HostReceivesStep DEF InStep, Agree
<1>10. CASE ApplyDelta
  BY <1>1, <1>10, HostTypes, ApplyStep DEF InStep, Agree
<1>11. ASSUME NEW x \in Ext, CheckDependencies(x) \/ ActivateEnds(x) PROVE InStep'
  BY <1>1, <1>11, HostTypes, CheckStep, EndStep DEF InStep, Agree
<1>12. ASSUME NEW add \in AtMostOne, NEW remove \in AtMostOne, ChangeExtensions(add, remove) PROVE InStep'
  <2>1. add \in SUBSET Ext /\ remove \in SUBSET Ext
    BY DEF AtMostOne
  <2> QED
    BY <1>1, <1>12, <2>1, WindowTypes, QuietSteps DEF InStep, Agree
<1>13. ASSUME NEW add \in AtMostOne, NEW remove \in AtMostOne, Restart([add |-> add, remove |-> remove])
       PROVE  InStep'
  <2>1. [add |-> add, remove |-> remove] \in Delta
    BY DEF AtMostOne, Delta
  <2> QED
    BY <1>1, <1>13, <2>1, ManagerTypes, StopStep DEF InStep, Agree
<1>14. CASE UNCHANGED vars
  <2>1. TypeOK'
    BY <1>1, <1>14 DEF TypeOK, vars, windowVars, deltaVars, managerVars, hostVars, channelVars
  <2> QED
    BY <1>14, <2>1, QuietSteps DEF InStep, Agree
<1> QED
  BY <1>2, <1>3, <1>4, <1>5, <1>6, <1>7, <1>8, <1>9, <1>10, <1>11, <1>12, <1>13, <1>14 DEF Next, Progress

LEMMA AlwaysInStep == Spec => []InStep
  BY InitInStep, NextInStep, PTL DEF Spec

\* The window's and the host's state are well typed at any moment: a change is under way
\* for a manager (_handleDeltaExtensions) only while the registry is locked for it, and
\* a host starts (startExtensionHosts) only while it is locked for that.
THEOREM TypesHold == Spec => []TypeOK
<1>1. InStep => TypeOK
  BY DEF InStep
<1> QED
  BY <1>1, AlwaysInStep, PTL

\* The picture that the window has of its extension host (the registry that
\* $deltaExtensions updates, the status that $onWillActivateExtension sets) is true
\* whenever no change is on its way, through crashes, restarts and the interleaving of
\* changes with activations.
THEOREM WindowAgrees == Spec => []WindowKnowsHost
<1>1. InStep => WindowKnowsHost
  BY DEF InStep, OneChange, RunningIsStarted, WindowKnowsHost
<1> QED
  BY <1>1, AlwaysInStep, PTL

\* ExtensionsActivator never starts an extension before all its dependencies did
\* without an error, for every set of extensions and every graph of dependencies without
\* loops.
THEOREM DependenciesComeFirst == Spec => []DependenciesFirst
<1>1. InStep => DependenciesFirst
  BY DEF InStep
<1> QED
  BY <1>1, AlwaysInStep, PTL
=============================================================================
