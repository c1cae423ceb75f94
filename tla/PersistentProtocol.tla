------------------------- MODULE PersistentProtocol -------------------------
(***************************************************************************)
(* The two ends of a PersistentProtocol (base/parts/ipc/common/ipc.net.ts):*)
(* sequence numbers, acknowledgements, the queue of unacknowledged         *)
(* messages, the writer buffer with its pause flag, the two ack timers and *)
(* the replacement of a socket by beginAcceptReconnection and              *)
(* endAcceptReconnection.                                                  *)
(*                                                                         *)
(* The environment is the most permissive one: either end may be given a   *)
(* new socket, paused or disposed at any time, and any message in flight   *)
(* may be lost.  Time is abstracted: a timer that is armed may fire at any *)
(* later moment, and a comparison with the clock may go either way.        *)
(***************************************************************************)
EXTENDS Naturals, Sequences, FiniteSets

CONSTANTS
    Socket,         \* the sockets an endpoint can be given
    FirstSocket,    \* the socket both ends are constructed with
    ControlData,    \* payloads of control messages
    NoData,         \* getEmptyBuffer(), and the payload of every other message
    MaxMsg,         \* bound: regular messages each endpoint sends
    MaxInFlight     \* bound: messages an endpoint has written and the other
                    \* has not read, when it writes one of its own accord

ASSUME SocketAssumption == FirstSocket \in Socket
ASSUME BoundAssumption == MaxMsg \in Nat /\ MaxInFlight \in Nat
\* Ids travel in 32 bits (writeUInt32BE), so a longer run would wrap around;
\* half of that range is as far as TLC counts.
ASSUME WidthAssumption == MaxMsg <= 2147483647
ASSUME DataAssumption == NoData \notin ControlData

Side == {"client", "server"}
Peer(e) == IF e = "client" THEN "server" ELSE "client"

VARIABLES
    outgoingUnackMsg, outgoingMsgId, outgoingAckId, outgoingAckTimeout,
    incomingMsgId, incomingAckId, incomingAckTimeout,
    isReconnecting, didSendDisconnect, keepAliveInterval,
    lastReplayRequest,  \* a replay request was written in the last 10 seconds
    socket,             \* _socket
    opened,             \* the sockets this endpoint has been given
    data,               \* ProtocolWriter._data of the current writer
    isPaused,           \* ProtocolWriter._isPaused
    writeNowTimeout,    \* ProtocolWriter._writeNowTimeout is armed
    isDisposed,         \* the current reader and writer are disposed
    controlMessage,     \* _onControlMessage: fired, not yet read
    socketTimeout,      \* _onSocketTimeout has fired for this socket
    didDispose,         \* _onDidDispose has fired
    delivered,          \* the message ids _onMessage has fired, in order
    wire                \* wire[s][e]: written by e to socket s, not yet read

sendVars == <<outgoingUnackMsg, outgoingMsgId, outgoingAckId>>
receiveVars == <<incomingMsgId, incomingAckId, incomingAckTimeout, delivered>>
watchdogVars == <<outgoingAckTimeout, socketTimeout>>
writerVars == <<data, isPaused, writeNowTimeout>>
socketVars == <<socket, opened, isDisposed, isReconnecting, lastReplayRequest>>
eventVars == <<controlMessage, didDispose, didSendDisconnect, keepAliveInterval>>
vars == <<sendVars, receiveVars, watchdogVars, writerVars, socketVars,
          eventVars, wire>>

-----------------------------------------------------------------------------
(* Messages: new ProtocolMessage(type, id, ack, data). *)

Message == [type : {"Regular"}, id : 1..MaxMsg, ack : 0..MaxMsg, data : {NoData}]
           \cup [type : {"Ack", "KeepAlive"}, id : {0}, ack : 0..MaxMsg, data : {NoData}]
           \cup [type : {"Disconnect", "ReplayRequest", "Pause", "Resume"},
                 id : {0}, ack : {0}, data : {NoData}]
           \cup [type : {"Control"}, id : {0}, ack : {0}, data : ControlData]

Regular(i, a) == [type |-> "Regular", id |-> i, ack |-> a, data |-> NoData]
\* Faulty variant of AckOf: the next expected message is acknowledged.
AckOfNext(t, a) == [type |-> t, id |-> 0, ack |-> a + 1, data |-> NoData]
AckOf(t, a) == [type |-> t, id |-> 0, ack |-> a, data |-> NoData]
Plain(t) == [type |-> t, id |-> 0, ack |-> 0, data |-> NoData]
Control(d) == [type |-> "Control", id |-> 0, ack |-> 0, data |-> d]

-----------------------------------------------------------------------------
(* ProtocolWriter *)

\* write: a disposed writer ignores the messages; otherwise they are buffered,
\* and _scheduleWriting is called when the buffer was empty.
Write(e, msgs) ==
    IF isDisposed[e] \/ msgs = <<>>
    THEN UNCHANGED <<data, writeNowTimeout>>
    ELSE /\ data' = [data EXCEPT ![e] = @ \o msgs]
         /\ writeNowTimeout' = [writeNowTimeout EXCEPT ![e] = @ \/ data[e] = <<>>]

\* Faulty variant of Resume: only the flag is reset.
Unpause(e) == isPaused' = [isPaused EXCEPT ![e] = FALSE] /\ UNCHANGED writeNowTimeout

\* resume: a write is scheduled, whatever is buffered.
Resume(e) ==
    /\ isPaused' = [isPaused EXCEPT ![e] = FALSE]
    /\ writeNowTimeout' = [writeNowTimeout EXCEPT ![e] = TRUE]

\* _writeNow: the buffer goes to the socket as a whole, unless paused.
Flushed(e, buffer) == IF isPaused[e] THEN <<>> ELSE buffer
Kept(e, buffer) == IF isPaused[e] THEN buffer ELSE <<>>

\* Nobody reads socket s at e any more: e was given another one, or is disposed.
Unread(e, s) == s \in opened[e] /\ (s # socket[e] \/ isDisposed[e])

\* socket.write
Put(e, msgs) ==
    wire' = IF Unread(Peer(e), socket[e]) THEN wire
            ELSE [wire EXCEPT ![socket[e]][e] = @ \o msgs]

\* Disposing the reader and the writer of the current socket: what is buffered
\* is flushed (the first time), and what is in flight to e will not be read.
Leave(e) ==
    LET old == socket[e]
        last == IF isDisposed[e] \/ Unread(Peer(e), old) THEN <<>> ELSE Flushed(e, data[e])
    IN  wire' = [wire EXCEPT ![old] = [d \in Side |-> IF d = e THEN @[e] \o last ELSE <<>>]]

HasRoom(e) == Len(data[e]) + Len(wire[socket[e]][e]) + Len(controlMessage[Peer(e)])
              < MaxInFlight

-----------------------------------------------------------------------------
(* The acknowledgement checks *)

\* Faulty variant of SendAckCheck: the check is left to the next reconnection.
NoSendAckCheck(e) == UNCHANGED incomingAckTimeout

\* _sendAckCheck after a message came in: arm the timer if something is owed
\* and no check is planned.
SendAckCheck(e) ==
    incomingAckTimeout' = [incomingAckTimeout EXCEPT
                             ![e] = @ \/ incomingMsgId'[e] > incomingAckId'[e]]

\* Faulty variant of RecvAckCheck: the timer is not armed again when it fires.
RecvAckCheckOnce(e, armed) ==
    /\ UNCHANGED socketTimeout
    /\ outgoingAckTimeout' = [outgoingAckTimeout EXCEPT
          ![e] = armed \/ (outgoingMsgId'[e] > outgoingAckId'[e]
                           /\ ~@ /\ ~isReconnecting'[e])]

\* _recvAckCheck, when the timer's state is "armed": nothing to do, or the
\* timer is armed, or (old messages, nothing read for 20 seconds, low load)
\* the socket timeout event fires.
RecvAckCheck(e, armed) ==
    LET due == outgoingMsgId'[e] > outgoingAckId'[e] /\ ~armed /\ ~isReconnecting'[e]
    IN  \/ /\ outgoingAckTimeout' = [outgoingAckTimeout EXCEPT ![e] = armed \/ due]
           /\ UNCHANGED socketTimeout
        \/ /\ due
           /\ outgoingAckTimeout' = [outgoingAckTimeout EXCEPT ![e] = FALSE]
           /\ socketTimeout' = [socketTimeout EXCEPT ![e] = TRUE]

\* Faulty variants of DropAcked: one message is popped per ack; all of them are.
DropOne(queue, ack) == Tail(queue)
DropAll(queue, ack) == <<>>

\* The loop of _receiveMessage that pops the leading messages confirmed by ack.
DropAcked(queue, ack) ==
    LET n == CHOOSE k \in 0..Len(queue) :
                /\ \A i \in 1..k : queue[i].id <= ack
                /\ k < Len(queue) => queue[k+1].id > ack
    IN  SubSeq(queue, n + 1, Len(queue))

AcceptAck(e, ack) ==
    IF ack > outgoingAckId[e]
    THEN /\ outgoingAckId' = [outgoingAckId EXCEPT ![e] = ack]
         /\ outgoingUnackMsg' = [outgoingUnackMsg EXCEPT ![e] = DropAcked(@, ack)]
    ELSE UNCHANGED <<outgoingAckId, outgoingUnackMsg>>

-----------------------------------------------------------------------------
Init ==
    /\ outgoingUnackMsg = [e \in Side |-> <<>>]
    /\ outgoingMsgId = [e \in Side |-> 0]
    /\ outgoingAckId = [e \in Side |-> 0]
    /\ outgoingAckTimeout = [e \in Side |-> FALSE]
    /\ incomingMsgId = [e \in Side |-> 0]
    /\ incomingAckId = [e \in Side |-> 0]
    /\ incomingAckTimeout = [e \in Side |-> FALSE]
    /\ isReconnecting = [e \in Side |-> FALSE]
    /\ didSendDisconnect = [e \in Side |-> FALSE]
    /\ keepAliveInterval = [e \in Side |-> TRUE]
    /\ lastReplayRequest = [e \in Side |-> FALSE]
    /\ socket = [e \in Side |-> FirstSocket]
    /\ opened = [e \in Side |-> {FirstSocket}]
    /\ data = [e \in Side |-> <<>>]
    /\ isPaused = [e \in Side |-> FALSE]
    /\ writeNowTimeout = [e \in Side |-> FALSE]
    /\ isDisposed = [e \in Side |-> FALSE]
    /\ controlMessage = [e \in Side |-> <<>>]
    /\ socketTimeout = [e \in Side |-> FALSE]
    /\ didDispose = [e \in Side |-> FALSE]
    /\ delivered = [e \in Side |-> <<>>]
    /\ wire = [s \in Socket |-> [e \in Side |-> <<>>]]

-----------------------------------------------------------------------------
(* The calls an owner makes *)

Send(e) ==
    LET msg == Regular(outgoingMsgId[e] + 1, incomingMsgId[e])
    IN  /\ outgoingMsgId[e] < MaxMsg
        /\ outgoingMsgId' = [outgoingMsgId EXCEPT ![e] = @ + 1]
        /\ incomingAckId' = [incomingAckId EXCEPT ![e] = incomingMsgId[e]]
        /\ outgoingUnackMsg' = [outgoingUnackMsg EXCEPT ![e] = Append(@, msg)]
        /\ UNCHANGED <<outgoingAckId, incomingMsgId, incomingAckTimeout, delivered,
                       isPaused, socketVars, eventVars, wire>>
        /\ IF isReconnecting[e]
           THEN UNCHANGED <<data, writeNowTimeout, watchdogVars>>
           ELSE Write(e, <<msg>>) /\ RecvAckCheck(e, outgoingAckTimeout[e])

SendControl(e, d) ==
    /\ HasRoom(e)
    /\ Write(e, <<Control(d)>>)
    /\ UNCHANGED <<sendVars, receiveVars, watchdogVars, isPaused, socketVars,
                   eventVars, wire>>

\* sendPause and sendResume
SendPauseOrResume(e, t) ==
    /\ HasRoom(e)
    /\ Write(e, <<Plain(t)>>)
    /\ UNCHANGED <<sendVars, receiveVars, watchdogVars, isPaused, socketVars,
                   eventVars, wire>>

PauseSocketWriting(e) ==
    /\ isPaused' = [isPaused EXCEPT ![e] = TRUE]
    /\ UNCHANGED <<sendVars, receiveVars, watchdogVars, data, writeNowTimeout,
                   socketVars, eventVars, wire>>

\* flush and drain
Flush(e) ==
    /\ Put(e, Flushed(e, data[e]))
    /\ data' = [data EXCEPT ![e] = Kept(e, @)]
    /\ UNCHANGED <<sendVars, receiveVars, watchdogVars, isPaused, writeNowTimeout,
                   socketVars, eventVars>>

\* Write the Disconnect message, once, and flush.
SendDisconnect(e) ==
    LET buffer == IF isDisposed[e] THEN data[e]
                  ELSE Append(data[e], Plain("Disconnect"))
    IN  /\ ~didSendDisconnect[e]
        /\ didSendDisconnect' = [didSendDisconnect EXCEPT ![e] = TRUE]
        /\ Put(e, Flushed(e, buffer))
        /\ data' = [data EXCEPT ![e] = Kept(e, buffer)]
        /\ writeNowTimeout' = [writeNowTimeout EXCEPT
                                 ![e] = @ \/ (~isDisposed[e] /\ data[e] = <<>>)]
        /\ UNCHANGED <<sendVars, receiveVars, watchdogVars, isPaused, socketVars,
                       controlMessage, didDispose, keepAliveInterval>>

AcceptDisconnect(e) ==
    /\ didDispose' = [didDispose EXCEPT ![e] = TRUE]
    /\ UNCHANGED <<sendVars, receiveVars, watchdogVars, writerVars, socketVars,
                   controlMessage, didSendDisconnect, keepAliveInterval, wire>>

\* The timers are cleared; disposing the writer flushes it once more.
Dispose(e) ==
    /\ outgoingAckTimeout' = [outgoingAckTimeout EXCEPT ![e] = FALSE]
    /\ incomingAckTimeout' = [incomingAckTimeout EXCEPT ![e] = FALSE]
    /\ keepAliveInterval' = [keepAliveInterval EXCEPT ![e] = FALSE]
    /\ isDisposed' = [isDisposed EXCEPT ![e] = TRUE]
    /\ Leave(e)
    /\ data' = [data EXCEPT ![e] = IF isDisposed[e] THEN @ ELSE Kept(e, @)]
    /\ UNCHANGED <<sendVars, incomingMsgId, incomingAckId, delivered, socketTimeout,
                   isPaused, writeNowTimeout, socket, opened, isReconnecting,
                   lastReplayRequest, controlMessage, didDispose, didSendDisconnect>>

\* The old writer and reader are disposed, the buffered events are dropped, and
\* a new writer and reader are made.  The ack timers keep running.
BeginAcceptReconnection(e, s) ==
    /\ s \notin opened[e]
    /\ isReconnecting' = [isReconnecting EXCEPT ![e] = TRUE]
    /\ Leave(e)
    /\ controlMessage' = [controlMessage EXCEPT ![e] = <<>>]
    /\ socketTimeout' = [socketTimeout EXCEPT ![e] = FALSE]
    /\ lastReplayRequest' = [lastReplayRequest EXCEPT ![e] = FALSE]
    /\ socket' = [socket EXCEPT ![e] = s]
    /\ opened' = [opened EXCEPT ![e] = @ \cup {s}]
    /\ isDisposed' = [isDisposed EXCEPT ![e] = FALSE]
    /\ data' = [data EXCEPT ![e] = <<>>]
    /\ isPaused' = [isPaused EXCEPT ![e] = FALSE]
    /\ writeNowTimeout' = [writeNowTimeout EXCEPT ![e] = FALSE]
    /\ UNCHANGED <<sendVars, receiveVars, outgoingAckTimeout, didDispose,
                   didSendDisconnect, keepAliveInterval>>

\* Acknowledge again what was received and write again what is unacknowledged.
EndAcceptReconnection(e) ==
    /\ isReconnecting[e]
    /\ isReconnecting' = [isReconnecting EXCEPT ![e] = FALSE]
    /\ incomingAckId' = [incomingAckId EXCEPT ![e] = incomingMsgId[e]]
    /\ Write(e, <<AckOf("Ack", incomingMsgId[e])>> \o outgoingUnackMsg[e])
    /\ UNCHANGED sendVars
    /\ RecvAckCheck(e, outgoingAckTimeout[e])
    /\ UNCHANGED <<incomingMsgId, incomingAckTimeout, delivered, isPaused, socket,
                   opened, isDisposed, lastReplayRequest, eventVars, wire>>

-----------------------------------------------------------------------------
(* Timers *)

\* The writer's timer: _writeNow.
WriteNow(e) ==
    /\ writeNowTimeout[e]
    /\ writeNowTimeout' = [writeNowTimeout EXCEPT ![e] = FALSE]
    /\ Put(e, Flushed(e, data[e]))
    /\ data' = [data EXCEPT ![e] = Kept(e, @)]
    /\ UNCHANGED <<sendVars, receiveVars, watchdogVars, isPaused, socketVars, eventVars>>

\* _sendAckCheck by its timer.  Arming it again because the last message came
\* in less than AcknowledgeTime ago is a stuttering step.
IncomingAckTimer(e) ==
    /\ incomingAckTimeout[e]
    /\ incomingAckTimeout' = [incomingAckTimeout EXCEPT ![e] = FALSE]
    /\ IF incomingMsgId[e] <= incomingAckId[e]
       THEN UNCHANGED <<incomingAckId, data, writeNowTimeout>>
       ELSE /\ incomingAckId' = [incomingAckId EXCEPT ![e] = incomingMsgId[e]]
            /\ Write(e, <<AckOf("Ack", incomingMsgId[e])>>)
    /\ UNCHANGED <<sendVars, incomingMsgId, delivered, watchdogVars, isPaused,
                   socketVars, eventVars, wire>>

\* _recvAckCheck by its timer.
OutgoingAckTimer(e) ==
    /\ outgoingAckTimeout[e]
    /\ UNCHANGED <<sendVars, socketVars>>
    /\ RecvAckCheck(e, FALSE)
    /\ UNCHANGED <<receiveVars, writerVars, eventVars, wire>>

SendKeepAlive(e) ==
    /\ keepAliveInterval[e]
    /\ HasRoom(e)
    /\ incomingAckId' = [incomingAckId EXCEPT ![e] = incomingMsgId[e]]
    /\ Write(e, <<AckOf("KeepAlive", incomingMsgId[e])>>)
    /\ UNCHANGED <<sendVars, incomingMsgId, incomingAckTimeout, delivered,
                   watchdogVars, isPaused, socketVars, eventVars, wire>>

\* 10 seconds after a replay request, another one may be written.  Bound: the
\* previous one has been read or lost by then.
ReplayWindowElapses(e) ==
    /\ lastReplayRequest[e]
    /\ \A i \in DOMAIN data[e] : data[e][i].type # "ReplayRequest"
    /\ \A i \in DOMAIN wire[socket[e]][e] : wire[socket[e]][e][i].type # "ReplayRequest"
    /\ lastReplayRequest' = [lastReplayRequest EXCEPT ![e] = FALSE]
    /\ UNCHANGED <<sendVars, receiveVars, watchdogVars, writerVars, socket, opened,
                   isDisposed, isReconnecting, eventVars, wire>>

-----------------------------------------------------------------------------
(* _receiveMessage: the next message m of the current socket, by type.  The  *)
(* acknowledgement it carries is taken before its type is looked at.         *)

Arrives(e, types, m) ==
    /\ ~isDisposed[e]
    /\ wire[socket[e]][Peer(e)] # <<>>
    /\ m = Head(wire[socket[e]][Peer(e)])
    /\ m.type \in types
    /\ wire' = [wire EXCEPT ![socket[e]][Peer(e)] = Tail(@)]
    /\ AcceptAck(e, m.ack)
    /\ UNCHANGED outgoingMsgId

\* Faulty variant of IsNext: a gap is skipped.
IsLater(e, m) == m.id > incomingMsgId[e]

IsDuplicate(e, m) == m.id <= incomingMsgId[e]
IsNext(e, m) == m.id = incomingMsgId[e] + 1

ReceiveRegular(e) == \E m \in Message :
    /\ Arrives(e, {"Regular"}, m)
    /\ \/ /\ IsDuplicate(e, m)
          /\ UNCHANGED <<receiveVars, data, writeNowTimeout, lastReplayRequest>>
       \/ /\ ~IsDuplicate(e, m) /\ ~IsNext(e, m)   \* messages in between are missing
          /\ IF lastReplayRequest[e]
             THEN UNCHANGED <<data, writeNowTimeout, lastReplayRequest>>
             ELSE /\ lastReplayRequest' = [lastReplayRequest EXCEPT ![e] = TRUE]
                  /\ Write(e, <<Plain("ReplayRequest")>>)
          /\ UNCHANGED receiveVars
       \/ /\ IsNext(e, m)
          /\ incomingMsgId' = [incomingMsgId EXCEPT ![e] = m.id]
          /\ UNCHANGED incomingAckId
          /\ SendAckCheck(e)
          /\ delivered' = [delivered EXCEPT ![e] = Append(@, m.id)]
          /\ UNCHANGED <<data, writeNowTimeout, lastReplayRequest>>
    /\ UNCHANGED <<watchdogVars, isPaused, socket, opened, isDisposed,
                   isReconnecting, eventVars>>

ReceiveAckOrKeepAlive(e) == \E m \in Message :
    /\ Arrives(e, {"Ack", "KeepAlive"}, m)
    /\ UNCHANGED <<receiveVars, watchdogVars, writerVars, socketVars, eventVars>>

ReceiveControl(e) == \E m \in Message :
    /\ Arrives(e, {"Control"}, m)
    /\ controlMessage' = [controlMessage EXCEPT ![e] = Append(@, m.data)]
    /\ UNCHANGED <<receiveVars, watchdogVars, writerVars, socketVars, didDispose,
                   didSendDisconnect, keepAliveInterval>>

ReceiveDisconnect(e) == \E m \in Message :
    /\ Arrives(e, {"Disconnect"}, m)
    /\ didDispose' = [didDispose EXCEPT ![e] = TRUE]
    /\ UNCHANGED <<receiveVars, watchdogVars, writerVars, socketVars, controlMessage,
                   didSendDisconnect, keepAliveInterval>>

ReceiveReplayRequest(e) == \E m \in Message :
    /\ Arrives(e, {"ReplayRequest"}, m)
    /\ Write(e, outgoingUnackMsg'[e])
    /\ UNCHANGED socketVars
    /\ RecvAckCheck(e, outgoingAckTimeout[e])
    /\ UNCHANGED <<receiveVars, isPaused, eventVars>>

ReceivePause(e) == \E m \in Message :
    /\ Arrives(e, {"Pause"}, m)
    /\ isPaused' = [isPaused EXCEPT ![e] = TRUE]
    /\ UNCHANGED <<receiveVars, watchdogVars, data, writeNowTimeout, socketVars,
                   eventVars>>

ReceiveResume(e) == \E m \in Message :
    /\ Arrives(e, {"Resume"}, m)
    /\ Resume(e)
    /\ UNCHANGED <<receiveVars, watchdogVars, data, socketVars, eventVars>>

-----------------------------------------------------------------------------
(* The environment *)

\* The owner reads a control message.
ReadControlMessage(e) ==
    /\ controlMessage[e] # <<>>
    /\ controlMessage' = [controlMessage EXCEPT ![e] = Tail(@)]
    /\ UNCHANGED <<sendVars, receiveVars, watchdogVars, writerVars, socketVars,
                   didDispose, didSendDisconnect, keepAliveInterval, wire>>

\* A message in flight is lost with the rest of a broken connection.
Lose(s, e, i) ==
    /\ i \in DOMAIN wire[s][e]
    /\ wire' = [wire EXCEPT ![s][e] = SubSeq(@, 1, i - 1) \o SubSeq(@, i + 1, Len(@))]
    /\ UNCHANGED <<sendVars, receiveVars, watchdogVars, writerVars, socketVars, eventVars>>

-----------------------------------------------------------------------------
(* The actions, by the part of the protocol they exercise. *)

Traffic(e) ==
    \/ Send(e)
    \/ WriteNow(e)
    \/ ReceiveRegular(e)
    \/ ReceiveAckOrKeepAlive(e)
    \/ ReceiveReplayRequest(e)
    \/ IncomingAckTimer(e)
    \/ OutgoingAckTimer(e)
    \/ ReplayWindowElapses(e)

Reconnection(e) ==
    \/ \E s \in Socket : BeginAcceptReconnection(e, s)
    \/ EndAcceptReconnection(e)

ControlTraffic(e) ==
    \/ SendKeepAlive(e)
    \/ \E d \in ControlData : SendControl(e, d)
    \/ ReceiveControl(e)
    \/ ReadControlMessage(e)

WriterControl(e) ==
    \/ \E t \in {"Pause", "Resume"} : SendPauseOrResume(e, t)
    \/ ReceivePause(e)
    \/ ReceiveResume(e)
    \/ PauseSocketWriting(e)
    \/ Flush(e)

Shutdown(e) ==
    \/ SendDisconnect(e)
    \/ ReceiveDisconnect(e)
    \/ AcceptDisconnect(e)
    \/ Dispose(e)

Loss == \E s \in Socket : \E e \in Side : \E i \in DOMAIN wire[s][e] : Lose(s, e, i)

Next ==
    \/ \E e \in Side : \/ Traffic(e)
                       \/ Reconnection(e)
                       \/ ControlTraffic(e)
                       \/ WriterControl(e)
                       \/ Shutdown(e)
    \/ Loss

Spec == Init /\ [][Next]_vars

-----------------------------------------------------------------------------
(* Properties *)

CountersOK ==
    /\ outgoingMsgId \in [Side -> 0..MaxMsg]
    /\ outgoingAckId \in [Side -> 0..MaxMsg]
    /\ incomingMsgId \in [Side -> 0..MaxMsg]
    /\ incomingAckId \in [Side -> 0..MaxMsg]
    /\ delivered \in [Side -> Seq(Nat)]

MessagesOK ==
    /\ outgoingUnackMsg \in [Side -> Seq(Message)]
    /\ data \in [Side -> Seq(Message)]
    /\ wire \in [Socket -> [Side -> Seq(Message)]]
    /\ socket \in [Side -> Socket]

EventsOK ==
    /\ opened \in [Side -> SUBSET Socket]
    /\ controlMessage \in [Side -> Seq(ControlData)]

FlagsOK ==
    /\ outgoingAckTimeout \in [Side -> BOOLEAN]
    /\ incomingAckTimeout \in [Side -> BOOLEAN]
    /\ writeNowTimeout \in [Side -> BOOLEAN]
    /\ isReconnecting \in [Side -> BOOLEAN]
    /\ isPaused \in [Side -> BOOLEAN]
    /\ isDisposed \in [Side -> BOOLEAN]
    /\ didSendDisconnect \in [Side -> BOOLEAN]
    /\ keepAliveInterval \in [Side -> BOOLEAN]
    /\ lastReplayRequest \in [Side -> BOOLEAN]
    /\ socketTimeout \in [Side -> BOOLEAN]
    /\ didDispose \in [Side -> BOOLEAN]

TypeOK == CountersOK /\ MessagesOK /\ EventsOK /\ FlagsOK

\* The unacknowledged queue is exactly the messages after the last one the
\* peer has confirmed: what the peek()! of _recvAckCheck and the replay after
\* a reconnection rely on.
UnackExact ==
    \A e \in Side :
        /\ Len(outgoingUnackMsg[e]) + outgoingAckId[e] = outgoingMsgId[e]
        /\ \A i \in 1..Len(outgoingUnackMsg[e]) :
              outgoingUnackMsg[e][i].id = outgoingAckId[e] + i

\* Through losses, replays, pauses and socket changes, onMessage fires the
\* peer's messages once each, in the order of send, and none that was not sent.
ExactlyOnceInOrder ==
    \A e \in Side :
        /\ delivered[e] = [i \in 1..Len(delivered[e]) |-> i]
        /\ Len(delivered[e]) <= outgoingMsgId[Peer(e)]

\* A message leaves the queue of its sender only after the peer's onMessage
\* fired it: endAcceptReconnection can always replay what is missing.
NoMessageLost ==
    \A e \in Side : \A i \in 1..outgoingMsgId[e] :
        \/ i <= Len(delivered[Peer(e)])
        \/ \E k \in 1..Len(outgoingUnackMsg[e]) : outgoingUnackMsg[e][k].id = i

\* Messages an endpoint may have written: no id it has not sent, and no
\* acknowledgement of a message it has not received.
UpTo(i, a) == {m \in Message : m.id <= i /\ m.ack <= a}
Sound(e) == UpTo(outgoingMsgId[e], incomingMsgId[e])

\* Every message queued, buffered or in flight, on whatever socket, is sound: a
\* stale one of an old socket can confirm nothing its writer did not receive.
WrittenIsSound ==
    \A e \in Side :
        /\ outgoingUnackMsg[e] \in Seq(Sound(e))
        /\ data[e] \in Seq(Sound(e))
        /\ \A s \in Socket : wire[s][e] \in Seq(Sound(e))

\* What each endpoint knows of the other lags behind what the other did.
CountersLag ==
    \A e \in Side :
        /\ incomingAckId[e] <= incomingMsgId[e]
        /\ incomingMsgId[e] <= outgoingMsgId[Peer(e)]
        /\ outgoingAckId[e] <= incomingMsgId[Peer(e)]
        /\ delivered[e] = [i \in 1..incomingMsgId[e] |-> i]

\* The inductive invariant behind the delivery properties.
Delivery == CountersOK /\ MessagesOK /\ UnackExact /\ CountersLag /\ WrittenIsSound

\* Once a message is received and not acknowledged, a check is planned, until
\* the protocol is disposed (a reconnection plans none, but acknowledges at
\* its end).
OwedAckHasTimer ==
    \A e \in Side :
        incomingMsgId[e] > incomingAckId[e] /\ ~isDisposed[e] /\ ~isReconnecting[e]
        => incomingAckTimeout[e]

\* While messages are unacknowledged, the socket is watched: a check is planned
\* or the owner has been told of a timeout on this socket.
UnackedIsWatched ==
    \A e \in Side :
        outgoingMsgId[e] > outgoingAckId[e] /\ ~isReconnecting[e] /\ ~isDisposed[e]
        => outgoingAckTimeout[e] \/ socketTimeout[e]

\* What is buffered in a writer that is not paused is about to be written:
\* neither pause and resume, nor a flush in between, leaves it behind.
BufferedIsScheduled ==
    \A e \in Side :
        data[e] # <<>> /\ ~isPaused[e] => writeNowTimeout[e]

Channel == INSTANCE ReliableChannel WITH sent <- outgoingMsgId

\* The two endpoints implement a reliable channel.
ImplementsReliableChannel == Channel!Spec
=============================================================================
