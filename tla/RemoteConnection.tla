-------------------------- MODULE RemoteConnection --------------------------
(***************************************************************************)
(* The reconnection of a remote window: PersistentConnection in the window *)
(* (platform/remote/common/remoteAgentConnection.ts) and, in the server,   *)
(* the handshake of remoteExtensionHostAgentServer.ts and the grace timers *)
(* of ManagementConnection.  It is the environment of PersistentProtocol:  *)
(* here is decided when its beginAcceptReconnection, endAcceptReconnection *)
(* and dispose are called, and on which socket.                            *)
(*                                                                         *)
(* Of the traffic only what the handshake and the disconnection tell apart *)
(* is kept.  A promise that waits for the network, for a resolver or for a *)
(* timer is a phase of the loop; the timeouts may come at any time.        *)
(***************************************************************************)
EXTENDS Naturals, Sequences

CONSTANTS
    Connection,     \* the persistent connections of a window
    Management,     \* those whose failure is fatal to all
    GiveUpAfter,    \* attempts after which an error is permanent (360)
    MaxSocket       \* bound: sockets 0..MaxSocket are made for a connection

ASSUME ManagementAssumption == Management \subseteq Connection
ASSUME BoundAssumption == GiveUpAfter \in Nat /\ MaxSocket \in Nat

Socket == 0..MaxSocket
Phase == {"idle", "waiting", "connecting", "authenticating", "awaitSign",
          "signing", "awaitOk"}
Event == {"gain", "lost", "wait", "running", "failure"}
HandshakeMessage == {"auth", "sign", "connectionType", "ok", "error"}
Stage == {"WaitingForAuth", "WaitingForConnectionType", "WaitingForPort", "Done", "Error"}

VARIABLES
    \* PersistentConnection
    phase,                  \* where _runReconnectingLoop is; idle: not running
    attempt,
    lastEvent,              \* the last onDidStateChange event
    isDisposed,
    permanentFailure,       \* the static _permanentFailure
    \* its PersistentProtocol
    clientSocket,           \* the sockets 0..clientSocket have been made
    protocolReconnecting,
    protocolDisposed,
    clientClosed,           \* onSocketClose has fired for clientSocket
    controlMessage,         \* control messages nobody has listened to yet
    \* the network
    broken,                 \* the sockets that no longer carry anything new
    toServer, toClient,     \* what is in flight, by socket
    \* the server
    stage,                  \* State of _handleWebSocketConnection, by socket
    serverSocket,           \* socket of the connection's protocol
    serverClosed,           \* onSocketClose has fired for serverSocket
    disconnectRunner1, disconnectRunner2,   \* scheduled
    gone                    \* no longer in _managementConnections

loopVars == <<phase, attempt, lastEvent, isDisposed, permanentFailure>>
protocolVars == <<clientSocket, protocolReconnecting, protocolDisposed,
                  clientClosed, controlMessage>>
netVars == <<broken, toServer, toClient>>
runnerVars == <<disconnectRunner1, disconnectRunner2>>
serverVars == <<stage, serverSocket, serverClosed, gone>>
vars == <<loopVars, protocolVars, netVars, runnerVars, serverVars>>

Broken(c, s) == <<c, s>> \in broken

Init ==
    /\ phase = [c \in Connection |-> "idle"]
    /\ attempt = [c \in Connection |-> 0]
    /\ lastEvent = [c \in Connection |-> "gain"]
    /\ isDisposed = [c \in Connection |-> FALSE]
    /\ permanentFailure = FALSE
    /\ clientSocket = [c \in Connection |-> 0]
    /\ protocolReconnecting = [c \in Connection |-> FALSE]
    /\ protocolDisposed = [c \in Connection |-> FALSE]
    /\ clientClosed = [c \in Connection |-> FALSE]
    /\ controlMessage = [c \in Connection |-> <<>>]
    /\ broken = {}
    /\ toServer = [c \in Connection |-> [s \in Socket |-> <<>>]]
    /\ toClient = [c \in Connection |-> [s \in Socket |-> <<>>]]
    /\ stage = [c \in Connection |-> [s \in Socket |->
                    IF s = 0 THEN "Done" ELSE "WaitingForAuth"]]
    /\ serverSocket = [c \in Connection |-> 0]
    /\ serverClosed = [c \in Connection |-> FALSE]
    /\ disconnectRunner1 = [c \in Connection |-> FALSE]
    /\ disconnectRunner2 = [c \in Connection |-> FALSE]
    /\ gone = [c \in Connection |-> FALSE]

-----------------------------------------------------------------------------
(* The network *)

ClientSends(c, msg) ==
    toServer' = IF Broken(c, clientSocket[c]) \/ protocolDisposed[c] THEN toServer
                ELSE [toServer EXCEPT ![c][clientSocket[c]] = Append(@, msg)]

ServerSends(c, s, msg) ==
    toClient' = IF Broken(c, s) THEN toClient
                ELSE [toClient EXCEPT ![c][s] = Append(@, msg)]

\* A connection breaks.  What is in flight is read or not: an end may see the
\* close first.
Break(c) == \E s \in {clientSocket[c], serverSocket[c]} :
    /\ ~Broken(c, s)
    /\ broken' = broken \cup {<<c, s>>}
    /\ UNCHANGED <<toServer, toClient, loopVars, protocolVars, runnerVars, serverVars>>

-----------------------------------------------------------------------------
(* PersistentConnection *)

\* onDidStateChange: a disposed emitter fires nothing.
Fire(cs, event) ==
    lastEvent' = [c \in Connection |->
                    IF c \in cs /\ ~isDisposed[c] THEN event ELSE lastEvent[c]]

\* _gotoPermanentFailure, of the instances cs.
GotoPermanentFailure(cs) ==
    /\ Fire(cs, "failure")
    /\ protocolDisposed' = [c \in Connection |-> protocolDisposed[c] \/ c \in cs]
    /\ broken' = broken \cup {<<c, clientSocket[c]>> : c \in cs}

\* _onReconnectionPermanentFailure, and the end of the loop.
GiveUp(c) ==
    /\ phase' = [phase EXCEPT ![c] = "idle"]
    /\ IF c \in Management
       THEN permanentFailure' = TRUE /\ GotoPermanentFailure({d \in Connection : ~isDisposed[d]})
       ELSE UNCHANGED permanentFailure /\ GotoPermanentFailure({c})
    /\ UNCHANGED attempt

\* Faulty variants of Retry: the loop is left; the attempt is not counted.
LeaveLoop(c) ==
    /\ phase' = [phase EXCEPT ![c] = "idle"]
    /\ UNCHANGED <<attempt, lastEvent, permanentFailure, protocolDisposed, broken>>
RetryUncounted(c) ==
    /\ phase' = [phase EXCEPT ![c] = "waiting"]
    /\ Fire({c}, "wait")
    /\ UNCHANGED <<attempt, permanentFailure, protocolDisposed, broken>>

\* continue: the loop goes on with a wait, unless its condition ends it.
Retry(c) ==
    /\ attempt' = [attempt EXCEPT ![c] = @ + 1]
    /\ IF permanentFailure \/ isDisposed[c]
       THEN phase' = [phase EXCEPT ![c] = "idle"] /\ UNCHANGED lastEvent
       ELSE phase' = [phase EXCEPT ![c] = "waiting"] /\ Fire({c}, "wait")
    /\ UNCHANGED <<permanentFailure, protocolDisposed, broken>>

\* Faulty variant of TemporaryError: one attempt too many.
OneMoreError(c) == IF attempt[c] > GiveUpAfter + 1 THEN GiveUp(c) ELSE Retry(c)

\* The catch block for an error after which the code tries again.
TemporaryError(c) == IF attempt[c] > GiveUpAfter THEN GiveUp(c) ELSE Retry(c)

\* _beginReconnecting: one loop at a time, and none after a permanent failure.
\* The first attempt does not wait.
BeginReconnecting(c) ==
    IF phase[c] # "idle" \/ permanentFailure \/ isDisposed[c]
    THEN UNCHANGED <<phase, attempt, lastEvent>>
    ELSE /\ phase' = [phase EXCEPT ![c] = "connecting"]
         /\ attempt' = [attempt EXCEPT ![c] = 0]
         /\ Fire({c}, "running")

Listening(c) == phase[c] \in {"awaitSign", "awaitOk"}

\* onSocketClose, after what was read.
ClientSocketClosed(c) ==
    /\ Broken(c, clientSocket[c]) /\ ~clientClosed[c]
    /\ ~isDisposed[c] /\ ~protocolDisposed[c]
    /\ Listening(c) => controlMessage[c] = <<>>
    /\ clientClosed' = [clientClosed EXCEPT ![c] = TRUE]
    /\ toClient' = [toClient EXCEPT ![c][clientSocket[c]] = <<>>]
    /\ BeginReconnecting(c)
    /\ UNCHANGED <<isDisposed, permanentFailure, clientSocket, protocolReconnecting,
                   protocolDisposed, controlMessage, broken, toServer, runnerVars,
                   serverVars>>

\* onSocketTimeout.  A protocol that was disposed checks again for
\* acknowledgements once something is sent.
SocketTimeout(c) ==
    /\ ~isDisposed[c] /\ ~permanentFailure /\ phase[c] = "idle"
    /\ ~protocolReconnecting[c]
    /\ BeginReconnecting(c)
    /\ UNCHANGED <<isDisposed, permanentFailure, protocolVars, netVars, runnerVars,
                   serverVars>>

\* The wait is over, or skipped.
WaitEnds(c) ==
    /\ phase[c] = "waiting"
    /\ IF permanentFailure
       THEN phase' = [phase EXCEPT ![c] = "idle"] /\ UNCHANGED lastEvent
       ELSE phase' = [phase EXCEPT ![c] = "connecting"] /\ Fire({c}, "running")
    /\ UNCHANGED <<attempt, isDisposed, permanentFailure, protocolVars, netVars,
                   runnerVars, serverVars>>

\* The address is not resolved or the socket is not made: the code gives up or
\* tries again, by the kind of error.
ConnectFails(c) ==
    /\ phase[c] = "connecting"
    /\ GiveUp(c) \/ TemporaryError(c)
    /\ UNCHANGED <<isDisposed, clientSocket, protocolReconnecting, clientClosed,
                   controlMessage, toServer, toClient, runnerVars, serverVars>>

\* Faulty variant of FlushedControl: what the old socket brought is kept.
KeptControl(c) == controlMessage[c]

\* beginAcceptReconnection flushes the buffered control messages.
FlushedControl(c) == <<>>

\* The socket is made: beginAcceptReconnection.
Connect(c) ==
    /\ phase[c] = "connecting"
    /\ clientSocket[c] < MaxSocket
    /\ phase' = [phase EXCEPT ![c] = "authenticating"]
    /\ clientSocket' = [clientSocket EXCEPT ![c] = @ + 1]
    /\ protocolReconnecting' = [protocolReconnecting EXCEPT ![c] = TRUE]
    /\ protocolDisposed' = [protocolDisposed EXCEPT ![c] = FALSE]
    /\ clientClosed' = [clientClosed EXCEPT ![c] = FALSE]
    /\ controlMessage' = [controlMessage EXCEPT ![c] = FlushedControl(c)]
    /\ broken' = broken \cup {<<c, clientSocket[c]>>}
    /\ UNCHANGED <<attempt, lastEvent, isDisposed, permanentFailure, toServer, toClient,
                   runnerVars, serverVars>>

\* The promises of the handshake: createNewMessage, then sign.
SendAuth(c) ==
    /\ phase[c] = "authenticating"
    /\ phase' = [phase EXCEPT ![c] = "awaitSign"]
    /\ ClientSends(c, "auth")
    /\ UNCHANGED <<attempt, lastEvent, isDisposed, permanentFailure, protocolVars,
                   broken, toClient, runnerVars, serverVars>>

SendConnectionType(c) ==
    /\ phase[c] = "signing"
    /\ phase' = [phase EXCEPT ![c] = "awaitOk"]
    /\ ClientSends(c, "connectionType")
    /\ UNCHANGED <<attempt, lastEvent, isDisposed, permanentFailure, protocolVars,
                   broken, toClient, runnerVars, serverVars>>

\* The server's signature is not valid, or the sign service fails.
HandshakeRefused(c) ==
    /\ phase[c] \in {"authenticating", "signing"}
    /\ GiveUp(c)
    /\ UNCHANGED <<isDisposed, clientSocket, protocolReconnecting, clientClosed,
                   controlMessage, toServer, toClient, runnerVars, serverVars>>

\* A control message comes in while nobody listens.
BufferControlMessage(c) ==
    LET s == clientSocket[c]
    IN  /\ ~Listening(c) /\ ~protocolDisposed[c] /\ ~clientClosed[c]
        /\ toClient[c][s] # <<>>
        /\ controlMessage' = [controlMessage EXCEPT
                                ![c] = Append(@, [type |-> Head(toClient[c][s]), socket |-> s])]
        /\ toClient' = [toClient EXCEPT ![c][s] = Tail(@)]
        /\ UNCHANGED <<loopVars, clientSocket, protocolReconnecting, protocolDisposed,
                       clientClosed, broken, toServer, runnerVars, serverVars>>

\* The message m the listener gets: a buffered one, or the next to come in.
ReadsControlMessage(c, m) ==
    LET s == clientSocket[c]
    IN  \/ /\ controlMessage[c] # <<>>
           /\ m = Head(controlMessage[c]).type
           /\ controlMessage' = [controlMessage EXCEPT ![c] = Tail(@)]
           /\ UNCHANGED toClient
        \/ /\ controlMessage[c] = <<>> /\ ~protocolDisposed[c] /\ ~clientClosed[c]
           /\ toClient[c][s] # <<>>
           /\ m = Head(toClient[c][s])
           /\ toClient' = [toClient EXCEPT ![c][s] = Tail(@)]
           /\ UNCHANGED controlMessage

\* readOneControlMessage in connectToRemoteExtensionHostAgent.
ReceiveSign(c) == \E m \in HandshakeMessage :
    /\ phase[c] = "awaitSign"
    /\ ReadsControlMessage(c, m)
    /\ IF m = "sign"
       THEN /\ phase' = [phase EXCEPT ![c] = "signing"]
            /\ UNCHANGED <<attempt, lastEvent, permanentFailure, protocolDisposed, broken>>
       ELSE GiveUp(c)
    /\ UNCHANGED <<isDisposed, clientSocket, protocolReconnecting, clientClosed, toServer,
                   runnerVars, serverVars>>

\* connectToRemoteExtensionHostAgentAndReadOneMessage: endAcceptReconnection,
\* unless it is an error.
ReceiveOk(c) == \E m \in HandshakeMessage :
    /\ phase[c] = "awaitOk"
    /\ ReadsControlMessage(c, m)
    /\ IF m = "error"
       THEN GiveUp(c) /\ UNCHANGED protocolReconnecting
       ELSE /\ phase' = [phase EXCEPT ![c] = "idle"]
            /\ protocolReconnecting' = [protocolReconnecting EXCEPT ![c] = FALSE]
            /\ Fire({c}, "gain")
            /\ UNCHANGED <<attempt, permanentFailure, protocolDisposed, broken>>
    /\ UNCHANGED <<isDisposed, clientSocket, clientClosed, toServer, runnerVars, serverVars>>

\* RECONNECT_TIMEOUT, or the 10 seconds the sign message is waited for.
HandshakeTimeout(c) ==
    /\ phase[c] \in {"authenticating", "awaitSign", "signing", "awaitOk"}
    /\ TemporaryError(c)
    /\ UNCHANGED <<isDisposed, clientSocket, protocolReconnecting, clientClosed,
                   controlMessage, toServer, toClient, runnerVars, serverVars>>

\* dispose of a management connection and of its Client: a Disconnect, and the
\* end of the socket.
Dispose(c) ==
    /\ c \in Management /\ ~isDisposed[c]
    /\ isDisposed' = [isDisposed EXCEPT ![c] = TRUE]
    /\ ClientSends(c, "Disconnect")
    /\ protocolDisposed' = [protocolDisposed EXCEPT ![c] = TRUE]
    /\ broken' = broken \cup {<<c, clientSocket[c]>>}
    /\ UNCHANGED <<phase, attempt, lastEvent, permanentFailure, clientSocket,
                   protocolReconnecting, clientClosed, controlMessage, toClient,
                   runnerVars, serverVars>>

-----------------------------------------------------------------------------
(* The server *)

\* _handleWebSocketConnection, WaitingForAuth.
ServerReceiveAuth(c, s) ==
    /\ stage[c][s] = "WaitingForAuth"
    /\ toServer[c][s] # <<>> /\ Head(toServer[c][s]) = "auth"
    /\ toServer' = [toServer EXCEPT ![c][s] = Tail(@)]
    /\ stage' = [stage EXCEPT ![c][s] = "WaitingForConnectionType"]
    /\ ServerSends(c, s, "sign")
    /\ UNCHANGED <<broken, serverSocket, serverClosed, gone, runnerVars, loopVars,
                   protocolVars>>

\* Nobody listens to onDidDispose of the protocol of the handshake.
ServerDropsDisconnect(c, s) ==
    /\ stage[c][s] # "Done"
    /\ toServer[c][s] # <<>> /\ Head(toServer[c][s]) = "Disconnect"
    /\ toServer' = [toServer EXCEPT ![c][s] = Tail(@)]
    /\ UNCHANGED <<broken, toClient, serverVars, runnerVars, loopVars, protocolVars>>

\* Faulty variant of Shortened: connections in use are not left out.
ShortenedAlways(d) == <<disconnectRunner1[d], ~gone[d]>>

\* shortenReconnectionGraceTimeIfNecessary: the two timers of d after it.
Shortened(d) == <<disconnectRunner1[d], disconnectRunner1[d] \/ disconnectRunner2[d]>>

\* Faulty variant of Cancelled: the short timer goes on.
CancelledLong(d, timers) == <<FALSE, timers[2]>>

\* acceptReconnection cancels both timers.
Cancelled(d, timers) == <<FALSE, FALSE>>

\* Faulty variant of ReplacedSocket: the old socket is left open.
LeftSocket(c, s) == broken

\* beginAcceptReconnection disposes the previous socket.
ReplacedSocket(c, s) == broken \cup {<<c, serverSocket[c]>>}

\* The timers of each connection.
SetRunners(timers) ==
    /\ disconnectRunner1' = [d \in Connection |-> timers[d][1]]
    /\ disconnectRunner2' = [d \in Connection |-> timers[d][2]]

\* The connection is refused, or accepted on the new socket, with the timers as
\* they are then.
Accept(c, s, timers) ==
    /\ stage' = [stage EXCEPT ![c][s] = "Done"]
    /\ SetRunners([d \in Connection |->
            IF d = c /\ ~gone[c] THEN Cancelled(d, timers[d]) ELSE timers[d]])
    /\ IF gone[c]
       THEN /\ ServerSends(c, s, "error")
            /\ broken' = broken \cup {<<c, s>>}
            /\ UNCHANGED <<serverSocket, serverClosed>>
       ELSE /\ ServerSends(c, s, "ok")
            /\ broken' = ReplacedSocket(c, s)
            /\ serverSocket' = [serverSocket EXCEPT ![c] = s]
            /\ serverClosed' = [serverClosed EXCEPT ![c] = FALSE]
    /\ UNCHANGED <<gone, loopVars, protocolVars>>

\* WaitingForConnectionType: the grace time of every connection is shortened.  A
\* management connection is accepted at once; that of an extension host first waits
\* for a free debug port.
ServerReceiveConnectionType(c, s) ==
    /\ stage[c][s] = "WaitingForConnectionType"
    /\ toServer[c][s] # <<>> /\ Head(toServer[c][s]) = "connectionType"
    /\ toServer' = [toServer EXCEPT ![c][s] = Tail(@)]
    /\ LET timers == [d \in Connection |-> Shortened(d)]
       IN  IF c \in Management
           THEN Accept(c, s, timers)
           ELSE /\ SetRunners(timers)
                /\ stage' = [stage EXCEPT ![c][s] = "WaitingForPort"]
                /\ UNCHANGED <<broken, toClient, serverSocket, serverClosed, gone, loopVars,
                               protocolVars>>

\* _updateWithFreeDebugPort has ended.  (That a restart of the server ends it, too, makes
\* no difference: then the connection is gone and the socket broken.)
ServerFindsPort(c, s) ==
    /\ stage[c][s] = "WaitingForPort"
    /\ Accept(c, s, [d \in Connection |-> <<disconnectRunner1[d], disconnectRunner2[d]>>])
    /\ UNCHANGED toServer

\* rejectWebSocketConnection, of either message, before any grace time is shortened.
ServerRejects(c, s) ==
    /\ toServer[c][s] # <<>>
    /\ \/ stage[c][s] = "WaitingForAuth" /\ Head(toServer[c][s]) = "auth"
       \/ stage[c][s] = "WaitingForConnectionType" /\ Head(toServer[c][s]) = "connectionType"
    /\ toServer' = [toServer EXCEPT ![c][s] = Tail(@)]
    /\ stage' = [stage EXCEPT ![c][s] = "Error"]
    /\ ServerSends(c, s, "error")
    /\ broken' = broken \cup {<<c, s>>}
    /\ UNCHANGED <<serverSocket, serverClosed, gone, runnerVars, loopVars, protocolVars>>

\* Faulty variant of ServerSocketClosed: no grace timer is scheduled.
ServerSocketForgotten(c) ==
    /\ ~gone[c] /\ ~serverClosed[c] /\ Broken(c, serverSocket[c])
    /\ serverClosed' = [serverClosed EXCEPT ![c] = TRUE]
    /\ toServer' = [toServer EXCEPT ![c][serverSocket[c]] = <<>>]
    /\ UNCHANGED <<runnerVars, stage, serverSocket, gone, broken, toClient, loopVars,
                   protocolVars>>

\* onSocketClose of the connection's protocol.
ServerSocketClosed(c) ==
    /\ ~gone[c] /\ ~serverClosed[c] /\ Broken(c, serverSocket[c])
    /\ serverClosed' = [serverClosed EXCEPT ![c] = TRUE]
    /\ disconnectRunner1' = [disconnectRunner1 EXCEPT ![c] = TRUE]
    /\ toServer' = [toServer EXCEPT ![c][serverSocket[c]] = <<>>]
    /\ UNCHANGED <<disconnectRunner2, stage, serverSocket, gone, broken, toClient,
                   loopVars, protocolVars>>

\* _cleanResources
CleanResources(c) ==
    /\ gone' = [gone EXCEPT ![c] = TRUE]
    /\ disconnectRunner1' = [disconnectRunner1 EXCEPT ![c] = FALSE]
    /\ disconnectRunner2' = [disconnectRunner2 EXCEPT ![c] = FALSE]
    /\ broken' = broken \cup {<<c, serverSocket[c]>>}
    /\ UNCHANGED <<stage, serverSocket, serverClosed, toClient, loopVars, protocolVars>>

GraceTimeExpires(c) ==
    /\ disconnectRunner1[c] \/ disconnectRunner2[c]
    /\ CleanResources(c)
    /\ UNCHANGED toServer

\* onDidDispose of the connection's protocol.
ServerReceiveDisconnect(c) ==
    LET s == serverSocket[c]
    IN  /\ ~gone[c] /\ ~serverClosed[c]
        /\ toServer[c][s] # <<>> /\ Head(toServer[c][s]) = "Disconnect"
        /\ toServer' = [toServer EXCEPT ![c][s] = Tail(@)]
        /\ CleanResources(c)

\* The server is started anew and knows none of the connections.
ServerRestart ==
    /\ \E c \in Connection : ~gone[c]
    /\ gone' = [c \in Connection |-> TRUE]
    /\ disconnectRunner1' = [c \in Connection |-> FALSE]
    /\ disconnectRunner2' = [c \in Connection |-> FALSE]
    /\ broken' = broken \cup {p \in Connection \X Socket : p[2] <= clientSocket[p[1]]}
    /\ toServer' = [c \in Connection |-> [s \in Socket |-> <<>>]]
    /\ UNCHANGED <<toClient, stage, serverSocket, serverClosed, loopVars, protocolVars>>

-----------------------------------------------------------------------------
Loop(c) ==
    \/ WaitEnds(c)
    \/ Connect(c)
    \/ ConnectFails(c)
    \/ SendAuth(c)
    \/ SendConnectionType(c)
    \/ HandshakeRefused(c)
    \/ ReceiveSign(c)
    \/ ReceiveOk(c)
    \/ HandshakeTimeout(c)

Server(c) ==
    \/ \E s \in Socket : \/ ServerReceiveAuth(c, s)
                         \/ ServerReceiveConnectionType(c, s)
                         \/ ServerFindsPort(c, s)
                         \/ ServerRejects(c, s)
                         \/ ServerDropsDisconnect(c, s)
    \/ ServerSocketClosed(c)
    \/ ServerReceiveDisconnect(c)

Next ==
    \/ \E c \in Connection :
        \/ Loop(c)
        \/ ClientSocketClosed(c)
        \/ SocketTimeout(c)
        \/ BufferControlMessage(c)
        \/ Dispose(c)
        \/ Server(c)
        \/ GraceTimeExpires(c)
        \/ Break(c)
    \/ ServerRestart

Spec == Init /\ [][Next]_vars

-----------------------------------------------------------------------------
(* Properties *)

TypeOK ==
    /\ phase \in [Connection -> Phase]
    /\ attempt \in [Connection -> 0..GiveUpAfter + 1]
    /\ lastEvent \in [Connection -> Event]
    /\ isDisposed \in [Connection -> BOOLEAN]
    /\ permanentFailure \in BOOLEAN
    /\ clientSocket \in [Connection -> Socket]
    /\ protocolReconnecting \in [Connection -> BOOLEAN]
    /\ protocolDisposed \in [Connection -> BOOLEAN]
    /\ clientClosed \in [Connection -> BOOLEAN]
    /\ controlMessage \in [Connection -> Seq([type : HandshakeMessage, socket : Socket])]
    /\ broken \subseteq Connection \X Socket
    /\ toServer \in [Connection -> [Socket -> Seq({"auth", "connectionType", "Disconnect"})]]
    /\ toClient \in [Connection -> [Socket -> Seq({"sign", "ok", "error"})]]
    /\ stage \in [Connection -> [Socket -> Stage]]
    /\ serverSocket \in [Connection -> Socket]
    /\ serverClosed \in [Connection -> BOOLEAN]
    /\ disconnectRunner1 \in [Connection -> BOOLEAN]
    /\ disconnectRunner2 \in [Connection -> BOOLEAN]
    /\ gone \in [Connection -> BOOLEAN]

\* When the client takes a connection for established, on a socket that works,
\* the server still has it, and on the same socket: a handshake that is late
\* on an older socket cannot split the two ends silently.
Agreement ==
    \A c \in Connection :
        /\ phase[c] = "idle" /\ lastEvent[c] = "gain" /\ ~isDisposed[c]
        /\ ~protocolDisposed[c] /\ ~Broken(c, clientSocket[c])
        => ~gone[c] /\ serverSocket[c] = clientSocket[c]

\* The grace timers run only while the socket is closed: no connection in use
\* is ever released by a timer of an earlier loss.
GraceOnlyWhenClosed ==
    \A c \in Connection :
        disconnectRunner1[c] \/ disconnectRunner2[c]
        => serverClosed[c] /\ Broken(c, serverSocket[c])

\* A control message is never answered on another socket than it came from.
NoStaleControl ==
    \A c \in Connection : \A i \in DOMAIN controlMessage[c] :
        controlMessage[c][i].socket = clientSocket[c]

\* The close of a socket is never missed: as long as nobody has given up, the
\* loop runs.
LossIsHandled ==
    \A c \in Connection :
        clientClosed[c] /\ ~isDisposed[c] /\ ~permanentFailure /\ lastEvent[c] # "failure"
        => phase[c] # "idle"

StartsAttempt(c) == phase[c] # "connecting" /\ phase'[c] = "connecting"

\* "Will give up now!": none is started once the permanent failure of the
\* connection was announced.
NoAttemptAfterFailure ==
    [][\A c \in Connection : lastEvent[c] = "failure" => ~StartsAttempt(c)]_vars
=============================================================================
