------------------------ MODULE RemoteConnectionProofs ------------------------
(* The safety invariants of RemoteConnection, for any number of connections   *)
(* and sockets and every interleaving of handshakes, losses, timeouts, grace  *)
(* timers, disposals and restarts of the server.                              *)
EXTENDS RemoteConnection, TLAPS

-----------------------------------------------------------------------------
(* The inductive invariant *)

Has(queue, msg) == \E i \in DOMAIN queue : queue[i] = msg

Grace(c) ==
    disconnectRunner1[c] \/ disconnectRunner2[c] => serverClosed[c] /\ Broken(c, serverSocket[c])

Control(c) == \A i \in DOMAIN controlMessage[c] : controlMessage[c][i].socket = clientSocket[c]

Loss(c) ==
    clientClosed[c] /\ ~isDisposed[c] /\ ~permanentFailure /\ lastEvent[c] # "failure" => phase[c] # "idle"

\* The loop that runs has said so.
NoGain(c) == phase[c] # "idle" => lastEvent[c] # "gain"

\* Nothing has happened on a socket that was not made yet.
Unused(c) ==
    \A s \in Socket : s > clientSocket[c] =>
        stage[c][s] = "WaitingForAuth" /\ toServer[c][s] = <<>> /\ toClient[c][s] = <<>>

Behind(c) == serverSocket[c] <= clientSocket[c]

\* The two ends of the handshake on the newest socket answer each other in turn, and
\* what is read is not buffered before.
Handshake(c) ==
    LET s == clientSocket[c]
    IN  /\ phase[c] \in {"authenticating", "awaitSign", "signing", "awaitOk"} => controlMessage[c] = <<>>
        /\ phase[c] \in {"authenticating", "awaitSign", "signing"} =>
              ~Has(toServer[c][s], "connectionType") /\ stage[c][s] \notin {"WaitingForPort", "Done"}
        /\ phase[c] = "authenticating" => ~Has(toServer[c][s], "auth")
        /\ phase[c] \in {"authenticating", "signing"} => toClient[c][s] = <<>>
        /\ phase[c] = "awaitSign" /\ stage[c][s] = "WaitingForAuth" => toClient[c][s] = <<>>
        /\ phase[c] = "awaitSign" => Len(toClient[c][s]) <= 1
        /\ phase[c] \in {"signing", "awaitOk"} => stage[c][s] # "WaitingForAuth"
        /\ phase[c] = "awaitOk" => ~Has(toClient[c][s], "sign")

\* The server has the connection on this socket, unless that is broken: once so, always so.
Joined(c, s) == Broken(c, s) \/ (~gone[c] /\ serverSocket[c] = s)

OkJoins(c) == \A s \in Socket : Has(toClient[c][s], "ok") => Joined(c, s)

GainJoins(c) ==
    phase[c] = "idle" /\ lastEvent[c] = "gain" /\ ~isDisposed[c] => Joined(c, clientSocket[c])

ClientInv(c) == Control(c) /\ Loss(c) /\ NoGain(c)
SocketInv(c) == Unused(c) /\ Behind(c) /\ Handshake(c) /\ OkJoins(c) /\ GainJoins(c)
ConnectionInv(c) == Grace(c) /\ ClientInv(c) /\ SocketInv(c)

RemoteInv == TypeOK /\ \A c \in Connection : ConnectionInv(c)

-----------------------------------------------------------------------------
(* Queues *)

LEMMA HasAppend ==
    ASSUME NEW M, NEW q \in Seq(M), NEW m \in M
    PROVE  /\ Append(q, m) \in Seq(M) /\ Len(Append(q, m)) = Len(q) + 1 /\ Len(q) \in Nat
           /\ \A n : Has(Append(q, m), n) => Has(q, n) \/ n = m
<1>1. /\ DOMAIN q = 1..Len(q) /\ Len(q) \in Nat
      /\ Append(q, m) \in Seq(M) /\ DOMAIN Append(q, m) = 1..(Len(q) + 1)
      /\ \A i \in 1..Len(q) : Append(q, m)[i] = q[i]
      /\ Append(q, m)[Len(q) + 1] = m /\ Len(Append(q, m)) = Len(q) + 1
  OBVIOUS
<1> QED
  BY <1>1 DEF Has

LEMMA HasTail ==
    ASSUME NEW M, NEW q \in Seq(M), q # <<>>
    PROVE  /\ Tail(q) \in Seq(M) /\ Head(q) \in M /\ Has(q, Head(q))
           /\ Len(Tail(q)) = Len(q) - 1 /\ Len(q) \in Nat
           /\ Len(q) <= 1 => Tail(q) = <<>>
           /\ \A n : Has(Tail(q), n) => Has(q, n)
<1>1. /\ DOMAIN q = 1..Len(q) /\ Len(q) \in Nat \ {0} /\ Head(q) = q[1] /\ Head(q) \in M
      /\ Tail(q) \in Seq(M) /\ Len(Tail(q)) = Len(q) - 1
      /\ DOMAIN Tail(q) = 1..(Len(q) - 1)
      /\ \A i \in 1..(Len(q) - 1) : Tail(q)[i] = q[i + 1]
  OBVIOUS
<1>2. Has(q, Head(q))
  BY <1>1 DEF Has
<1>3. Len(q) <= 1 => Tail(q) = <<>>
  BY <1>1
<1>4. ASSUME NEW n, NEW i \in DOMAIN Tail(q), Tail(q)[i] = n PROVE \E j \in DOMAIN q : q[j] = n
  <2>1. i + 1 \in DOMAIN q /\ q[i + 1] = n
    BY <1>1, <1>4
  <2> QED
    BY <2>1
<1> QED
  BY <1>1, <1>2, <1>3, <1>4 DEF Has

LEMMA HasEmpty == \A n : ~Has(<<>>, n)
  BY DEF Has

\* One queue of one connection changes.
LEMMA QueueSet ==
    ASSUME NEW M, NEW q \in [Connection -> [Socket -> Seq(M)]], NEW c \in Connection, NEW s \in Socket,
           NEW v \in Seq(M), NEW q2, q2 = [q EXCEPT ![c][s] = v]
    PROVE  /\ q2 \in [Connection -> [Socket -> Seq(M)]]
           /\ q2[c][s] = v
           /\ \A u \in Socket : u # s => q2[c][u] = q[c][u]
           /\ \A d \in Connection : d # c => q2[d] = q[d]
  OBVIOUS

-----------------------------------------------------------------------------
(* What the operators of the model change *)

ToServer == {"auth", "connectionType", "Disconnect"}
ToClient == {"sign", "ok", "error"}

LEMMA ClientSendsIs ==
    ASSUME TypeOK, NEW c \in Connection, NEW msg \in ToServer, ClientSends(c, msg)
    PROVE  /\ toServer' \in [Connection -> [Socket -> Seq(ToServer)]]
           /\ \A d \in Connection : d # c => toServer'[d] = toServer[d]
           /\ \A u \in Socket : u # clientSocket[c] => toServer'[c][u] = toServer[c][u]
           /\ \A n : Has(toServer'[c][clientSocket[c]], n) => Has(toServer[c][clientSocket[c]], n) \/ n = msg
<1> DEFINE s == clientSocket[c]
           q == Append(toServer[c][s], msg)
<1>1. toServer \in [Connection -> [Socket -> Seq(ToServer)]] /\ s \in Socket
  BY DEF TypeOK, ToServer
<1>2. toServer' = toServer \/ toServer' = [toServer EXCEPT ![c][s] = q]
  BY DEF ClientSends
<1>3. q \in Seq(ToServer) /\ \A n : Has(q, n) => Has(toServer[c][s], n) \/ n = msg
  BY <1>1, HasAppend
<1> HIDE DEF s, q
<1>4. CASE toServer' = [toServer EXCEPT ![c][s] = q]
  <2>1. /\ toServer' \in [Connection -> [Socket -> Seq(ToServer)]]
        /\ toServer'[c][s] = q
        /\ \A u \in Socket : u # s => toServer'[c][u] = toServer[c][u]
        /\ \A d \in Connection : d # c => toServer'[d] = toServer[d]
    BY <1>1, <1>3, <1>4, QueueSet
  <2> QED
    BY <1>3, <2>1 DEF s
<1>5. CASE toServer' = toServer
  BY <1>1, <1>5 DEF s
<1> QED
  BY <1>2, <1>4, <1>5

LEMMA ServerSendsIs ==
    ASSUME TypeOK, NEW c \in Connection, NEW s \in Socket, NEW msg \in ToClient, ServerSends(c, s, msg)
    PROVE  /\ toClient' \in [Connection -> [Socket -> Seq(ToClient)]]
           /\ \A d \in Connection : d # c => toClient'[d] = toClient[d]
           /\ \A u \in Socket : u # s => toClient'[c][u] = toClient[c][u]
           /\ \A n : Has(toClient'[c][s], n) => Has(toClient[c][s], n) \/ n = msg
           /\ Len(toClient'[c][s]) <= Len(toClient[c][s]) + 1
<1> DEFINE q == Append(toClient[c][s], msg)
<1>1. toClient \in [Connection -> [Socket -> Seq(ToClient)]]
  BY DEF TypeOK, ToClient
<1>2. toClient' = toClient \/ toClient' = [toClient EXCEPT ![c][s] = q]
  BY DEF ServerSends
<1>3. /\ q \in Seq(ToClient) /\ \A n : Has(q, n) => Has(toClient[c][s], n) \/ n = msg
      /\ Len(q) = Len(toClient[c][s]) + 1 /\ Len(toClient[c][s]) \in Nat
  BY <1>1, HasAppend
<1> HIDE DEF q
<1>4. CASE toClient' = [toClient EXCEPT ![c][s] = q]
  <2>1. /\ toClient' \in [Connection -> [Socket -> Seq(ToClient)]]
        /\ toClient'[c][s] = q
        /\ \A u \in Socket : u # s => toClient'[c][u] = toClient[c][u]
        /\ \A d \in Connection : d # c => toClient'[d] = toClient[d]
    BY <1>1, <1>3, <1>4, QueueSet
  <2> QED
    BY <1>3, <2>1
<1>5. CASE toClient' = toClient
  BY <1>1, <1>3, <1>5
<1> QED
  BY <1>2, <1>4, <1>5

\* The server reads the next message of a socket.
LEMMA ServerReadsIs ==
    ASSUME TypeOK, NEW c \in Connection, NEW s \in Socket, toServer[c][s] # <<>>,
           toServer' = [toServer EXCEPT ![c][s] = Tail(@)]
    PROVE  /\ toServer' \in [Connection -> [Socket -> Seq(ToServer)]]
           /\ \A d \in Connection : d # c => toServer'[d] = toServer[d]
           /\ \A u \in Socket : u # s => toServer'[c][u] = toServer[c][u]
           /\ \A n : Has(toServer'[c][s], n) => Has(toServer[c][s], n)
           /\ Has(toServer[c][s], Head(toServer[c][s]))
<1> DEFINE q == Tail(toServer[c][s])
<1>1. toServer \in [Connection -> [Socket -> Seq(ToServer)]]
  BY DEF TypeOK, ToServer
<1>2. toServer' = [toServer EXCEPT ![c][s] = q]
  OBVIOUS
<1>3. q \in Seq(ToServer) /\ \A n : Has(q, n) => Has(toServer[c][s], n)
  BY <1>1, HasTail
<1>4. Has(toServer[c][s], Head(toServer[c][s]))
  BY <1>1, HasTail
<1> HIDE DEF q
<1>5. /\ toServer' \in [Connection -> [Socket -> Seq(ToServer)]]
      /\ toServer'[c][s] = q
      /\ \A u \in Socket : u # s => toServer'[c][u] = toServer[c][u]
      /\ \A d \in Connection : d # c => toServer'[d] = toServer[d]
  BY <1>1, <1>2, <1>3, QueueSet
<1> QED
  BY <1>3, <1>4, <1>5

\* Events of the instances cs.
LEMMA FireIs ==
    ASSUME TypeOK, NEW cs, NEW event \in Event, Fire(cs, event)
    PROVE  /\ lastEvent' \in [Connection -> Event]
           /\ \A d \in Connection : lastEvent'[d] = IF d \in cs /\ ~isDisposed[d] THEN event ELSE lastEvent[d]
  BY DEF Fire, TypeOK

\* A loop that goes on to wait, or ends because the connection is disposed or has failed.
Ends(c) ==
    /\ phase' \in [Connection -> Phase] /\ attempt' \in [Connection -> 0..GiveUpAfter + 1]
    /\ lastEvent' \in [Connection -> Event] /\ permanentFailure' \in BOOLEAN
    /\ protocolDisposed' \in [Connection -> BOOLEAN]
    /\ broken \subseteq broken' /\ broken' \subseteq Connection \X Socket
    /\ permanentFailure => permanentFailure'
    /\ \A d \in Connection : d # c => phase'[d] = phase[d] /\ lastEvent'[d] \in {lastEvent[d], "failure"}
    /\ phase'[c] \in {"idle", "waiting"} /\ lastEvent'[c] \in {lastEvent[c], "wait", "failure"}
    /\ phase'[c] = "idle" => isDisposed[c] \/ permanentFailure' \/ lastEvent'[c] = "failure"

LEMMA GiveUpEnds ==
    ASSUME TypeOK, NEW c \in Connection, GiveUp(c)
    PROVE  Ends(c)
<1>1. PICK cs \in SUBSET Connection :
         /\ GotoPermanentFailure(cs)
         /\ \/ cs = {d \in Connection : ~isDisposed[d]} /\ permanentFailure' = TRUE
            \/ cs = {c} /\ permanentFailure' = permanentFailure
  <2>1. CASE c \in Management
    <3> DEFINE cs == {d \in Connection : ~isDisposed[d]}
    <3>1. GotoPermanentFailure(cs) /\ permanentFailure' = TRUE /\ cs \in SUBSET Connection
      BY <2>1 DEF GiveUp
    <3> QED
      BY <3>1
  <2>2. CASE c \notin Management
    BY <2>2 DEF GiveUp
  <2> QED
    BY <2>1, <2>2
<1>2. /\ lastEvent' \in [Connection -> Event]
      /\ \A d \in Connection : lastEvent'[d] = IF d \in cs /\ ~isDisposed[d] THEN "failure" ELSE lastEvent[d]
  <2>1. Fire(cs, "failure") /\ "failure" \in Event
    BY <1>1 DEF GotoPermanentFailure, Event
  <2> QED
    BY <2>1, FireIs
<1>3. protocolDisposed' \in [Connection -> BOOLEAN]
  BY <1>1 DEF GotoPermanentFailure, TypeOK
<1>4. broken \subseteq broken' /\ broken' \subseteq Connection \X Socket
  BY <1>1 DEF GotoPermanentFailure, TypeOK
<1>5. phase' = [phase EXCEPT ![c] = "idle"] /\ attempt' = attempt
  BY DEF GiveUp
<1>6. phase' \in [Connection -> Phase] /\ attempt' \in [Connection -> 0..GiveUpAfter + 1]
  BY <1>5 DEF TypeOK, Phase
<1>7. permanentFailure' \in BOOLEAN
  BY <1>1 DEF TypeOK
<1>8. isDisposed[c] \/ permanentFailure' \/ lastEvent'[c] = "failure"
  BY <1>1, <1>2
<1>9. /\ \A d \in Connection : d # c => phase'[d] = phase[d]
      /\ phase'[c] = "idle"
  BY <1>5 DEF TypeOK
<1> QED
  BY <1>1, <1>2, <1>3, <1>4, <1>6, <1>7, <1>8, <1>9 DEF Ends

LEMMA RetryEnds ==
    ASSUME TypeOK, NEW c \in Connection, Retry(c), attempt[c] <= GiveUpAfter
    PROVE  Ends(c)
<1>1. attempt' \in [Connection -> 0..GiveUpAfter + 1]
  <2>1. attempt[c] \in 0..GiveUpAfter + 1 /\ attempt' = [attempt EXCEPT ![c] = attempt[c] + 1]
    BY DEF Retry, TypeOK
  <2>2. attempt[c] + 1 \in 0..GiveUpAfter + 1
    BY <2>1, BoundAssumption
  <2> QED
    BY <2>1, <2>2 DEF TypeOK
<1>2. UNCHANGED <<permanentFailure, protocolDisposed, broken>>
  BY DEF Retry
<1>3. CASE /\ permanentFailure \/ isDisposed[c]
           /\ phase' = [phase EXCEPT ![c] = "idle"] /\ UNCHANGED lastEvent
  BY <1>1, <1>2, <1>3 DEF Ends, TypeOK, Phase
<1>4. CASE phase' = [phase EXCEPT ![c] = "waiting"] /\ Fire({c}, "wait")
  <2>1. /\ lastEvent' \in [Connection -> Event]
        /\ \A d \in Connection : lastEvent'[d] = IF d \in {c} /\ ~isDisposed[d] THEN "wait" ELSE lastEvent[d]
    BY <1>4, FireIs DEF Event
  <2> QED
    BY <1>1, <1>2, <1>4, <2>1 DEF Ends, TypeOK, Phase
<1> QED
  BY <1>3, <1>4 DEF Retry

LEMMA TemporaryErrorEnds ==
    ASSUME TypeOK, NEW c \in Connection, TemporaryError(c)
    PROVE  Ends(c)
<1>1. attempt[c] \in 0..GiveUpAfter + 1
  BY DEF TypeOK
<1>2. ~(attempt[c] > GiveUpAfter) => attempt[c] <= GiveUpAfter
  BY <1>1, BoundAssumption
<1> QED
  BY <1>2, GiveUpEnds, RetryEnds DEF TemporaryError

\* The loop begins, or goes on.
LEMMA BeginReconnectingIs ==
    ASSUME TypeOK, NEW c \in Connection, BeginReconnecting(c)
    PROVE  /\ phase' \in [Connection -> Phase] /\ attempt' \in [Connection -> 0..GiveUpAfter + 1]
           /\ lastEvent' \in [Connection -> Event]
           /\ \A d \in Connection : d # c => phase'[d] = phase[d] /\ lastEvent'[d] = lastEvent[d]
           /\ \/ /\ phase'[c] = phase[c] /\ lastEvent'[c] = lastEvent[c]
                 /\ phase[c] # "idle" \/ permanentFailure \/ isDisposed[c]
              \/ phase'[c] = "connecting" /\ lastEvent'[c] = "running"
<1>1. CASE phase[c] # "idle" \/ permanentFailure \/ isDisposed[c]
  BY <1>1 DEF BeginReconnecting, TypeOK
<1>2. CASE ~(phase[c] # "idle" \/ permanentFailure \/ isDisposed[c])
  <2>1. /\ phase' = [phase EXCEPT ![c] = "connecting"] /\ attempt' = [attempt EXCEPT ![c] = 0]
        /\ Fire({c}, "running")
    BY <1>2 DEF BeginReconnecting
  <2>2. /\ lastEvent' \in [Connection -> Event]
        /\ \A d \in Connection : lastEvent'[d] = IF d \in {c} /\ ~isDisposed[d] THEN "running" ELSE lastEvent[d]
    BY <2>1, FireIs DEF Event
  <2>3. attempt' \in [Connection -> 0..GiveUpAfter + 1]
    BY <2>1, BoundAssumption DEF TypeOK
  <2> QED
    BY <1>2, <2>1, <2>2, <2>3 DEF TypeOK, Phase
<1> QED
  BY <1>1, <1>2

\* The listener of c may have read a message; other queues are as they were.
MayRead(c) ==
    /\ controlMessage' \in [Connection -> Seq([type : HandshakeMessage, socket : Socket])]
    /\ toClient' \in [Connection -> [Socket -> Seq(ToClient)]]
    /\ \A d \in Connection : d # c => controlMessage'[d] = controlMessage[d] /\ toClient'[d] = toClient[d]
    /\ \A u \in Socket : u # clientSocket[c] => toClient'[c][u] = toClient[c][u]
    /\ \A n : Has(toClient'[c][clientSocket[c]], n) => Has(toClient[c][clientSocket[c]], n)
    /\ controlMessage[c] = <<>> => controlMessage'[c] = <<>>
    /\ \A i \in DOMAIN controlMessage'[c] :
          \E j \in DOMAIN controlMessage[c] : controlMessage'[c][i] = controlMessage[c][j]

LEMMA NothingRead ==
    ASSUME TypeOK, NEW c \in Connection, UNCHANGED <<controlMessage, toClient>>
    PROVE  MayRead(c)
  BY DEF MayRead, TypeOK, ToClient

LEMMA ReadIs ==
    ASSUME TypeOK, NEW c \in Connection, NEW m, ReadsControlMessage(c, m)
    PROVE  /\ MayRead(c)
           /\ controlMessage[c] = <<>> =>
                 /\ ~clientClosed[c] /\ Has(toClient[c][clientSocket[c]], m)
                 /\ toClient[c][clientSocket[c]] # <<>>
                 /\ Len(toClient[c][clientSocket[c]]) <= 1 => toClient'[c][clientSocket[c]] = <<>>
<1> DEFINE s == clientSocket[c]
           M == [type : HandshakeMessage, socket : Socket]
<1>1. /\ controlMessage \in [Connection -> Seq(M)] /\ toClient \in [Connection -> [Socket -> Seq(ToClient)]]
      /\ s \in Socket
  BY DEF TypeOK, ToClient
<1> HIDE DEF M
<1>2. CASE /\ controlMessage[c] # <<>>
           /\ controlMessage' = [controlMessage EXCEPT ![c] = Tail(@)] /\ UNCHANGED toClient
  <2>1. controlMessage[c] \in Seq(M)
    BY <1>1
  <2>2. /\ Tail(controlMessage[c]) \in Seq(M)
        /\ \A i \in DOMAIN Tail(controlMessage[c]) :
              \E j \in DOMAIN controlMessage[c] : Tail(controlMessage[c])[i] = controlMessage[c][j]
    <3>1. Tail(controlMessage[c]) \in Seq(M)
      BY <1>2, <2>1
    <3>2. ASSUME NEW i \in DOMAIN Tail(controlMessage[c])
          PROVE  i + 1 \in DOMAIN controlMessage[c] /\ Tail(controlMessage[c])[i] = controlMessage[c][i + 1]
      BY <1>2, <2>1
    <3> QED
      BY <3>1, <3>2
  <2>3. /\ controlMessage' \in [Connection -> Seq(M)] /\ controlMessage'[c] = Tail(controlMessage[c])
        /\ \A d \in Connection : d # c => controlMessage'[d] = controlMessage[d]
    BY <1>1, <1>2, <2>2
  <2> QED
    BY <1>1, <1>2, <2>2, <2>3 DEF MayRead, M
<1>3. CASE /\ controlMessage[c] = <<>> /\ ~clientClosed[c] /\ toClient[c][s] # <<>>
           /\ m = Head(toClient[c][s])
           /\ toClient' = [toClient EXCEPT ![c][s] = Tail(@)] /\ UNCHANGED controlMessage
  <2> DEFINE q == Tail(toClient[c][s])
  <2>1. toClient' = [toClient EXCEPT ![c][s] = q]
    BY <1>3
  <2>2. /\ q \in Seq(ToClient) /\ Has(toClient[c][s], m) /\ \A n : Has(q, n) => Has(toClient[c][s], n)
        /\ Len(toClient[c][s]) <= 1 => q = <<>>
    BY <1>1, <1>3, HasTail
  <2> HIDE DEF q
  <2>3. /\ toClient' \in [Connection -> [Socket -> Seq(ToClient)]]
        /\ toClient'[c][s] = q
        /\ \A u \in Socket : u # s => toClient'[c][u] = toClient[c][u]
        /\ \A d \in Connection : d # c => toClient'[d] = toClient[d]
    BY <1>1, <2>1, <2>2, QueueSet
  <2> QED
    BY <1>1, <1>3, <2>2, <2>3 DEF MayRead, M
<1> QED
  BY <1>2, <1>3 DEF ReadsControlMessage

-----------------------------------------------------------------------------
(* What a step must show *)

\* That the server has a connection on a socket stays true while sockets only break.
LEMMA JoinedKept ==
    ASSUME NEW c \in Connection, UNCHANGED <<gone, serverSocket>>, broken \subseteq broken'
    PROVE  \A s : Joined(c, s) => Joined(c, s)'
  BY DEF Joined, Broken

\* What another connection notices of a step: sockets break, a fatal failure is announced,
\* and the grace time may be shortened.
LEMMA OtherKept ==
    ASSUME NEW d \in Connection, ConnectionInv(d),
           UNCHANGED <<phase[d], clientSocket[d], clientClosed[d], controlMessage[d], isDisposed[d],
                       toServer[d], toClient[d], stage[d], serverSocket[d], serverClosed[d], gone[d]>>,
           lastEvent'[d] \in {lastEvent[d], "failure"},
           broken \subseteq broken', permanentFailure => permanentFailure',
           disconnectRunner1'[d] \/ disconnectRunner2'[d] => disconnectRunner1[d] \/ disconnectRunner2[d]
    PROVE  ConnectionInv(d)'
<1>1. Grace(d)'
  BY DEF ConnectionInv, Grace, Broken
<1>2. Control(d)' /\ Loss(d)' /\ NoGain(d)'
  BY DEF ConnectionInv, ClientInv, Control, Loss, NoGain
<1>3. Unused(d)' /\ Behind(d)'
  BY DEF ConnectionInv, SocketInv, Unused, Behind
<1>4. Handshake(d)'
  BY DEF ConnectionInv, SocketInv, Handshake, Has
<1>5. \A s : Joined(d, s) => Joined(d, s)'
  BY DEF Joined, Broken
<1>6. OkJoins(d)' /\ GainJoins(d)'
  BY <1>5 DEF ConnectionInv, SocketInv, OkJoins, GainJoins, Has
<1> QED
  BY <1>1, <1>2, <1>3, <1>4, <1>6 DEF ConnectionInv, ClientInv, SocketInv

\* A step of the client of c.
LEMMA ClientStep ==
    ASSUME RemoteInv, NEW c \in Connection, TypeOK',
           UNCHANGED <<serverVars, runnerVars>>, broken \subseteq broken', permanentFailure => permanentFailure',
           \A d \in Connection : d # c =>
              /\ UNCHANGED <<phase[d], clientSocket[d], clientClosed[d], controlMessage[d], isDisposed[d],
                             toServer[d], toClient[d]>>
              /\ lastEvent'[d] \in {lastEvent[d], "failure"},
           ClientInv(c)', SocketInv(c)'
    PROVE  RemoteInv'
<1>1. UNCHANGED <<stage, serverSocket, serverClosed, gone, disconnectRunner1, disconnectRunner2>>
  BY DEF serverVars, runnerVars
<1>2. ASSUME NEW d \in Connection, d # c PROVE ConnectionInv(d)'
  BY <1>1, <1>2, OtherKept DEF RemoteInv
<1>3. Grace(c)'
  BY <1>1 DEF RemoteInv, ConnectionInv, Grace, Broken
<1> QED
  BY <1>2, <1>3 DEF RemoteInv, ConnectionInv

\* A step of the server that concerns c: the client notices nothing but broken sockets.
LEMMA ServerStep ==
    ASSUME RemoteInv, NEW c \in Connection, TypeOK', UNCHANGED <<loopVars, protocolVars>>,
           broken \subseteq broken',
           \A d \in Connection : d # c =>
              /\ UNCHANGED <<toServer[d], toClient[d], stage[d], serverSocket[d], serverClosed[d], gone[d]>>
              /\ disconnectRunner1'[d] \/ disconnectRunner2'[d] => disconnectRunner1[d] \/ disconnectRunner2[d],
           Grace(c)', SocketInv(c)'
    PROVE  RemoteInv'
<1>1. UNCHANGED <<phase, attempt, lastEvent, isDisposed, permanentFailure, clientSocket, clientClosed, controlMessage>>
  BY DEF loopVars, protocolVars
<1>2. ASSUME NEW d \in Connection, d # c PROVE ConnectionInv(d)'
  BY <1>1, <1>2, OtherKept DEF RemoteInv
<1>3. ClientInv(c)'
  BY <1>1 DEF RemoteInv, ConnectionInv, ClientInv, Control, Loss, NoGain
<1> QED
  BY <1>2, <1>3 DEF RemoteInv, ConnectionInv

\* What was read keeps the invariants of the queues.
LEMMA ReadKeeps ==
    ASSUME RemoteInv, NEW c \in Connection, MayRead(c), UNCHANGED <<clientSocket, serverVars>>,
           \A u \in Socket : u # clientSocket[c] => toServer'[c][u] = toServer[c][u],
           broken \subseteq broken'
    PROVE  Control(c)' /\ Unused(c)' /\ Behind(c)' /\ OkJoins(c)' /\ \A s : Joined(c, s) => Joined(c, s)'
<1>1. UNCHANGED <<stage, serverSocket, gone>>
  BY DEF serverVars
<1>2. \A s : Joined(c, s) => Joined(c, s)'
  BY <1>1, JoinedKept
<1>3. clientSocket[c] \in Socket /\ Control(c) /\ Unused(c) /\ Behind(c) /\ OkJoins(c)
  BY DEF RemoteInv, TypeOK, ConnectionInv, ClientInv, SocketInv
<1>4. Control(c)'
  BY <1>3 DEF MayRead, Control
<1>5. Unused(c)' /\ Behind(c)'
  <2>1. \A s \in Socket : s > clientSocket[c] => s # clientSocket[c]
    BY <1>3 DEF Socket
  <2> QED
    BY <1>1, <1>3, <2>1 DEF MayRead, Unused, Behind
<1>6. OkJoins(c)'
  BY <1>2, <1>3 DEF MayRead, OkJoins
<1> QED
  BY <1>2, <1>4, <1>5, <1>6

\* An attempt that ends: the loop waits for the next, or the connection is given up.
LEMMA EndsStep ==
    ASSUME RemoteInv, NEW c \in Connection, Ends(c), phase[c] # "idle", MayRead(c),
           UNCHANGED <<isDisposed, clientSocket, protocolReconnecting, clientClosed, toServer,
                       serverVars, runnerVars>>
    PROVE  RemoteInv'
<1>1. UNCHANGED <<stage, serverSocket, serverClosed, gone, disconnectRunner1, disconnectRunner2>>
  BY DEF serverVars, runnerVars
<1>2. TypeOK'
  BY <1>1 DEF RemoteInv, TypeOK, Ends, MayRead, ToClient
<1>3. broken \subseteq broken' /\ (permanentFailure => permanentFailure')
  BY DEF Ends
<1>4. Control(c)' /\ Unused(c)' /\ Behind(c)' /\ OkJoins(c)'
  BY <1>3, ReadKeeps
<1>5. lastEvent'[c] # "gain" /\ phase'[c] \in {"idle", "waiting"}
  BY DEF Ends, RemoteInv, ConnectionInv, ClientInv, NoGain
<1>6. Loss(c)' /\ NoGain(c)' /\ GainJoins(c)'
  BY <1>5 DEF Ends, Loss, NoGain, GainJoins
<1>7. Handshake(c)'
  BY <1>5 DEF Handshake
<1> QED
  BY <1>2, <1>3, <1>4, <1>6, <1>7, ClientStep DEF ClientInv, SocketInv, Ends, MayRead

-----------------------------------------------------------------------------
(* The client *)

LEMMA FailStep ==
    ASSUME RemoteInv, NEW c \in Connection, ConnectFails(c) \/ HandshakeRefused(c) \/ HandshakeTimeout(c)
    PROVE  RemoteInv'
<1>1. /\ phase[c] # "idle"
      /\ GiveUp(c) \/ TemporaryError(c)
      /\ UNCHANGED <<isDisposed, clientSocket, protocolReconnecting, clientClosed,
                     controlMessage, toServer, toClient, runnerVars, serverVars>>
  BY DEF ConnectFails, HandshakeRefused, HandshakeTimeout
<1>2. TypeOK
  BY DEF RemoteInv
<1> QED
  BY <1>1, <1>2, GiveUpEnds, TemporaryErrorEnds, NothingRead, EndsStep

LEMMA ReceiveSignStep ==
    ASSUME RemoteInv, NEW c \in Connection, ReceiveSign(c)
    PROVE  RemoteInv'
<1>1. PICK m \in HandshakeMessage :
         /\ phase[c] = "awaitSign"
         /\ ReadsControlMessage(c, m)
         /\ \/ /\ m = "sign" /\ phase' = [phase EXCEPT ![c] = "signing"]
               /\ UNCHANGED <<attempt, lastEvent, permanentFailure, protocolDisposed, broken>>
            \/ GiveUp(c)
         /\ UNCHANGED <<isDisposed, clientSocket, protocolReconnecting, clientClosed, toServer,
                        runnerVars, serverVars>>
  BY DEF ReceiveSign
<1>2. TypeOK /\ ConnectionInv(c)
  BY DEF RemoteInv
<1>3. MayRead(c)
  BY <1>1, <1>2, ReadIs
<1>4. CASE GiveUp(c)
  BY <1>1, <1>2, <1>3, <1>4, GiveUpEnds, EndsStep
<1>5. CASE /\ phase' = [phase EXCEPT ![c] = "signing"]
           /\ UNCHANGED <<attempt, lastEvent, permanentFailure, protocolDisposed, broken>>
  <2>1. UNCHANGED <<stage, serverSocket, serverClosed, gone, disconnectRunner1, disconnectRunner2>>
    BY <1>1 DEF serverVars, runnerVars
  <2>2. TypeOK'
    BY <1>1, <1>2, <1>3, <1>5, <2>1 DEF TypeOK, MayRead, ToClient, Phase
  <2>3. Control(c)' /\ Unused(c)' /\ Behind(c)' /\ OkJoins(c)'
    BY <1>1, <1>3, <1>5, ReadKeeps
  <2>4. phase'[c] = "signing" /\ \A d \in Connection : d # c => phase'[d] = phase[d]
    BY <1>2, <1>5 DEF TypeOK
  <2>5. Loss(c)' /\ NoGain(c)' /\ GainJoins(c)'
    BY <1>1, <1>2, <1>5, <2>4 DEF ConnectionInv, ClientInv, Loss, NoGain, GainJoins
  <2>6. Handshake(c)'
    <3>1. /\ controlMessage[c] = <<>> /\ Len(toClient[c][clientSocket[c]]) <= 1
          /\ ~Has(toServer[c][clientSocket[c]], "connectionType")
          /\ stage[c][clientSocket[c]] \notin {"WaitingForPort", "Done"}
          /\ stage[c][clientSocket[c]] = "WaitingForAuth" => toClient[c][clientSocket[c]] = <<>>
      BY <1>1, <1>2 DEF ConnectionInv, SocketInv, Handshake
    <3>2. toClient[c][clientSocket[c]] # <<>> /\ toClient'[c][clientSocket[c]] = <<>>
      BY <1>1, <1>2, <3>1, ReadIs
    <3>3. controlMessage'[c] = <<>>
      BY <1>3, <3>1 DEF MayRead
    <3> QED
      BY <1>1, <2>1, <2>4, <3>1, <3>2, <3>3 DEF Handshake
  <2> QED
    BY <1>1, <1>3, <1>5, <2>2, <2>3, <2>4, <2>5, <2>6, ClientStep DEF ClientInv, SocketInv, MayRead
<1> QED
  BY <1>1, <1>4, <1>5

\* The answer is read from the socket itself, which has not closed.
LEMMA ReceiveOkStep ==
    ASSUME RemoteInv, NEW c \in Connection, ReceiveOk(c)
    PROVE  RemoteInv'
<1>1. PICK m \in HandshakeMessage :
         /\ phase[c] = "awaitOk"
         /\ ReadsControlMessage(c, m)
         /\ \/ m = "error" /\ GiveUp(c) /\ UNCHANGED protocolReconnecting
            \/ /\ m # "error"
               /\ phase' = [phase EXCEPT ![c] = "idle"]
               /\ protocolReconnecting' = [protocolReconnecting EXCEPT ![c] = FALSE]
               /\ Fire({c}, "gain")
               /\ UNCHANGED <<attempt, permanentFailure, protocolDisposed, broken>>
         /\ UNCHANGED <<isDisposed, clientSocket, clientClosed, toServer, runnerVars, serverVars>>
  BY DEF ReceiveOk
<1>2. TypeOK /\ ConnectionInv(c)
  BY DEF RemoteInv
<1>3. MayRead(c)
  BY <1>1, <1>2, ReadIs
<1>4. CASE GiveUp(c) /\ UNCHANGED protocolReconnecting
  BY <1>1, <1>2, <1>3, <1>4, GiveUpEnds, EndsStep
<1>5. CASE /\ m # "error"
           /\ phase' = [phase EXCEPT ![c] = "idle"]
           /\ protocolReconnecting' = [protocolReconnecting EXCEPT ![c] = FALSE]
           /\ Fire({c}, "gain")
           /\ UNCHANGED <<attempt, permanentFailure, protocolDisposed, broken>>
  <2>1. UNCHANGED <<stage, serverSocket, serverClosed, gone, disconnectRunner1, disconnectRunner2>>
    BY <1>1 DEF serverVars, runnerVars
  <2>2. /\ lastEvent' \in [Connection -> Event]
        /\ \A d \in Connection : lastEvent'[d] = IF d \in {c} /\ ~isDisposed[d] THEN "gain" ELSE lastEvent[d]
    BY <1>2, <1>5, FireIs DEF Event
  <2>3. phase'[c] = "idle" /\ \A d \in Connection : d # c => phase'[d] = phase[d]
    BY <1>2, <1>5 DEF TypeOK
  <2>4. TypeOK'
    BY <1>1, <1>2, <1>3, <1>5, <2>1, <2>2 DEF TypeOK, MayRead, ToClient, Phase
  <2>5. Control(c)' /\ Unused(c)' /\ Behind(c)' /\ OkJoins(c)' /\ \A s : Joined(c, s) => Joined(c, s)'
    BY <1>1, <1>3, <1>5, ReadKeeps
  <2>6. /\ controlMessage[c] = <<>> /\ ~Has(toClient[c][clientSocket[c]], "sign")
    BY <1>1, <1>2 DEF ConnectionInv, SocketInv, Handshake
  <2>7. ~clientClosed[c] /\ Has(toClient[c][clientSocket[c]], m)
    BY <1>1, <1>2, <2>6, ReadIs
  <2>8. m = "ok"
    <3>1. toClient[c][clientSocket[c]] \in Seq({"sign", "ok", "error"})
      BY <1>2 DEF TypeOK
    <3>2. m \in {"sign", "ok", "error"}
      BY <2>7, <3>1 DEF Has
    <3> QED
      BY <1>5, <2>6, <2>7, <3>2
  <2>9. Joined(c, clientSocket[c])
    BY <1>2, <2>7, <2>8 DEF TypeOK, ConnectionInv, SocketInv, OkJoins
  <2>10. Joined(c, clientSocket[c])'
    BY <1>1, <2>5, <2>9 DEF Joined, Broken
  <2>11. Loss(c)' /\ NoGain(c)' /\ GainJoins(c)'
    BY <1>1, <2>3, <2>7, <2>10 DEF Loss, NoGain, GainJoins
  <2>12. Handshake(c)'
    BY <2>3 DEF Handshake
  <2> QED
    BY <1>1, <1>3, <1>5, <2>2, <2>3, <2>4, <2>5, <2>11, <2>12, ClientStep DEF ClientInv, SocketInv, MayRead
<1> QED
  BY <1>1, <1>4, <1>5

\* The loop that begins has a socket before it: whatever is left of the last one does
\* not matter.
LEMMA BeginStep ==
    ASSUME RemoteInv, NEW c \in Connection, BeginReconnecting(c), MayRead(c),
           clientClosed' \in [Connection -> BOOLEAN],
           \A d \in Connection : d # c => clientClosed'[d] = clientClosed[d],
           toClient'[c][clientSocket[c]] \in {toClient[c][clientSocket[c]], <<>>},
           UNCHANGED <<isDisposed, permanentFailure, clientSocket, protocolReconnecting, protocolDisposed,
                       broken, toServer, runnerVars, serverVars>>
    PROVE  RemoteInv'
<1>1. UNCHANGED <<stage, serverSocket, serverClosed, gone, disconnectRunner1, disconnectRunner2>>
  BY DEF serverVars, runnerVars
<1>2. TypeOK /\ ConnectionInv(c)
  BY DEF RemoteInv
<1>3. /\ phase' \in [Connection -> Phase] /\ attempt' \in [Connection -> 0..GiveUpAfter + 1]
      /\ lastEvent' \in [Connection -> Event]
      /\ \A d \in Connection : d # c => phase'[d] = phase[d] /\ lastEvent'[d] = lastEvent[d]
      /\ \/ /\ phase'[c] = phase[c] /\ lastEvent'[c] = lastEvent[c]
            /\ phase[c] # "idle" \/ permanentFailure \/ isDisposed[c]
         \/ phase'[c] = "connecting" /\ lastEvent'[c] = "running"
  BY <1>2, BeginReconnectingIs
<1>4. TypeOK'
  BY <1>1, <1>2, <1>3 DEF TypeOK, MayRead, ToClient
<1>5. Control(c)' /\ Unused(c)' /\ Behind(c)' /\ OkJoins(c)' /\ \A s : Joined(c, s) => Joined(c, s)'
  BY ReadKeeps
<1>6. Loss(c)' /\ NoGain(c)'
  BY <1>2, <1>3 DEF ConnectionInv, ClientInv, Loss, NoGain
<1>7. GainJoins(c)'
  <2>1. Joined(c, clientSocket[c]) => Joined(c, clientSocket[c])'
    BY <1>5
  <2> QED
    BY <1>1, <1>2, <1>3, <2>1 DEF ConnectionInv, SocketInv, GainJoins, Joined, Broken
<1>8. Handshake(c)'
  <2>1. CASE phase'[c] = phase[c] /\ phase[c] # "idle"
    <3> DEFINE s == clientSocket[c]
    <3>1. /\ toClient[c][s] \in Seq(ToClient)
          /\ toClient'[c][s] \in {toClient[c][s], <<>>}
          /\ controlMessage[c] = <<>> => controlMessage'[c] = <<>>
      BY <1>2 DEF MayRead, TypeOK, ToClient
    <3>2. /\ phase'[c] = phase[c] /\ clientSocket' = clientSocket
          /\ toServer' = toServer /\ stage' = stage
      BY <1>1, <2>1
    <3>3. Len(toClient[c][s]) <= 1 => Len(toClient'[c][s]) <= 1
      BY <3>1
    <3>4. /\ ~Has(toClient[c][s], "sign") => ~Has(toClient'[c][s], "sign")
          /\ toClient[c][s] = <<>> => toClient'[c][s] = <<>>
      BY <3>1, HasEmpty
    <3>5. Handshake(c)
      BY <1>2 DEF ConnectionInv, SocketInv
    <3> QED
      BY <3>1, <3>2, <3>3, <3>4, <3>5 DEF Handshake
  <2>2. CASE phase'[c] \in {"idle", "connecting"}
    BY <2>2 DEF Handshake
  <2>3. phase[c] # "idle" \/ phase'[c] \in {"idle", "connecting"}
    BY <1>3
  <2> QED
    BY <1>3, <2>1, <2>2, <2>3
<1> QED
  BY <1>3, <1>4, <1>5, <1>6, <1>7, <1>8, ClientStep DEF ClientInv, SocketInv, MayRead

LEMMA ClientSocketClosedStep ==
    ASSUME RemoteInv, NEW c \in Connection, ClientSocketClosed(c)
    PROVE  RemoteInv'
<1> DEFINE s == clientSocket[c]
<1>1. TypeOK /\ s \in Socket
  BY DEF RemoteInv, TypeOK
<1>2. /\ clientClosed' = [clientClosed EXCEPT ![c] = TRUE]
      /\ toClient' = [toClient EXCEPT ![c][s] = <<>>]
      /\ BeginReconnecting(c)
      /\ UNCHANGED <<isDisposed, permanentFailure, clientSocket, protocolReconnecting,
                     protocolDisposed, controlMessage, broken, toServer, runnerVars, serverVars>>
  BY DEF ClientSocketClosed
<1>3. clientClosed' \in [Connection -> BOOLEAN] /\ \A d \in Connection : d # c => clientClosed'[d] = clientClosed[d]
  BY <1>1, <1>2 DEF TypeOK
<1>4. toClient \in [Connection -> [Socket -> Seq(ToClient)]] /\ <<>> \in Seq(ToClient)
  BY <1>1 DEF TypeOK, ToClient
<1>5. /\ toClient' \in [Connection -> [Socket -> Seq(ToClient)]]
      /\ toClient'[c][s] = <<>>
      /\ \A u \in Socket : u # s => toClient'[c][u] = toClient[c][u]
      /\ \A d \in Connection : d # c => toClient'[d] = toClient[d]
  BY <1>1, <1>2, <1>4, QueueSet
<1>6. MayRead(c)
  <2>1. \A n : ~Has(toClient'[c][s], n)
    BY <1>5, HasEmpty
  <2>2. /\ controlMessage' \in [Connection -> Seq([type : HandshakeMessage, socket : Socket])]
        /\ controlMessage' = controlMessage
    BY <1>1, <1>2 DEF TypeOK
  <2> QED
    BY <1>5, <2>1, <2>2 DEF MayRead
<1> QED
  BY <1>2, <1>3, <1>5, <1>6, BeginStep

LEMMA SocketTimeoutStep ==
    ASSUME RemoteInv, NEW c \in Connection, SocketTimeout(c)
    PROVE  RemoteInv'
<1>1. TypeOK
  BY DEF RemoteInv
<1>2. /\ BeginReconnecting(c)
      /\ UNCHANGED <<isDisposed, permanentFailure, clientSocket, protocolReconnecting, protocolDisposed,
                     clientClosed, controlMessage, broken, toServer, toClient, runnerVars, serverVars>>
  BY DEF SocketTimeout, protocolVars, netVars
<1>3. MayRead(c) /\ clientClosed' \in [Connection -> BOOLEAN]
  BY <1>1, <1>2, NothingRead DEF TypeOK
<1> QED
  BY <1>2, <1>3, BeginStep

LEMMA WaitEndsStep ==
    ASSUME RemoteInv, NEW c \in Connection, WaitEnds(c)
    PROVE  RemoteInv'
<1>1. TypeOK /\ ConnectionInv(c)
  BY DEF RemoteInv
<1>2. /\ phase[c] = "waiting"
      /\ UNCHANGED <<attempt, isDisposed, permanentFailure, clientSocket, protocolReconnecting,
                     protocolDisposed, clientClosed, controlMessage, broken, toServer, toClient,
                     runnerVars, serverVars>>
  BY DEF WaitEnds, protocolVars, netVars
<1>3. /\ phase' \in [Connection -> Phase] /\ lastEvent' \in [Connection -> Event]
      /\ \A d \in Connection : d # c => phase'[d] = phase[d] /\ lastEvent'[d] = lastEvent[d]
      /\ lastEvent'[c] \in {lastEvent[c], "running"}
      /\ \/ permanentFailure /\ phase'[c] = "idle"
         \/ phase'[c] = "connecting"
  <2>1. CASE permanentFailure
    BY <1>1, <2>1 DEF WaitEnds, TypeOK, Phase
  <2>2. CASE ~permanentFailure
    <3>1. phase' = [phase EXCEPT ![c] = "connecting"] /\ Fire({c}, "running")
      BY <2>2 DEF WaitEnds
    <3>2. /\ lastEvent' \in [Connection -> Event]
          /\ \A d \in Connection : lastEvent'[d] = IF d \in {c} /\ ~isDisposed[d] THEN "running" ELSE lastEvent[d]
      BY <1>1, <3>1, FireIs DEF Event
    <3> QED
      BY <1>1, <3>1, <3>2 DEF TypeOK, Phase
  <2> QED
    BY <2>1, <2>2
<1>4. UNCHANGED <<stage, serverSocket, serverClosed, gone, disconnectRunner1, disconnectRunner2>>
  BY <1>2 DEF serverVars, runnerVars
<1>5. TypeOK'
  BY <1>1, <1>2, <1>3, <1>4 DEF TypeOK
<1>6. MayRead(c)
  BY <1>1, <1>2, NothingRead
<1>7. Control(c)' /\ Unused(c)' /\ Behind(c)' /\ OkJoins(c)'
  BY <1>2, <1>6, ReadKeeps
<1>8. lastEvent'[c] # "gain"
  BY <1>1, <1>2, <1>3 DEF ConnectionInv, ClientInv, NoGain
<1>9. Loss(c)' /\ NoGain(c)' /\ GainJoins(c)' /\ Handshake(c)'
  BY <1>2, <1>3, <1>8 DEF Loss, NoGain, GainJoins, Handshake
<1>10. ClientInv(c)' /\ SocketInv(c)'
  BY <1>7, <1>9 DEF ClientInv, SocketInv
<1>11. /\ UNCHANGED <<serverVars, runnerVars>>
       /\ broken \subseteq broken' /\ (permanentFailure => permanentFailure')
       /\ \A d \in Connection : d # c =>
             /\ UNCHANGED <<phase[d], clientSocket[d], clientClosed[d], controlMessage[d],
                            isDisposed[d], toServer[d], toClient[d]>>
             /\ lastEvent'[d] \in {lastEvent[d], "failure"}
  BY <1>2, <1>3
<1> QED
  BY <1>5, <1>10, <1>11, ClientStep

\* A new socket: nothing was sent on it, and what the old one brought is flushed.
LEMMA ConnectStep ==
    ASSUME RemoteInv, NEW c \in Connection, Connect(c)
    PROVE  RemoteInv'
<1> DEFINE s == clientSocket[c] + 1
<1>1. TypeOK /\ ConnectionInv(c)
  BY DEF RemoteInv
<1>2. clientSocket[c] \in Socket /\ clientSocket[c] \in Nat /\ s \in Socket /\ s \in Nat /\ s > clientSocket[c]
  <2>1. clientSocket[c] \in Socket
    BY <1>1 DEF TypeOK
  <2>2. clientSocket[c] < MaxSocket
    BY DEF Connect
  <2> QED
    BY <2>1, <2>2, BoundAssumption DEF Socket
<1>3. /\ phase[c] = "connecting"
      /\ phase' = [phase EXCEPT ![c] = "authenticating"]
      /\ clientSocket' = [clientSocket EXCEPT ![c] = s]
      /\ protocolReconnecting' = [protocolReconnecting EXCEPT ![c] = TRUE]
      /\ protocolDisposed' = [protocolDisposed EXCEPT ![c] = FALSE]
      /\ clientClosed' = [clientClosed EXCEPT ![c] = FALSE]
      /\ controlMessage' = [controlMessage EXCEPT ![c] = <<>>]
      /\ broken' = broken \cup {<<c, clientSocket[c]>>}
      /\ UNCHANGED <<attempt, lastEvent, isDisposed, permanentFailure, toServer, toClient,
                     stage, serverSocket, serverClosed, gone, disconnectRunner1, disconnectRunner2>>
  BY DEF Connect, FlushedControl, runnerVars, serverVars
<1> HIDE DEF s
<1>4. TypeOK'
  <2>1. controlMessage' \in [Connection -> Seq([type : HandshakeMessage, socket : Socket])]
    <3> DEFINE M == [type : HandshakeMessage, socket : Socket]
    <3>1. <<>> \in Seq(M)
      OBVIOUS
    <3>2. controlMessage \in [Connection -> Seq(M)]
      BY <1>1 DEF TypeOK
    <3> HIDE DEF M
    <3>3. controlMessage' \in [Connection -> Seq(M)]
      BY <1>3, <3>1, <3>2
    <3> QED
      BY <3>3 DEF M
  <2>2. broken' \subseteq Connection \X Socket
    BY <1>1, <1>2, <1>3 DEF TypeOK
  <2>3. /\ phase' \in [Connection -> Phase] /\ clientSocket' \in [Connection -> Socket]
        /\ protocolReconnecting' \in [Connection -> BOOLEAN] /\ protocolDisposed' \in [Connection -> BOOLEAN]
        /\ clientClosed' \in [Connection -> BOOLEAN]
    BY <1>1, <1>2, <1>3 DEF TypeOK, Phase
  <2> QED
    BY <1>1, <1>3, <2>1, <2>2, <2>3 DEF TypeOK
<1>5. /\ phase'[c] = "authenticating" /\ clientSocket'[c] = s /\ ~clientClosed'[c] /\ controlMessage'[c] = <<>>
      /\ \A d \in Connection : d # c =>
            UNCHANGED <<phase[d], clientSocket[d], clientClosed[d], controlMessage[d]>>
  BY <1>1, <1>3 DEF TypeOK
<1>6. Control(c)' /\ Loss(c)' /\ NoGain(c)'
  BY <1>1, <1>3, <1>5 DEF ConnectionInv, ClientInv, Control, Loss, NoGain
<1>7. Unused(c)' /\ Behind(c)'
  <2>1. \A u \in Socket : u > s => u > clientSocket[c]
    BY <1>2 DEF Socket
  <2>2. Unused(c)'
    BY <1>1, <1>3, <1>5, <2>1 DEF ConnectionInv, SocketInv, Unused
  <2>3. serverSocket[c] <= clientSocket[c] /\ serverSocket[c] \in Nat
    BY <1>1 DEF ConnectionInv, SocketInv, Behind, TypeOK, Socket
  <2>4. Behind(c)'
    BY <1>2, <1>3, <1>5, <2>3 DEF Behind
  <2> QED
    BY <2>2, <2>4
<1>8. Handshake(c)'
  <2>1. stage'[c][s] = "WaitingForAuth" /\ toServer'[c][s] = <<>> /\ toClient'[c][s] = <<>>
    BY <1>1, <1>2, <1>3 DEF ConnectionInv, SocketInv, Unused
  <2> QED
    BY <1>5, <2>1, HasEmpty DEF Handshake
<1>9. \A u : Joined(c, u) => Joined(c, u)'
  BY <1>3, JoinedKept
<1>10. OkJoins(c)' /\ GainJoins(c)'
  BY <1>1, <1>3, <1>5, <1>9 DEF ConnectionInv, SocketInv, OkJoins, GainJoins
<1> QED
  BY <1>3, <1>4, <1>5, <1>6, <1>7, <1>8, <1>10, ClientStep DEF ClientInv, SocketInv, serverVars, runnerVars

LEMMA SendStep ==
    ASSUME RemoteInv, NEW c \in Connection, SendAuth(c) \/ SendConnectionType(c)
    PROVE  RemoteInv'
<1> DEFINE s == clientSocket[c]
<1>1. TypeOK /\ ConnectionInv(c) /\ s \in Socket
  BY DEF RemoteInv, TypeOK
<1>2. PICK msg \in ToServer :
         /\ ClientSends(c, msg)
         /\ \/ /\ phase[c] = "authenticating" /\ msg = "auth"
               /\ phase' = [phase EXCEPT ![c] = "awaitSign"]
            \/ /\ phase[c] = "signing" /\ msg = "connectionType"
               /\ phase' = [phase EXCEPT ![c] = "awaitOk"]
  BY DEF SendAuth, SendConnectionType, ToServer
<1>3. UNCHANGED <<attempt, lastEvent, isDisposed, permanentFailure, clientSocket, protocolReconnecting,
                  protocolDisposed, clientClosed, controlMessage, broken, toClient, runnerVars,
                  serverVars>>
  BY DEF SendAuth, SendConnectionType, protocolVars
<1>4. /\ toServer' \in [Connection -> [Socket -> Seq(ToServer)]]
      /\ \A d \in Connection : d # c => toServer'[d] = toServer[d]
      /\ \A u \in Socket : u # s => toServer'[c][u] = toServer[c][u]
      /\ \A n : Has(toServer'[c][s], n) => Has(toServer[c][s], n) \/ n = msg
  BY <1>1, <1>2, ClientSendsIs
<1>5. UNCHANGED <<stage, serverSocket, serverClosed, gone, disconnectRunner1, disconnectRunner2>>
  BY <1>3 DEF serverVars, runnerVars
<1>6. /\ phase' \in [Connection -> Phase]
      /\ \A d \in Connection : d # c => phase'[d] = phase[d]
      /\ \/ phase[c] = "authenticating" /\ msg = "auth" /\ phase'[c] = "awaitSign"
         \/ phase[c] = "signing" /\ msg = "connectionType" /\ phase'[c] = "awaitOk"
  BY <1>1, <1>2 DEF TypeOK, Phase
<1>7. TypeOK'
  BY <1>1, <1>3, <1>4, <1>5, <1>6 DEF TypeOK, ToServer
<1>8. MayRead(c)
  BY <1>1, <1>3, NothingRead
<1>9. Control(c)' /\ Unused(c)' /\ Behind(c)' /\ OkJoins(c)'
  BY <1>3, <1>4, <1>8, ReadKeeps
<1>10. Loss(c)' /\ NoGain(c)' /\ GainJoins(c)'
  BY <1>1, <1>3, <1>6 DEF ConnectionInv, ClientInv, Loss, NoGain, GainJoins
<1>11. Handshake(c)'
  <2>1. Handshake(c) /\ Len(<<>>) <= 1
    BY <1>1 DEF ConnectionInv, SocketInv
  <2>2. CASE phase[c] = "authenticating" /\ msg = "auth" /\ phase'[c] = "awaitSign"
    BY <1>3, <1>4, <1>5, <2>1, <2>2 DEF Handshake
  <2>3. CASE phase[c] = "signing" /\ msg = "connectionType" /\ phase'[c] = "awaitOk"
    BY <1>3, <1>5, <2>1, <2>3, HasEmpty DEF Handshake
  <2> QED
    BY <1>6, <2>2, <2>3
<1> QED
  BY <1>3, <1>4, <1>6, <1>7, <1>9, <1>10, <1>11, ClientStep DEF ClientInv, SocketInv

\* Only what comes in between two attempts is buffered.
LEMMA BufferControlMessageStep ==
    ASSUME RemoteInv, NEW c \in Connection, BufferControlMessage(c)
    PROVE  RemoteInv'
<1> DEFINE s == clientSocket[c]
           M == [type : HandshakeMessage, socket : Socket]
           r == [type |-> Head(toClient[c][s]), socket |-> s]
           p == Append(controlMessage[c], r)
           q == Tail(toClient[c][s])
<1>1. TypeOK /\ ConnectionInv(c) /\ s \in Socket
  BY DEF RemoteInv, TypeOK
<1>2. /\ ~Listening(c) /\ toClient[c][s] # <<>>
      /\ controlMessage' = [controlMessage EXCEPT ![c] = p]
      /\ toClient' = [toClient EXCEPT ![c][s] = q]
      /\ UNCHANGED <<loopVars, clientSocket, protocolReconnecting, protocolDisposed,
                     clientClosed, broken, toServer, runnerVars, serverVars>>
  BY DEF BufferControlMessage
<1>3. UNCHANGED <<phase, attempt, lastEvent, isDisposed, permanentFailure, stage, serverSocket,
                  serverClosed, gone, disconnectRunner1, disconnectRunner2>>
  BY <1>2 DEF loopVars, serverVars, runnerVars
<1>4. toClient \in [Connection -> [Socket -> Seq(ToClient)]] /\ controlMessage \in [Connection -> Seq(M)]
  BY <1>1 DEF TypeOK, ToClient
<1>5. /\ q \in Seq(ToClient) /\ Head(toClient[c][s]) \in ToClient
      /\ \A n : Has(q, n) => Has(toClient[c][s], n)
  BY <1>1, <1>2, <1>4, HasTail
<1>6. r \in M /\ r.socket = s
  BY <1>1, <1>5 DEF ToClient, HandshakeMessage
<1> HIDE DEF M, r
<1>7. /\ p \in Seq(M)
      /\ \A n : Has(p, n) => Has(controlMessage[c], n) \/ n = r
  BY <1>4, <1>6, HasAppend
<1> HIDE DEF p, q
<1>8. /\ toClient' \in [Connection -> [Socket -> Seq(ToClient)]]
      /\ toClient'[c][s] = q
      /\ \A u \in Socket : u # s => toClient'[c][u] = toClient[c][u]
      /\ \A d \in Connection : d # c => toClient'[d] = toClient[d]
  BY <1>1, <1>2, <1>4, <1>5, QueueSet
<1>9. /\ controlMessage' \in [Connection -> Seq(M)] /\ controlMessage'[c] = p
      /\ \A d \in Connection : d # c => controlMessage'[d] = controlMessage[d]
  BY <1>2, <1>4, <1>7
<1>10. TypeOK'
  BY <1>1, <1>2, <1>3, <1>8, <1>9 DEF TypeOK, ToClient, M
<1>11. Control(c)'
  <2>1. ASSUME NEW i \in DOMAIN p PROVE p[i].socket = s
    <3>1. Has(controlMessage[c], p[i]) \/ p[i] = r
      BY <1>7, <2>1 DEF Has
    <3>2. \A j \in DOMAIN controlMessage[c] : controlMessage[c][j].socket = s
      BY <1>1 DEF ConnectionInv, ClientInv, Control
    <3> QED
      BY <1>6, <3>1, <3>2 DEF Has
  <2> QED
    BY <1>2, <1>9, <2>1 DEF Control
<1>12. Loss(c)' /\ NoGain(c)' /\ GainJoins(c)' /\ Behind(c)'
  BY <1>1, <1>2, <1>3 DEF ConnectionInv, ClientInv, SocketInv, Loss, NoGain, GainJoins, Joined, Broken, Behind
<1>13. Unused(c)'
  <2>1. \A u \in Socket : u > s => u # s
    BY <1>1 DEF Socket
  <2> QED
    BY <1>1, <1>2, <1>3, <1>8, <2>1 DEF ConnectionInv, SocketInv, Unused
<1>14. OkJoins(c)'
  <2>1. \A u \in Socket : Has(toClient'[c][u], "ok") => Has(toClient[c][u], "ok")
    BY <1>5, <1>8
  <2> QED
    BY <1>1, <1>2, <1>3, <2>1 DEF ConnectionInv, SocketInv, OkJoins, Joined, Broken
<1>15. Handshake(c)'
  <2>1. phase[c] \notin {"authenticating", "awaitSign", "signing", "awaitOk"}
    BY <1>1, <1>2 DEF ConnectionInv, SocketInv, Handshake, Listening
  <2> QED
    BY <1>3, <2>1 DEF Handshake
<1> QED
  BY <1>2, <1>3, <1>8, <1>9, <1>10, <1>11, <1>12, <1>13, <1>14, <1>15, ClientStep
     DEF ClientInv, SocketInv

LEMMA DisposeStep ==
    ASSUME RemoteInv, NEW c \in Connection, Dispose(c)
    PROVE  RemoteInv'
<1> DEFINE s == clientSocket[c]
<1>1. TypeOK /\ ConnectionInv(c) /\ s \in Socket
  BY DEF RemoteInv, TypeOK
<1>2. /\ isDisposed' = [isDisposed EXCEPT ![c] = TRUE]
      /\ ClientSends(c, "Disconnect")
      /\ protocolDisposed' = [protocolDisposed EXCEPT ![c] = TRUE]
      /\ broken' = broken \cup {<<c, s>>}
      /\ UNCHANGED <<phase, attempt, lastEvent, permanentFailure, clientSocket,
                     protocolReconnecting, clientClosed, controlMessage, toClient,
                     runnerVars, serverVars>>
  BY DEF Dispose
<1>3. UNCHANGED <<stage, serverSocket, serverClosed, gone, disconnectRunner1, disconnectRunner2>>
  BY <1>2 DEF serverVars, runnerVars
<1>4. /\ toServer' \in [Connection -> [Socket -> Seq(ToServer)]]
      /\ \A d \in Connection : d # c => toServer'[d] = toServer[d]
      /\ \A u \in Socket : u # s => toServer'[c][u] = toServer[c][u]
      /\ \A n : Has(toServer'[c][s], n) => Has(toServer[c][s], n) \/ n = "Disconnect"
  BY <1>1, <1>2, ClientSendsIs DEF ToServer
<1>5. /\ isDisposed' \in [Connection -> BOOLEAN] /\ protocolDisposed' \in [Connection -> BOOLEAN]
      /\ isDisposed'[c] /\ \A d \in Connection : d # c => isDisposed'[d] = isDisposed[d]
      /\ broken' \subseteq Connection \X Socket
  <2>1. broken' \subseteq Connection \X Socket
    BY <1>1, <1>2 DEF TypeOK
  <2> QED
    BY <1>1, <1>2, <2>1 DEF TypeOK
<1>6. TypeOK'
  BY <1>1, <1>2, <1>3, <1>4, <1>5 DEF TypeOK, ToServer
<1>7. MayRead(c)
  BY <1>1, <1>2, NothingRead
<1>8. Control(c)' /\ Unused(c)' /\ Behind(c)' /\ OkJoins(c)'
  BY <1>2, <1>4, <1>7, ReadKeeps
<1>9. Loss(c)' /\ NoGain(c)' /\ GainJoins(c)'
  BY <1>1, <1>2, <1>5 DEF ConnectionInv, ClientInv, Loss, NoGain, GainJoins
<1>10. Handshake(c)'
  <2>1. Handshake(c)
    BY <1>1 DEF ConnectionInv, SocketInv
  <2> QED
    BY <1>2, <1>3, <1>4, <2>1 DEF Handshake
<1> QED
  BY <1>2, <1>4, <1>5, <1>6, <1>8, <1>9, <1>10, ClientStep DEF ClientInv, SocketInv

LEMMA BreakStep ==
    ASSUME RemoteInv, NEW c \in Connection, Break(c)
    PROVE  RemoteInv'
<1>1. PICK s \in {clientSocket[c], serverSocket[c]} : broken' = broken \cup {<<c, s>>}
  BY DEF Break
<1>2. UNCHANGED <<phase, attempt, lastEvent, isDisposed, permanentFailure, clientSocket,
                  protocolReconnecting, protocolDisposed, clientClosed, controlMessage, toServer,
                  toClient, stage, serverSocket, serverClosed, gone, disconnectRunner1, disconnectRunner2>>
  BY DEF Break, loopVars, protocolVars, serverVars, runnerVars
<1>3. TypeOK'
  <2>1. TypeOK
    BY DEF RemoteInv
  <2>2. s \in Socket
    BY <1>1, <2>1 DEF TypeOK
  <2>3. broken' \subseteq Connection \X Socket
    BY <1>1, <2>1, <2>2 DEF TypeOK
  <2> QED
    BY <1>2, <2>1, <2>3 DEF TypeOK
<1>4. \A d \in Connection : ConnectionInv(d)'
  BY <1>1, <1>2, OtherKept DEF RemoteInv
<1> QED
  BY <1>3, <1>4 DEF RemoteInv

-----------------------------------------------------------------------------
(* The server *)

\* What the client of d does not notice: messages to the server are read or lost.
LEMMA QuietKeeps ==
    ASSUME RemoteInv, NEW d \in Connection, UNCHANGED <<loopVars, protocolVars>>,
           UNCHANGED <<stage[d], toClient[d], serverSocket[d]>>,
           \A u \in Socket : /\ toServer[d][u] = <<>> => toServer'[d][u] = <<>>
                             /\ \A n : Has(toServer'[d][u], n) => Has(toServer[d][u], n),
           \A u : Joined(d, u) => Joined(d, u)'
    PROVE  SocketInv(d)'
<1>1. UNCHANGED <<phase, lastEvent, isDisposed, clientSocket, controlMessage>>
  BY DEF loopVars, protocolVars
<1>2. SocketInv(d) /\ clientSocket[d] \in Socket
  BY DEF RemoteInv, TypeOK, ConnectionInv
<1>3. Unused(d)' /\ Behind(d)'
  BY <1>1, <1>2 DEF SocketInv, Unused, Behind
<1>4. Handshake(d)'
  BY <1>1, <1>2 DEF SocketInv, Handshake
<1>5. OkJoins(d)'
  BY <1>1, <1>2 DEF SocketInv, OkJoins
<1>6. GainJoins(d)'
  BY <1>1, <1>2 DEF SocketInv, GainJoins
<1> QED
  BY <1>3, <1>4, <1>5, <1>6 DEF SocketInv

\* A socket that carries something was made.
LEMMA UsedSocket ==
    ASSUME RemoteInv, NEW c \in Connection, NEW s \in Socket,
           toServer[c][s] # <<>> \/ stage[c][s] # "WaitingForAuth"
    PROVE  s <= clientSocket[c] /\ \A u \in Socket : u > clientSocket[c] => u # s
<1>1. clientSocket[c] \in Nat /\ s \in Nat /\ ~(s > clientSocket[c])
  BY DEF RemoteInv, TypeOK, Socket, ConnectionInv, SocketInv, Unused
<1> QED
  BY <1>1

LEMMA ServerDropsDisconnectStep ==
    ASSUME RemoteInv, NEW c \in Connection, NEW s \in Socket, ServerDropsDisconnect(c, s)
    PROVE  RemoteInv'
<1>1. TypeOK /\ ConnectionInv(c)
  BY DEF RemoteInv
<1>2. /\ toServer[c][s] # <<>> /\ toServer' = [toServer EXCEPT ![c][s] = Tail(@)]
      /\ UNCHANGED <<broken, toClient, serverVars, runnerVars, loopVars, protocolVars>>
  BY DEF ServerDropsDisconnect
<1>3. /\ toServer' \in [Connection -> [Socket -> Seq(ToServer)]]
      /\ \A d \in Connection : d # c => toServer'[d] = toServer[d]
      /\ \A u \in Socket : u # s => toServer'[c][u] = toServer[c][u]
      /\ \A n : Has(toServer'[c][s], n) => Has(toServer[c][s], n)
  BY <1>1, <1>2, ServerReadsIs
<1>4. UNCHANGED <<phase, attempt, lastEvent, isDisposed, permanentFailure, clientSocket,
                  protocolReconnecting, protocolDisposed, clientClosed, controlMessage,
                  stage, serverSocket, serverClosed, gone, disconnectRunner1, disconnectRunner2>>
  BY <1>2 DEF loopVars, protocolVars, serverVars, runnerVars
<1>5. TypeOK'
  BY <1>1, <1>2, <1>3, <1>4 DEF TypeOK, ToServer
<1>6. \A u : Joined(c, u) => Joined(c, u)'
  BY <1>2, <1>4, JoinedKept
<1>7. SocketInv(c)'
  BY <1>2, <1>3, <1>4, <1>6, QuietKeeps
<1>8. Grace(c)'
  BY <1>1, <1>2, <1>4 DEF ConnectionInv, Grace, Broken
<1> QED
  BY <1>2, <1>3, <1>4, <1>5, <1>7, <1>8, ServerStep

LEMMA ServerSocketClosedStep ==
    ASSUME RemoteInv, NEW c \in Connection, ServerSocketClosed(c)
    PROVE  RemoteInv'
<1> DEFINE s == serverSocket[c]
<1>1. TypeOK /\ ConnectionInv(c) /\ s \in Socket
  BY DEF RemoteInv, TypeOK
<1>2. /\ Broken(c, s)
      /\ serverClosed' = [serverClosed EXCEPT ![c] = TRUE]
      /\ disconnectRunner1' = [disconnectRunner1 EXCEPT ![c] = TRUE]
      /\ toServer' = [toServer EXCEPT ![c][s] = <<>>]
      /\ UNCHANGED <<disconnectRunner2, stage, serverSocket, gone, broken, toClient,
                     loopVars, protocolVars>>
  BY DEF ServerSocketClosed
<1>3. toServer \in [Connection -> [Socket -> Seq(ToServer)]] /\ <<>> \in Seq(ToServer)
  BY <1>1 DEF TypeOK, ToServer
<1>4. /\ toServer' \in [Connection -> [Socket -> Seq(ToServer)]] /\ toServer'[c][s] = <<>>
      /\ \A u \in Socket : u # s => toServer'[c][u] = toServer[c][u]
      /\ \A d \in Connection : d # c => toServer'[d] = toServer[d]
  BY <1>1, <1>2, <1>3, QueueSet
<1>5. UNCHANGED <<phase, attempt, lastEvent, isDisposed, permanentFailure, clientSocket,
                  protocolReconnecting, protocolDisposed, clientClosed, controlMessage>>
  BY <1>2 DEF loopVars, protocolVars
<1>6. /\ serverClosed' \in [Connection -> BOOLEAN] /\ serverClosed'[c]
      /\ disconnectRunner1' \in [Connection -> BOOLEAN]
      /\ \A d \in Connection : d # c =>
            serverClosed'[d] = serverClosed[d] /\ disconnectRunner1'[d] = disconnectRunner1[d]
  BY <1>1, <1>2 DEF TypeOK
<1>7. TypeOK'
  BY <1>1, <1>2, <1>4, <1>5, <1>6 DEF TypeOK, ToServer
<1>8. \A u : Joined(c, u) => Joined(c, u)'
  BY <1>2, JoinedKept
<1>9. SocketInv(c)'
  BY <1>2, <1>4, <1>8, HasEmpty, QuietKeeps
<1>10. Grace(c)'
  BY <1>2, <1>6 DEF Grace, Broken
<1> QED
  BY <1>2, <1>4, <1>6, <1>7, <1>9, <1>10, ServerStep

\* The server forgets the connection, and its socket ends.
LEMMA CleanStep ==
    ASSUME RemoteInv, NEW c \in Connection, CleanResources(c),
           toServer' \in [Connection -> [Socket -> Seq(ToServer)]],
           \A d \in Connection : d # c => toServer'[d] = toServer[d],
           \A u \in Socket : /\ toServer[c][u] = <<>> => toServer'[c][u] = <<>>
                             /\ \A n : Has(toServer'[c][u], n) => Has(toServer[c][u], n)
    PROVE  RemoteInv'
<1>1. TypeOK /\ ConnectionInv(c) /\ serverSocket[c] \in Socket
  BY DEF RemoteInv, TypeOK
<1>2. /\ gone' = [gone EXCEPT ![c] = TRUE]
      /\ disconnectRunner1' = [disconnectRunner1 EXCEPT ![c] = FALSE]
      /\ disconnectRunner2' = [disconnectRunner2 EXCEPT ![c] = FALSE]
      /\ broken' = broken \cup {<<c, serverSocket[c]>>}
      /\ UNCHANGED <<stage, serverSocket, serverClosed, toClient, loopVars, protocolVars>>
  BY DEF CleanResources
<1>3. UNCHANGED <<phase, attempt, lastEvent, isDisposed, permanentFailure, clientSocket,
                  protocolReconnecting, protocolDisposed, clientClosed, controlMessage>>
  BY <1>2 DEF loopVars, protocolVars
<1>4. /\ gone' \in [Connection -> BOOLEAN]
      /\ disconnectRunner1' \in [Connection -> BOOLEAN] /\ ~disconnectRunner1'[c]
      /\ disconnectRunner2' \in [Connection -> BOOLEAN] /\ ~disconnectRunner2'[c]
      /\ \A d \in Connection : d # c =>
            UNCHANGED <<gone[d], disconnectRunner1[d], disconnectRunner2[d]>>
  BY <1>1, <1>2 DEF TypeOK
<1>5. broken' \subseteq Connection \X Socket
  BY <1>1, <1>2 DEF TypeOK
<1>6. TypeOK'
  BY <1>1, <1>2, <1>3, <1>4, <1>5 DEF TypeOK, ToServer
<1>7. \A u : Joined(c, u) => Joined(c, u)'
  BY <1>2 DEF Joined, Broken
<1>8. SocketInv(c)'
  BY <1>2, <1>7, QuietKeeps
<1>9. Grace(c)'
  BY <1>4 DEF Grace
<1> QED
  BY <1>2, <1>4, <1>6, <1>8, <1>9, ServerStep

LEMMA GraceTimeExpiresStep ==
    ASSUME RemoteInv, NEW c \in Connection, GraceTimeExpires(c)
    PROVE  RemoteInv'
<1>1. CleanResources(c) /\ toServer' = toServer
  BY DEF GraceTimeExpires
<1>2. toServer' \in [Connection -> [Socket -> Seq(ToServer)]]
  BY <1>1 DEF RemoteInv, TypeOK, ToServer
<1> QED
  BY <1>1, <1>2, CleanStep

LEMMA ServerReceiveDisconnectStep ==
    ASSUME RemoteInv, NEW c \in Connection, ServerReceiveDisconnect(c)
    PROVE  RemoteInv'
<1> DEFINE s == serverSocket[c]
<1>1. TypeOK /\ s \in Socket
  BY DEF RemoteInv, TypeOK
<1>2. CleanResources(c) /\ toServer[c][s] # <<>> /\ toServer' = [toServer EXCEPT ![c][s] = Tail(@)]
  BY DEF ServerReceiveDisconnect
<1>3. /\ toServer' \in [Connection -> [Socket -> Seq(ToServer)]]
      /\ \A d \in Connection : d # c => toServer'[d] = toServer[d]
      /\ \A u \in Socket : u # s => toServer'[c][u] = toServer[c][u]
      /\ \A n : Has(toServer'[c][s], n) => Has(toServer[c][s], n)
  BY <1>1, <1>2, ServerReadsIs
<1> QED
  BY <1>2, <1>3, CleanStep

LEMMA ServerRestartStep ==
    ASSUME RemoteInv, ServerRestart
    PROVE  RemoteInv'
<1>1. TypeOK
  BY DEF RemoteInv
<1>2. /\ gone' = [c \in Connection |-> TRUE]
      /\ disconnectRunner1' = [c \in Connection |-> FALSE]
      /\ disconnectRunner2' = [c \in Connection |-> FALSE]
      /\ broken' = broken \cup {p \in Connection \X Socket : p[2] <= clientSocket[p[1]]}
      /\ toServer' = [c \in Connection |-> [s \in Socket |-> <<>>]]
      /\ UNCHANGED <<toClient, stage, serverSocket, serverClosed, loopVars, protocolVars>>
  BY DEF ServerRestart
<1>3. UNCHANGED <<phase, attempt, lastEvent, isDisposed, permanentFailure, clientSocket,
                  protocolReconnecting, protocolDisposed, clientClosed, controlMessage>>
  BY <1>2 DEF loopVars, protocolVars
<1>4. broken' \subseteq Connection \X Socket
  BY <1>1, <1>2 DEF TypeOK
<1>5. toServer' \in [Connection -> [Socket -> Seq(ToServer)]]
  BY <1>2
<1>6. TypeOK'
  BY <1>1, <1>2, <1>3, <1>4, <1>5 DEF TypeOK, ToServer
<1>7. ASSUME NEW d \in Connection PROVE ConnectionInv(d)'
  <2>1. ConnectionInv(d) /\ serverSocket[d] \in Socket
    BY <1>1 DEF RemoteInv, TypeOK
  <2>2. <<d, serverSocket[d]>> \in broken'
    BY <1>2, <2>1 DEF ConnectionInv, SocketInv, Behind
  <2>3. \A u : Joined(d, u) => Joined(d, u)'
    BY <1>2, <2>2 DEF Joined, Broken
  <2>4. SocketInv(d)'
    BY <1>2, <2>3, HasEmpty, QuietKeeps
  <2>5. Grace(d)'
    BY <1>2 DEF Grace
  <2>6. ClientInv(d)'
    BY <1>3, <2>1 DEF ConnectionInv, ClientInv, Control, Loss, NoGain
  <2> QED
    BY <2>4, <2>5, <2>6 DEF ConnectionInv
<1> QED
  BY <1>6, <1>7 DEF RemoteInv

\* The handshake of one socket goes on.
LEMMA StageIs ==
    ASSUME TypeOK, NEW c \in Connection, NEW s \in Socket, NEW v \in Stage,
           stage' = [stage EXCEPT ![c][s] = v]
    PROVE  /\ stage' \in [Connection -> [Socket -> Stage]]
           /\ stage'[c][s] = v
           /\ \A u \in Socket : u # s => stage'[c][u] = stage[c][u]
           /\ \A d \in Connection : d # c => stage'[d] = stage[d]
  BY DEF TypeOK, Stage

\* What a message of the handshake leaves on the other sockets.
LEMMA HandshakeKeeps ==
    ASSUME RemoteInv, NEW c \in Connection, NEW s \in Socket,
           toServer[c][s] # <<>> \/ stage[c][s] # "WaitingForAuth",
           UNCHANGED <<loopVars, protocolVars>>,
           \A u \in Socket : u # s => UNCHANGED <<toServer[c][u], toClient[c][u], stage[c][u]>>
    PROVE  Unused(c)' /\ (s # clientSocket[c] => Handshake(c)')
<1>1. UNCHANGED <<phase, clientSocket, controlMessage>>
  BY DEF loopVars, protocolVars
<1>2. Unused(c) /\ Handshake(c) /\ clientSocket[c] \in Socket
  BY DEF RemoteInv, TypeOK, ConnectionInv, SocketInv
<1>3. Unused(c)'
  BY <1>1, <1>2, UsedSocket DEF Unused
<1>4. ASSUME s # clientSocket[c] PROVE Handshake(c)'
  BY <1>1, <1>2, <1>4 DEF Handshake
<1> QED
  BY <1>3, <1>4

LEMMA ServerReceiveAuthStep ==
    ASSUME RemoteInv, NEW c \in Connection, NEW s \in Socket, ServerReceiveAuth(c, s)
    PROVE  RemoteInv'
<1>1. TypeOK /\ ConnectionInv(c)
  BY DEF RemoteInv
<1>2. /\ stage[c][s] = "WaitingForAuth"
      /\ toServer[c][s] # <<>> /\ Head(toServer[c][s]) = "auth"
      /\ toServer' = [toServer EXCEPT ![c][s] = Tail(@)]
      /\ stage' = [stage EXCEPT ![c][s] = "WaitingForConnectionType"]
      /\ ServerSends(c, s, "sign")
      /\ UNCHANGED <<broken, serverSocket, serverClosed, gone, runnerVars, loopVars, protocolVars>>
  BY DEF ServerReceiveAuth
<1>3. /\ toServer' \in [Connection -> [Socket -> Seq(ToServer)]]
      /\ \A d \in Connection : d # c => toServer'[d] = toServer[d]
      /\ \A u \in Socket : u # s => toServer'[c][u] = toServer[c][u]
      /\ \A n : Has(toServer'[c][s], n) => Has(toServer[c][s], n)
      /\ Has(toServer[c][s], "auth")
  <2>1. /\ toServer[c][s] # <<>> /\ toServer' = [toServer EXCEPT ![c][s] = Tail(@)]
        /\ Head(toServer[c][s]) = "auth"
    BY <1>2
  <2>2. /\ toServer' \in [Connection -> [Socket -> Seq(ToServer)]]
        /\ \A d \in Connection : d # c => toServer'[d] = toServer[d]
        /\ \A u \in Socket : u # s => toServer'[c][u] = toServer[c][u]
        /\ \A n : Has(toServer'[c][s], n) => Has(toServer[c][s], n)
        /\ Has(toServer[c][s], Head(toServer[c][s]))
    BY <1>1, <2>1, ServerReadsIs
  <2> QED
    BY <2>1, <2>2
<1>4. /\ toClient' \in [Connection -> [Socket -> Seq(ToClient)]]
      /\ \A d \in Connection : d # c => toClient'[d] = toClient[d]
      /\ \A u \in Socket : u # s => toClient'[c][u] = toClient[c][u]
      /\ \A n : Has(toClient'[c][s], n) => Has(toClient[c][s], n) \/ n = "sign"
      /\ Len(toClient'[c][s]) <= Len(toClient[c][s]) + 1
  <2>1. "sign" \in ToClient /\ ServerSends(c, s, "sign")
    BY <1>2 DEF ToClient
  <2> QED
    BY <1>1, <2>1, ServerSendsIs
<1>5. /\ stage' \in [Connection -> [Socket -> Stage]]
      /\ stage'[c][s] = "WaitingForConnectionType"
      /\ \A u \in Socket : u # s => stage'[c][u] = stage[c][u]
      /\ \A d \in Connection : d # c => stage'[d] = stage[d]
  BY <1>1, <1>2, StageIs DEF Stage
<1>6. UNCHANGED <<phase, attempt, lastEvent, isDisposed, permanentFailure, clientSocket,
                  protocolReconnecting, protocolDisposed, clientClosed, controlMessage,
                  disconnectRunner1, disconnectRunner2>>
  BY <1>2 DEF loopVars, protocolVars, runnerVars
<1>7. TypeOK'
  BY <1>1, <1>2, <1>3, <1>4, <1>5, <1>6 DEF TypeOK, ToServer, ToClient, Stage
<1>8. \A u : Joined(c, u) => Joined(c, u)'
  BY <1>2, JoinedKept
<1>9. Unused(c)' /\ (s # clientSocket[c] => Handshake(c)')
  <2>1. \A u \in Socket : u # s => UNCHANGED <<toServer[c][u], toClient[c][u], stage[c][u]>>
    BY <1>3, <1>4, <1>5
  <2>2. toServer[c][s] # <<>> /\ UNCHANGED <<loopVars, protocolVars>>
    BY <1>2
  <2> QED
    BY <2>1, <2>2, HandshakeKeeps
<1>10. ASSUME s = clientSocket[c] PROVE Handshake(c)'
  <2>1. Handshake(c)
    BY <1>1 DEF ConnectionInv, SocketInv
  <2>2. phase[c] \notin {"authenticating", "signing", "awaitOk"}
    BY <1>2, <1>3, <1>10, <2>1 DEF Handshake
  <2>3. phase[c] = "awaitSign" => Len(toClient'[c][s]) <= 1
    <3>1. phase[c] = "awaitSign" => toClient[c][s] = <<>>
      BY <1>2, <1>10, <2>1 DEF Handshake
    <3> QED
      BY <1>4, <3>1
  <2> QED
    BY <1>3, <1>5, <1>6, <1>10, <2>1, <2>2, <2>3 DEF Handshake
<1>11. OkJoins(c)'
  <2>1. \A u \in Socket : Has(toClient'[c][u], "ok") => Has(toClient[c][u], "ok")
    BY <1>4
  <2> QED
    BY <1>1, <1>8, <2>1 DEF ConnectionInv, SocketInv, OkJoins
<1>12. Behind(c)' /\ GainJoins(c)' /\ Grace(c)'
  BY <1>1, <1>2, <1>6 DEF ConnectionInv, SocketInv, Behind, GainJoins, Grace, Joined, Broken
<1> QED
  BY <1>2, <1>3, <1>4, <1>5, <1>6, <1>7, <1>9, <1>10, <1>11, <1>12, ServerStep DEF SocketInv

\* No grace timer is started by the two timers of each connection.
NoneStarted(timers) == \A d \in Connection :
    /\ timers[d][1] \in BOOLEAN /\ timers[d][2] \in BOOLEAN
    /\ timers[d][1] \/ timers[d][2] => disconnectRunner1[d] \/ disconnectRunner2[d]

\* The message that is read is one of the handshake.
LEMMA MessageRead ==
    ASSUME TypeOK, NEW c \in Connection, NEW s \in Socket, NEW m, toServer[c][s] # <<>>,
           Head(toServer[c][s]) = m, toServer' = [toServer EXCEPT ![c][s] = Tail(@)]
    PROVE  /\ toServer' \in [Connection -> [Socket -> Seq(ToServer)]]
           /\ \A d \in Connection : d # c => toServer'[d] = toServer[d]
           /\ \A u \in Socket : u # s => toServer'[c][u] = toServer[c][u]
           /\ \A n : Has(toServer'[c][s], n) => Has(toServer[c][s], n)
           /\ Has(toServer[c][s], m)
<1>1. /\ toServer' \in [Connection -> [Socket -> Seq(ToServer)]]
      /\ \A d \in Connection : d # c => toServer'[d] = toServer[d]
      /\ \A u \in Socket : u # s => toServer'[c][u] = toServer[c][u]
      /\ \A n : Has(toServer'[c][s], n) => Has(toServer[c][s], n)
      /\ Has(toServer[c][s], Head(toServer[c][s]))
  BY ServerReadsIs
<1> QED
  BY <1>1

\* The connection is accepted on the new socket, and the old one ends; or the server does
\* not know it, and the new one ends.
LEMMA AcceptStep ==
    ASSUME RemoteInv, NEW c \in Connection, NEW s \in Socket, NEW timers, NoneStarted(timers),
           Accept(c, s, timers),
           toServer[c][s] # <<>> \/ stage[c][s] # "WaitingForAuth",
           toServer' \in [Connection -> [Socket -> Seq(ToServer)]],
           \A d \in Connection : d # c => toServer'[d] = toServer[d],
           \A u \in Socket : u # s => toServer'[c][u] = toServer[c][u],
           s = clientSocket[c] => phase[c] \notin {"authenticating", "awaitSign", "signing"}
    PROVE  RemoteInv'
<1>1. TypeOK /\ ConnectionInv(c) /\ serverSocket[c] \in Socket
  BY DEF RemoteInv, TypeOK
<1>2. PICK msg \in {"ok", "error"} :
        /\ stage' = [stage EXCEPT ![c][s] = "Done"]
        /\ ServerSends(c, s, msg)
        /\ \/ /\ gone[c] /\ msg = "error" /\ broken' = broken \cup {<<c, s>>}
              /\ UNCHANGED <<serverSocket, serverClosed>>
           \/ /\ ~gone[c] /\ broken' = broken \cup {<<c, serverSocket[c]>>}
              /\ serverSocket' = [serverSocket EXCEPT ![c] = s]
              /\ serverClosed' = [serverClosed EXCEPT ![c] = FALSE]
        /\ UNCHANGED <<gone, loopVars, protocolVars>>
  BY DEF Accept, ReplacedSocket
<1>4. /\ toClient' \in [Connection -> [Socket -> Seq(ToClient)]]
      /\ \A d \in Connection : d # c => toClient'[d] = toClient[d]
      /\ \A u \in Socket : u # s => toClient'[c][u] = toClient[c][u]
      /\ \A n : Has(toClient'[c][s], n) => Has(toClient[c][s], n) \/ n = msg
  <2>1. msg \in ToClient /\ ServerSends(c, s, msg)
    BY <1>2 DEF ToClient
  <2> QED
    BY <1>1, <2>1, ServerSendsIs
<1>5. /\ stage' \in [Connection -> [Socket -> Stage]]
      /\ stage'[c][s] = "Done"
      /\ \A u \in Socket : u # s => stage'[c][u] = stage[c][u]
      /\ \A d \in Connection : d # c => stage'[d] = stage[d]
  BY <1>1, <1>2, StageIs DEF Stage
<1>6. UNCHANGED <<phase, attempt, lastEvent, isDisposed, permanentFailure, clientSocket,
                  protocolReconnecting, protocolDisposed, clientClosed, controlMessage>>
  BY <1>2 DEF loopVars, protocolVars
<1>7. /\ disconnectRunner1' \in [Connection -> BOOLEAN]
      /\ disconnectRunner2' \in [Connection -> BOOLEAN]
      /\ \A d \in Connection :
            disconnectRunner1'[d] \/ disconnectRunner2'[d] => disconnectRunner1[d] \/ disconnectRunner2[d]
      /\ ~gone[c] => ~disconnectRunner1'[c] /\ ~disconnectRunner2'[c]
  <2> DEFINE after == [d \in Connection |->
                         IF d = c /\ ~gone[c] THEN Cancelled(d, timers[d]) ELSE timers[d]]
  <2>1. /\ disconnectRunner1' = [d \in Connection |-> after[d][1]]
        /\ disconnectRunner2' = [d \in Connection |-> after[d][2]]
    BY DEF Accept, SetRunners
  <2>2. ASSUME NEW d \in Connection
        PROVE  /\ after[d][1] \in BOOLEAN /\ after[d][2] \in BOOLEAN
               /\ after[d][1] \/ after[d][2] => disconnectRunner1[d] \/ disconnectRunner2[d]
               /\ d = c /\ ~gone[c] => ~after[d][1] /\ ~after[d][2]
    <3>1. CASE d = c /\ ~gone[c]
      BY <3>1 DEF Cancelled
    <3>2. CASE ~(d = c /\ ~gone[c])
      <4>1. after[d] = timers[d]
        BY <3>2
      <4> QED
        BY <3>2, <4>1 DEF NoneStarted
    <3> QED
      BY <3>1, <3>2
  <2> HIDE DEF after
  <2> QED
    BY <2>1, <2>2
<1>8. /\ broken \subseteq broken' /\ broken' \subseteq Connection \X Socket
      /\ serverSocket' \in [Connection -> Socket] /\ serverClosed' \in [Connection -> BOOLEAN]
      /\ \A d \in Connection : d # c => UNCHANGED <<serverSocket[d], serverClosed[d]>>
      /\ ~gone[c] => serverSocket'[c] = s /\ <<c, serverSocket[c]>> \in broken'
      /\ gone[c] => UNCHANGED <<serverSocket, serverClosed>>
  <2>1. broken' \subseteq Connection \X Socket
    BY <1>1, <1>2 DEF TypeOK
  <2>2. /\ serverSocket' \in [Connection -> Socket] /\ serverClosed' \in [Connection -> BOOLEAN]
        /\ \A d \in Connection : d # c => UNCHANGED <<serverSocket[d], serverClosed[d]>>
        /\ ~gone[c] => serverSocket'[c] = s
    <3>1. serverSocket \in [Connection -> Socket] /\ serverClosed \in [Connection -> BOOLEAN]
      BY <1>1 DEF TypeOK
    <3>2. CASE gone[c]
      BY <1>2, <3>1, <3>2
    <3>3. CASE ~gone[c]
      <4>1. /\ serverSocket' = [serverSocket EXCEPT ![c] = s]
            /\ serverClosed' = [serverClosed EXCEPT ![c] = FALSE]
        BY <1>2, <3>3
      <4> QED
        BY <3>1, <3>3, <4>1
    <3> QED
      BY <3>2, <3>3
  <2> QED
    BY <1>2, <2>1, <2>2
<1>9. TypeOK'
  BY <1>1, <1>2, <1>4, <1>5, <1>6, <1>7, <1>8 DEF TypeOK, ToServer, ToClient
<1>10. /\ \A u : Joined(c, u) => Joined(c, u)'
       /\ msg = "ok" => Joined(c, s)'
  BY <1>2, <1>8 DEF Joined, Broken
<1>11. Unused(c)' /\ (s # clientSocket[c] => Handshake(c)')
  <2>1. \A u \in Socket : u # s => UNCHANGED <<toServer[c][u], toClient[c][u], stage[c][u]>>
    BY <1>4, <1>5
  <2>2. UNCHANGED <<loopVars, protocolVars>>
    BY <1>2
  <2> QED
    BY <2>1, <2>2, HandshakeKeeps
<1>12. ASSUME s = clientSocket[c] PROVE Handshake(c)'
  <2>1. Handshake(c)
    BY <1>1 DEF ConnectionInv, SocketInv
  <2> QED
    BY <1>4, <1>5, <1>6, <1>12, <2>1 DEF Handshake
<1>13. OkJoins(c)'
  <2>1. \A u \in Socket : Has(toClient'[c][u], "ok") => Has(toClient[c][u], "ok") \/ (u = s /\ msg = "ok")
    BY <1>4
  <2> QED
    BY <1>1, <1>10, <2>1 DEF ConnectionInv, SocketInv, OkJoins
<1>14. GainJoins(c)'
  BY <1>1, <1>6, <1>10 DEF ConnectionInv, SocketInv, GainJoins
<1>15. Behind(c)'
  <2>1. s <= clientSocket[c] /\ serverSocket[c] <= clientSocket[c]
    BY <1>1, UsedSocket DEF ConnectionInv, SocketInv, Behind
  <2> QED
    BY <1>6, <1>8, <2>1 DEF Behind
<1>16. Grace(c)'
  BY <1>1, <1>7, <1>8 DEF ConnectionInv, Grace, Broken
<1>17. SocketInv(c)'
  BY <1>11, <1>12, <1>13, <1>14, <1>15 DEF SocketInv
<1>18. /\ UNCHANGED <<loopVars, protocolVars>> /\ broken \subseteq broken'
       /\ \A d \in Connection : d # c =>
             /\ UNCHANGED <<toServer[d], toClient[d], stage[d], serverSocket[d], serverClosed[d], gone[d]>>
             /\ disconnectRunner1'[d] \/ disconnectRunner2'[d] => disconnectRunner1[d] \/ disconnectRunner2[d]
  BY <1>2, <1>4, <1>5, <1>7, <1>8
<1> QED
  BY <1>9, <1>16, <1>17, <1>18, ServerStep

\* The end of a handshake whose answer changes nothing for the connection.
LEMMA StageStep ==
    ASSUME RemoteInv, NEW c \in Connection, NEW s \in Socket, NEW v \in Stage \ {"WaitingForAuth", "Done"},
           toServer[c][s] # <<>>, toServer' = [toServer EXCEPT ![c][s] = Tail(@)],
           stage' = [stage EXCEPT ![c][s] = v],
           UNCHANGED toClient \/ ServerSends(c, s, "error"),
           broken \subseteq broken', broken' \subseteq Connection \X Socket,
           UNCHANGED <<serverSocket, serverClosed, gone, loopVars, protocolVars>>,
           disconnectRunner1' \in [Connection -> BOOLEAN], disconnectRunner2' \in [Connection -> BOOLEAN],
           \A d \in Connection :
              disconnectRunner1'[d] \/ disconnectRunner2'[d] => disconnectRunner1[d] \/ disconnectRunner2[d],
           s = clientSocket[c] =>
              \/ phase[c] \notin {"authenticating", "awaitSign", "signing"}
              \/ phase[c] = "awaitSign" /\ stage[c][s] = "WaitingForAuth" /\ v = "Error"
    PROVE  RemoteInv'
<1>1. TypeOK /\ ConnectionInv(c)
  BY DEF RemoteInv
<1>2. /\ toServer' \in [Connection -> [Socket -> Seq(ToServer)]]
      /\ \A d \in Connection : d # c => toServer'[d] = toServer[d]
      /\ \A u \in Socket : u # s => toServer'[c][u] = toServer[c][u]
      /\ \A n : Has(toServer'[c][s], n) => Has(toServer[c][s], n)
  <2>1. TypeOK
    BY <1>1
  <2>2. toServer[c][s] # <<>> /\ toServer' = [toServer EXCEPT ![c][s] = Tail(@)]
    OBVIOUS
  <2> QED
    BY ONLY <2>1, <2>2, ServerReadsIs
<1>3. /\ toClient' \in [Connection -> [Socket -> Seq(ToClient)]]
      /\ \A d \in Connection : d # c => toClient'[d] = toClient[d]
      /\ \A u \in Socket : u # s => toClient'[c][u] = toClient[c][u]
      /\ \A n : Has(toClient'[c][s], n) => Has(toClient[c][s], n) \/ n = "error"
      /\ toClient[c][s] = <<>> => Len(toClient'[c][s]) <= 1
  <2>1. CASE UNCHANGED toClient
    BY <1>1, <2>1 DEF TypeOK, ToClient
  <2>2. CASE ServerSends(c, s, "error")
    <3>1. "error" \in ToClient
      BY DEF ToClient
    <3>2. /\ toClient' \in [Connection -> [Socket -> Seq(ToClient)]]
          /\ \A d \in Connection : d # c => toClient'[d] = toClient[d]
          /\ \A u \in Socket : u # s => toClient'[c][u] = toClient[c][u]
          /\ \A n : Has(toClient'[c][s], n) => Has(toClient[c][s], n) \/ n = "error"
          /\ Len(toClient'[c][s]) <= Len(toClient[c][s]) + 1
      BY <1>1, <2>2, <3>1, ServerSendsIs
    <3>3. toClient[c][s] = <<>> => Len(toClient'[c][s]) <= 1
      BY <3>2
    <3> QED
      BY <3>2, <3>3
  <2> QED
    BY <2>1, <2>2
<1>4. /\ stage' \in [Connection -> [Socket -> Stage]]
      /\ stage'[c][s] = v
      /\ \A u \in Socket : u # s => stage'[c][u] = stage[c][u]
      /\ \A d \in Connection : d # c => stage'[d] = stage[d]
  BY <1>1, StageIs
<1>5. UNCHANGED <<phase, attempt, lastEvent, isDisposed, permanentFailure, clientSocket,
                  protocolReconnecting, protocolDisposed, clientClosed, controlMessage>>
  BY DEF loopVars, protocolVars
<1>6. TypeOK'
  BY <1>1, <1>2, <1>3, <1>4, <1>5 DEF TypeOK, ToServer, ToClient
<1>7. \A u : Joined(c, u) => Joined(c, u)'
  BY JoinedKept
<1>8. Unused(c)' /\ (s # clientSocket[c] => Handshake(c)')
  <2>1. \A u \in Socket : u # s => UNCHANGED <<toServer[c][u], toClient[c][u], stage[c][u]>>
    BY <1>2, <1>3, <1>4
  <2> QED
    BY <2>1, HandshakeKeeps
<1>9. ASSUME s = clientSocket[c] PROVE Handshake(c)'
  <2>1. Handshake(c)
    BY <1>1 DEF ConnectionInv, SocketInv
  <2>2. CASE phase[c] \notin {"authenticating", "awaitSign", "signing"}
    BY <1>2, <1>3, <1>4, <1>5, <1>9, <2>1, <2>2 DEF Handshake
  <2>3. CASE phase[c] = "awaitSign" /\ stage[c][s] = "WaitingForAuth" /\ v = "Error"
    <3>1. Len(toClient'[c][s]) <= 1
      BY <1>3, <1>9, <2>1, <2>3 DEF Handshake
    <3> QED
      BY <1>2, <1>4, <1>5, <1>9, <2>1, <2>3, <3>1 DEF Handshake
  <2> QED
    BY <1>9, <2>2, <2>3
<1>10. OkJoins(c)'
  <2>1. \A u \in Socket : Has(toClient'[c][u], "ok") => Has(toClient[c][u], "ok")
    BY <1>3
  <2> QED
    BY <1>1, <1>7, <2>1 DEF ConnectionInv, SocketInv, OkJoins
<1>11. Behind(c)' /\ GainJoins(c)' /\ Grace(c)'
  BY <1>1, <1>5, <1>7 DEF ConnectionInv, SocketInv, Behind, GainJoins, Grace, Broken
<1> QED
  BY <1>2, <1>3, <1>4, <1>6, <1>8, <1>9, <1>10, <1>11, ServerStep DEF SocketInv

\* The handshake shortens the grace times of all.
LEMMA ShortenedIs ==
    ASSUME TypeOK
    PROVE  NoneStarted([d \in Connection |-> Shortened(d)])
<1>1. ASSUME NEW d \in Connection
      PROVE  /\ Shortened(d)[1] \in BOOLEAN /\ Shortened(d)[2] \in BOOLEAN
             /\ Shortened(d)[1] \/ Shortened(d)[2] => disconnectRunner1[d] \/ disconnectRunner2[d]
  <2>1. disconnectRunner1[d] \in BOOLEAN /\ disconnectRunner2[d] \in BOOLEAN
    BY DEF TypeOK
  <2> QED
    BY <2>1 DEF Shortened
<1> QED
  BY <1>1 DEF NoneStarted

LEMMA ServerReceiveConnectionTypeStep ==
    ASSUME RemoteInv, NEW c \in Connection, NEW s \in Socket, ServerReceiveConnectionType(c, s)
    PROVE  RemoteInv'
<1> DEFINE timers == [d \in Connection |-> Shortened(d)]
<1>1. TypeOK /\ Handshake(c)
  BY DEF RemoteInv, ConnectionInv, SocketInv
<1>2. /\ toServer[c][s] # <<>> /\ Head(toServer[c][s]) = "connectionType"
      /\ toServer' = [toServer EXCEPT ![c][s] = Tail(@)]
  BY DEF ServerReceiveConnectionType
<1>3. /\ toServer' \in [Connection -> [Socket -> Seq(ToServer)]]
      /\ \A d \in Connection : d # c => toServer'[d] = toServer[d]
      /\ \A u \in Socket : u # s => toServer'[c][u] = toServer[c][u]
      /\ Has(toServer[c][s], "connectionType")
  <2>1. TypeOK
    BY <1>1
  <2> QED
    BY ONLY <2>1, <1>2, MessageRead
<1>4. s = clientSocket[c] => phase[c] \notin {"authenticating", "awaitSign", "signing"}
  BY <1>1, <1>3 DEF Handshake
<1>5. NoneStarted(timers)
  BY <1>1, ShortenedIs
<1>6. \/ Accept(c, s, timers)
      \/ /\ SetRunners(timers) /\ stage' = [stage EXCEPT ![c][s] = "WaitingForPort"]
         /\ UNCHANGED <<broken, toClient, serverSocket, serverClosed, gone, loopVars, protocolVars>>
  BY DEF ServerReceiveConnectionType
<1> HIDE DEF timers
<1>7. CASE Accept(c, s, timers)
  BY <1>2, <1>3, <1>4, <1>5, <1>7, AcceptStep
<1>8. CASE /\ SetRunners(timers) /\ stage' = [stage EXCEPT ![c][s] = "WaitingForPort"]
           /\ UNCHANGED <<broken, toClient, serverSocket, serverClosed, gone, loopVars, protocolVars>>
  <2>1. /\ disconnectRunner1' \in [Connection -> BOOLEAN] /\ disconnectRunner2' \in [Connection -> BOOLEAN]
        /\ \A d \in Connection :
              disconnectRunner1'[d] \/ disconnectRunner2'[d] => disconnectRunner1[d] \/ disconnectRunner2[d]
    BY <1>5, <1>8 DEF SetRunners, NoneStarted
  <2>2. "WaitingForPort" \in Stage \ {"WaitingForAuth", "Done"} /\ broken \subseteq Connection \X Socket
    BY <1>1 DEF Stage, TypeOK
  <2> QED
    BY <1>2, <1>4, <1>8, <2>1, <2>2, StageStep
<1> QED
  BY <1>6, <1>7, <1>8

LEMMA ServerFindsPortStep ==
    ASSUME RemoteInv, NEW c \in Connection, NEW s \in Socket, ServerFindsPort(c, s)
    PROVE  RemoteInv'
<1> DEFINE timers == [d \in Connection |-> <<disconnectRunner1[d], disconnectRunner2[d]>>]
<1>1. TypeOK /\ Handshake(c)
  BY DEF RemoteInv, ConnectionInv, SocketInv
<1>2. stage[c][s] = "WaitingForPort" /\ Accept(c, s, timers) /\ UNCHANGED toServer
  BY DEF ServerFindsPort
<1>3. s = clientSocket[c] => phase[c] \notin {"authenticating", "awaitSign", "signing"}
  BY <1>1, <1>2 DEF Handshake
<1>4. NoneStarted(timers)
  BY <1>1 DEF TypeOK, NoneStarted
<1>5. toServer' \in [Connection -> [Socket -> Seq(ToServer)]]
  BY <1>1, <1>2 DEF TypeOK, ToServer
<1> HIDE DEF timers
<1> QED
  BY <1>2, <1>3, <1>4, <1>5, AcceptStep

LEMMA ServerRejectsStep ==
    ASSUME RemoteInv, NEW c \in Connection, NEW s \in Socket, ServerRejects(c, s)
    PROVE  RemoteInv'
<1>1. TypeOK /\ Handshake(c)
  BY DEF RemoteInv, ConnectionInv, SocketInv
<1>2. /\ toServer[c][s] # <<>> /\ toServer' = [toServer EXCEPT ![c][s] = Tail(@)]
      /\ stage' = [stage EXCEPT ![c][s] = "Error"] /\ ServerSends(c, s, "error")
      /\ broken' = broken \cup {<<c, s>>}
      /\ UNCHANGED <<serverSocket, serverClosed, gone, runnerVars, loopVars, protocolVars>>
      /\ \/ stage[c][s] = "WaitingForAuth" /\ Head(toServer[c][s]) = "auth"
         \/ stage[c][s] = "WaitingForConnectionType" /\ Head(toServer[c][s]) = "connectionType"
  BY DEF ServerRejects
<1>3. Has(toServer[c][s], Head(toServer[c][s]))
  BY <1>1, <1>2, MessageRead
<1>4. s = clientSocket[c] =>
         \/ phase[c] \notin {"authenticating", "awaitSign", "signing"}
         \/ phase[c] = "awaitSign" /\ stage[c][s] = "WaitingForAuth"
  BY <1>1, <1>2, <1>3 DEF Handshake
<1>5. /\ broken' \subseteq Connection \X Socket /\ UNCHANGED <<disconnectRunner1, disconnectRunner2>>
      /\ disconnectRunner1 \in [Connection -> BOOLEAN] /\ disconnectRunner2 \in [Connection -> BOOLEAN]
  BY <1>1, <1>2 DEF TypeOK, runnerVars
<1>6. "Error" \in Stage \ {"WaitingForAuth", "Done"}
  BY DEF Stage
<1> QED
  BY <1>2, <1>4, <1>5, <1>6, StageStep

-----------------------------------------------------------------------------
(* The theorems *)

LEMMA InitRemote == Init => RemoteInv
<1> SUFFICES ASSUME Init PROVE RemoteInv
  OBVIOUS
<1> USE DEF Init
<1>1. 0 \in Socket /\ 0 \in Nat /\ 0 \in 0..GiveUpAfter + 1
  BY BoundAssumption DEF Socket
<1>2. controlMessage \in [Connection -> Seq([type : HandshakeMessage, socket : Socket])]
  <2> DEFINE M == [type : HandshakeMessage, socket : Socket]
  <2>1. <<>> \in Seq(M)
    OBVIOUS
  <2> HIDE DEF M
  <2>2. controlMessage \in [Connection -> Seq(M)]
    BY <2>1
  <2> QED
    BY <2>2 DEF M
<1>3. /\ toServer \in [Connection -> [Socket -> Seq({"auth", "connectionType", "Disconnect"})]]
      /\ toClient \in [Connection -> [Socket -> Seq({"sign", "ok", "error"})]]
  OBVIOUS
<1>4. TypeOK
  BY <1>1, <1>2, <1>3 DEF TypeOK, Phase, Event, Stage
<1>5. ASSUME NEW c \in Connection PROVE ConnectionInv(c)
  <2>1. Grace(c) /\ ClientInv(c)
    BY DEF Grace, ClientInv, Control, Loss, NoGain
  <2>2. Unused(c) /\ Behind(c) /\ Handshake(c)
    BY <1>1 DEF Unused, Behind, Handshake, Socket
  <2>3. OkJoins(c) /\ GainJoins(c)
    BY HasEmpty DEF OkJoins, GainJoins, Joined
  <2> QED
    BY <2>1, <2>2, <2>3 DEF ConnectionInv, SocketInv
<1> QED
  BY <1>4, <1>5 DEF RemoteInv

LEMMA NextRemote == RemoteInv /\ [Next]_vars => RemoteInv'
<1> SUFFICES ASSUME RemoteInv, [Next]_vars PROVE RemoteInv'
  OBVIOUS
<1>1. CASE UNCHANGED vars
  <2>1. UNCHANGED <<phase, attempt, lastEvent, isDisposed, permanentFailure, clientSocket,
                    protocolReconnecting, protocolDisposed, clientClosed, controlMessage, broken,
                    toServer, toClient, stage, serverSocket, serverClosed, gone,
                    disconnectRunner1, disconnectRunner2>>
    BY <1>1 DEF vars, loopVars, protocolVars, netVars, runnerVars, serverVars
  <2>2. TypeOK'
    BY <2>1 DEF RemoteInv, TypeOK
  <2>3. \A d \in Connection : ConnectionInv(d)'
    BY <2>1, OtherKept DEF RemoteInv
  <2> QED
    BY <2>2, <2>3 DEF RemoteInv
<1>2. ASSUME NEW c \in Connection, Loop(c) PROVE RemoteInv'
  BY <1>2, WaitEndsStep, ConnectStep, FailStep, SendStep, ReceiveSignStep, ReceiveOkStep DEF Loop
<1>3. ASSUME NEW c \in Connection, Server(c) PROVE RemoteInv'
  BY <1>3, ServerReceiveAuthStep, ServerReceiveConnectionTypeStep, ServerFindsPortStep,
     ServerRejectsStep, ServerDropsDisconnectStep,
     ServerSocketClosedStep, ServerReceiveDisconnectStep DEF Server
<1>4. ASSUME NEW c \in Connection,
             \/ ClientSocketClosed(c) \/ SocketTimeout(c) \/ BufferControlMessage(c)
             \/ Dispose(c) \/ GraceTimeExpires(c) \/ Break(c)
      PROVE  RemoteInv'
  BY <1>4, ClientSocketClosedStep, SocketTimeoutStep, BufferControlMessageStep, DisposeStep,
     GraceTimeExpiresStep, BreakStep
<1> QED
  BY <1>1, <1>2, <1>3, <1>4, ServerRestartStep DEF Next

LEMMA RemoteInvariant == Spec => []RemoteInv
  BY InitRemote, NextRemote, PTL DEF Spec

\* TypeOK: every connection, socket and timer has a value of its type.
THEOREM RemoteTypes == Spec => []TypeOK
<1>1. RemoteInv => TypeOK
  BY DEF RemoteInv
<1> QED
  BY <1>1, RemoteInvariant, PTL

\* GraceOnlyWhenClosed: no handshake on a new socket leaves a grace timer of the old one
\* behind, and the shortening that each handshake begins touches no connection in use.
THEOREM GraceTheorem == Spec => []GraceOnlyWhenClosed
<1>1. RemoteInv => GraceOnlyWhenClosed
  BY DEF RemoteInv, ConnectionInv, Grace, GraceOnlyWhenClosed
<1> QED
  BY <1>1, RemoteInvariant, PTL

\* NoStaleControl: what the sign and the ok are read from came in on the newest socket,
\* however many sockets failed in the middle of their handshake.
THEOREM ControlTheorem == Spec => []NoStaleControl
<1>1. RemoteInv => NoStaleControl
  BY DEF RemoteInv, ConnectionInv, ClientInv, Control, NoStaleControl
<1> QED
  BY <1>1, RemoteInvariant, PTL

\* LossIsHandled: the loop never ends with a socket that has closed, unless somebody gave up.
THEOREM LossTheorem == Spec => []LossIsHandled
<1>1. RemoteInv => LossIsHandled
  BY DEF RemoteInv, ConnectionInv, ClientInv, Loss, LossIsHandled
<1> QED
  BY <1>1, RemoteInvariant, PTL

\* Agreement: an established connection is on one socket at both ends, although the server
\* may be restarted, or give the connection up, at any step of the handshake.
THEOREM AgreementTheorem == Spec => []Agreement
<1>1. RemoteInv => Agreement
  BY DEF RemoteInv, ConnectionInv, SocketInv, GainJoins, Joined, Agreement
<1> QED
  BY <1>1, RemoteInvariant, PTL
=============================================================================
