------------------------ MODULE MCPersistentProtocol ------------------------
(* PersistentProtocol on small instances.  A scenario, chosen at the start,  *)
(* leaves out the calls its instance does not ask about: the calls of both   *)
(* at once are too many states.                                              *)
EXTENDS PersistentProtocol

VARIABLE scenario

mcVars == <<vars, scenario>>

\* Bounds: the messages an endpoint sends in each scenario.
Bound == [reconnect |-> [client |-> 2, server |-> 1],
          writer    |-> [client |-> 1, server |-> 0]]

MCTraffic(e) == Traffic(e) /\ outgoingMsgId'[e] <= Bound[scenario][e]

\* Messages, losses and replaced sockets.
ReconnectNext == (\E e \in Side : MCTraffic(e) \/ Reconnection(e)) \/ Loss

\* Keep-alives and control messages go one way: they only delay or stand in
\* for the acks of the messages, all of which the client sends here.
MCControlTraffic(e) ==
    \/ /\ e = "client"
       /\ SendKeepAlive(e) \/ \E d \in ControlData : SendControl(e, d)
    \/ ReceiveControl(e)
    \/ ReadControlMessage(e)

\* Pauses, flushes, disposal, keep-alives and control messages, on one socket.
WriterNext ==
    \E e \in Side : MCTraffic(e) \/ MCControlTraffic(e) \/ WriterControl(e) \/ Shutdown(e)

MCInit == Init /\ scenario \in DOMAIN Bound
MCNext ==
    /\ \/ scenario = "reconnect" /\ ReconnectNext
       \/ scenario = "writer" /\ WriterNext
    /\ UNCHANGED scenario
MCSpec == MCInit /\ [][MCNext]_mcVars
=============================================================================
