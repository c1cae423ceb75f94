------------------------ MODULE MCRemoteConnection ------------------------
(* RemoteConnection on small instances: in the scenarios "one" and "host"    *)
(* only Alone, a management connection, or Host, that of an extension host,  *)
(* is ever lost, on several sockets; in "all" each one may be, and a failure *)
(* of one ends the others; there the server neither restarts nor rejects a   *)
(* message, and sockets break without a timeout before.                      *)
EXTENDS RemoteConnection

CONSTANTS Alone, Host
ASSUME AloneAssumption == Alone \in Management /\ Host \in Connection \ Management

VARIABLE scenario

mcVars == <<vars, scenario>>

MCInit == Init /\ scenario \in {"one", "host", "all"}

\* The connection that is lost.
Lost == IF scenario = "host" THEN Host ELSE Alone

\* Bound: the last socket made for a connection in each scenario.
SocketBound == [one |-> MaxSocket, host |-> MaxSocket, all |-> 1]

MCNext ==
    /\ \/ \E c \in IF scenario = "all" THEN Connection ELSE {Lost} :
           \/ Loop(c)
           \/ ClientSocketClosed(c)
           \/ BufferControlMessage(c)
           \/ Dispose(c)
           \/ Server(c)
           \/ GraceTimeExpires(c)
           \/ Break(c)
       \/ scenario # "all" /\ (SocketTimeout(Lost) \/ ServerRestart)
    /\ \A c \in Connection : clientSocket'[c] <= SocketBound[scenario]
    /\ scenario = "all" => \A c \in Connection, s \in Socket : stage'[c][s] # "Error"
    /\ UNCHANGED scenario

\* Promises settle or time out, and timers fire.  The network and the users owe
\* nothing.  Only what the scenarios of one connection need: their liveness is checked.
Fairness ==
    /\ WF_vars(scenario # "all" /\ Loop(Lost))
    /\ WF_vars(scenario # "all" /\ ServerSocketClosed(Lost))
    /\ WF_vars(scenario # "all" /\ GraceTimeExpires(Lost))

MCSpec == MCInit /\ [][MCNext]_mcVars /\ Fairness

\* A reconnection ends, with a connection or a failure, whatever the network
\* does.
LoopEnds == scenario # "all" /\ phase[Lost] # "idle" ~> phase[Lost] = "idle"

\* The server does not keep a connection whose client is gone: the socket is
\* replaced or the connection is released.
AbandonedIsReleased ==
    scenario # "all" /\ Broken(Lost, serverSocket[Lost])
    ~> gone[Lost] \/ ~Broken(Lost, serverSocket[Lost])
=============================================================================
