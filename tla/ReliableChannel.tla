-------------------------- MODULE ReliableChannel --------------------------
(***************************************************************************)
(* What a user of IMessagePassingProtocol (send / onMessage) is promised   *)
(* by PersistentProtocol: in each direction the messages handed to send    *)
(* come out of onMessage once each and in the order they were sent.        *)
(* The k-th message an endpoint sends is identified with its number k.     *)
(***************************************************************************)
EXTENDS Naturals, Sequences

VARIABLES
    sent,       \* sent[e]: how many messages endpoint e has handed to send
    delivered   \* delivered[e]: the numbers e's onMessage has fired, in order

Side == {"client", "server"}
Peer(e) == IF e = "client" THEN "server" ELSE "client"

Init ==
    /\ sent = [e \in Side |-> 0]
    /\ delivered = [e \in Side |-> <<>>]

Send(e) ==
    /\ sent' = [sent EXCEPT ![e] = @ + 1]
    /\ UNCHANGED delivered

Deliver(e) ==
    /\ Len(delivered[e]) < sent[Peer(e)]
    /\ delivered' = [delivered EXCEPT ![e] = Append(@, Len(@) + 1)]
    /\ UNCHANGED sent

Next == \E e \in Side : Send(e) \/ Deliver(e)

Spec == Init /\ [][Next]_<<sent, delivered>>
=============================================================================
