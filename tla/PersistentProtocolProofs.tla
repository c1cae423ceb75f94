---------------------- MODULE PersistentProtocolProofs ----------------------
(* Delivery is an inductive invariant of PersistentProtocol; from it follow   *)
(* exactly-once delivery in order and the refinement of ReliableChannel.      *)
EXTENDS PersistentProtocol, SequenceTheorems, TLAPS

-----------------------------------------------------------------------------
(* Sequences *)

\* Used when the set of sound messages grows: a queue, buffer or wire that held
\* sound messages still does.
LEMMA SeqMonotone ==
    ASSUME NEW S, NEW T, S \subseteq T
    PROVE  Seq(S) \subseteq Seq(T)
<1>1. SUFFICES ASSUME NEW q \in Seq(S) PROVE q \in Seq(T)
  OBVIOUS
<1>2. \A i \in 1..Len(q) : q[i] \in T
  BY ElementOfSeq
<1>3. q = [i \in 1..Len(q) |-> q[i]] /\ Len(q) \in Nat
  OBVIOUS
<1> QED
  BY <1>2, <1>3, IsASeq

\* Losing a message from the middle of a wire (Lose), and confirming a prefix
\* of the queue (DropAcked), keep the rest.
LEMMA SubSeqType ==
    ASSUME NEW S, NEW q \in Seq(S), NEW i \in 1..Len(q)+1, NEW j \in 0..Len(q)
    PROVE  /\ SubSeq(q, i, j) \in Seq(S)
           /\ i <= j + 1 => Len(SubSeq(q, i, j)) = j - i + 1
           /\ \A k \in 1..(j - i + 1) : SubSeq(q, i, j)[k] = q[i + k - 1]
  OBVIOUS

LEMMA SeqParts ==
    ASSUME NEW S, NEW q \in Seq(S), NEW r \in Seq(S), NEW x \in S
    PROVE  /\ q \o r \in Seq(S)
           /\ Append(q, x) \in Seq(S)
           /\ <<x>> \in Seq(S)
           /\ <<>> \in Seq(S)
           /\ q # <<>> => Head(q) \in S /\ Tail(q) \in Seq(S)
  OBVIOUS

-----------------------------------------------------------------------------
(* The operators of the writer and of the acknowledgement *)

LEMMA PeerSide ==
    \A e \in Side : Peer(e) \in Side /\ Peer(e) # e /\ Peer(Peer(e)) = e
  BY DEF Side, Peer

\* The messages the protocol builds are messages.
LEMMA MessageTypes ==
    /\ \A i \in 1..MaxMsg, a \in 0..MaxMsg : Regular(i, a) \in Message
    /\ \A t \in {"Ack", "KeepAlive"}, a \in 0..MaxMsg : AckOf(t, a) \in Message
    /\ \A t \in {"Disconnect", "ReplayRequest", "Pause", "Resume"} : Plain(t) \in Message
    /\ \A d \in ControlData : Control(d) \in Message
  BY DEF Regular, AckOf, Plain, Control, Message

\* write changes the buffer of its endpoint only, and only by appending.
LEMMA WriteEffect ==
    ASSUME MessagesOK, NEW e \in Side, NEW msgs \in Seq(Message), Write(e, msgs)
    PROVE  /\ data' \in [Side -> Seq(Message)]
           /\ \A d \in Side : data'[d] = data[d] \/ (d = e /\ data'[d] = data[e] \o msgs)
<1>1. data \in [Side -> Seq(Message)] /\ data[e] \o msgs \in Seq(Message)
  BY DEF MessagesOK
<1>2. data' = data \/ data' = [data EXCEPT ![e] = data[e] \o msgs]
  BY DEF Write
<1> QED
  BY <1>1, <1>2

\* socket.write changes one wire only, and only by appending.
LEMMA PutEffect ==
    ASSUME MessagesOK, NEW e \in Side, NEW msgs \in Seq(Message), Put(e, msgs)
    PROVE  /\ wire' \in [Socket -> [Side -> Seq(Message)]]
           /\ \A s \in Socket, d \in Side :
                 \/ wire'[s][d] = wire[s][d]
                 \/ d = e /\ wire'[s][d] = wire[s][e] \o msgs
<1> DEFINE t == socket[e]
           u == wire[t][e] \o msgs
<1>1. t \in Socket /\ wire \in [Socket -> [Side -> Seq(Message)]]
  BY DEF MessagesOK
<1>2. u \in Seq(Message)
  BY <1>1
<1>3. wire' = wire \/ wire' = [wire EXCEPT ![t] = [wire[t] EXCEPT ![e] = u]]
  BY DEF Put
<1>4. [wire[t] EXCEPT ![e] = u] \in [Side -> Seq(Message)]
  BY <1>1, <1>2
<1> DEFINE f == [wire[t] EXCEPT ![e] = u]
<1>5. /\ f \in [Side -> Seq(Message)] /\ f[e] = u
      /\ \A d \in Side : d # e => f[d] = wire[t][d]
  BY <1>1, <1>2, <1>4
<1>6. wire' = wire \/ wire' = [wire EXCEPT ![t] = f]
  BY <1>3
<1>7. u = wire[t][e] \o msgs
  OBVIOUS
<1> HIDE DEF t, u, f
<1>8. CASE wire' = wire
  BY <1>1, <1>8
<1>9. CASE wire' = [wire EXCEPT ![t] = f]
  <2>1. /\ wire' \in [Socket -> [Side -> Seq(Message)]] /\ wire'[t] = f
        /\ \A s \in Socket : s # t => wire'[s] = wire[s]
    BY <1>1, <1>5, <1>9
  <2> QED
    BY <1>5, <1>7, <2>1
<1> QED
  BY <1>6, <1>8, <1>9

\* Disposing the writer flushes it at most, and empties the wire towards it.
LEMMA LeaveEffect ==
    ASSUME MessagesOK, NEW e \in Side, Leave(e)
    PROVE  /\ wire' \in [Socket -> [Side -> Seq(Message)]]
           /\ \A s \in Socket, d \in Side :
                 \/ wire'[s][d] = wire[s][d]
                 \/ wire'[s][d] = <<>>
                 \/ d = e /\ wire'[s][d] = wire[s][e] \o data[e]
<1> DEFINE t == socket[e]
           last == IF isDisposed[e] \/ Unread(Peer(e), t) THEN <<>>
                   ELSE Flushed(e, data[e])
           w == [d \in Side |-> IF d = e THEN wire[t][e] \o last ELSE <<>>]
<1>1. t \in Socket /\ wire \in [Socket -> [Side -> Seq(Message)]] /\ data[e] \in Seq(Message)
  BY DEF MessagesOK
<1>2. last \in {<<>>, data[e]}
  BY DEF Flushed
<1>3. wire' = [wire EXCEPT ![t] = w]
  BY DEF Leave, MessagesOK
<1>4. wire[t][e] \in Seq(Message) /\ last \in Seq(Message)
  <2>1. <<>> \in Seq(Message)
    OBVIOUS
  <2> QED
    BY <1>1, <1>2, <2>1
<1>5. wire[t][e] \o <<>> = wire[t][e]
  BY <1>4
<1>6. w \in [Side -> Seq(Message)]
  BY <1>4
<1>7. \A d \in Side : w[d] \in {<<>>, wire[t][d]} \/ (d = e /\ w[d] = wire[t][e] \o data[e])
  BY <1>2, <1>5
<1> HIDE DEF w, t
<1> QED
  BY <1>1, <1>3, <1>6, <1>7

LEMMA FlushedEffect ==
    ASSUME NEW e \in Side, NEW S, NEW buffer \in Seq(S)
    PROVE  Flushed(e, buffer) \in Seq(S) /\ Kept(e, buffer) \in Seq(S)
  BY DEF Flushed, Kept

\* On a queue of consecutive ids, the popping loop removes what ack confirms.
LEMMA DropAckedExact ==
    ASSUME NEW q \in Seq(Message), NEW base \in Nat, NEW ack \in Nat,
           \A i \in 1..Len(q) : q[i].id = base + i,
           base < ack, ack <= base + Len(q)
    PROVE  DropAcked(q, ack) = SubSeq(q, ack - base + 1, Len(q))
<1> DEFINE P(k) == /\ \A i \in 1..k : q[i].id <= ack
                   /\ k < Len(q) => q[k+1].id > ack
           m == ack - base
<1>1. m \in 0..Len(q) /\ m \in Nat
  OBVIOUS
<1>2. P(m)
  <2>1. \A i \in 1..m : q[i].id <= ack
    BY <1>1
  <2>2. m < Len(q) => q[m+1].id > ack
    BY <1>1
  <2> QED
    BY <2>1, <2>2
<1>3. ASSUME NEW k \in 0..Len(q), P(k) PROVE k = m
  <2>1. CASE k < m
    <3>1. k + 1 \in 1..Len(q)
      BY <1>1, <2>1
    <3>2. q[k+1].id = base + (k + 1)
      BY <3>1
    <3>3. q[k+1].id > ack
      BY <1>1, <1>3, <2>1
    <3> QED
      BY <2>1, <3>2, <3>3
  <2>2. CASE k > m
    <3>1. m + 1 \in 1..k /\ m + 1 \in 1..Len(q)
      BY <1>1, <2>2
    <3>2. q[m+1].id = base + (m + 1)
      BY <3>1
    <3> QED
      BY <1>3, <3>1, <3>2
  <2> QED
    BY <1>1, <2>1, <2>2
<1>4. (CHOOSE k \in 0..Len(q) : P(k)) = m
  BY <1>1, <1>2, <1>3
<1> QED
  BY <1>4 DEF DropAcked

-----------------------------------------------------------------------------
(* Preservation of Delivery, by what a step writes *)

LEMMA MessageFields ==
    \A m \in Message : /\ m.id \in 0..MaxMsg /\ m.ack \in 0..MaxMsg
                       /\ m.id \in Nat /\ m.ack \in Nat
  BY BoundAssumption DEF Message

\* The counters are naturals.
LEMMA CountersNat ==
    ASSUME CountersOK, NEW d \in Side
    PROVE  /\ outgoingMsgId[d] \in Nat /\ outgoingAckId[d] \in Nat
           /\ incomingMsgId[d] \in Nat /\ incomingAckId[d] \in Nat
  BY BoundAssumption DEF CountersOK

\* What an endpoint may write only grows.
LEMMA UpToGrows ==
    ASSUME NEW i \in Nat, NEW a \in Nat, NEW j \in Nat, NEW b \in Nat, i <= j, a <= b
    PROVE  UpTo(i, a) \subseteq UpTo(j, b) /\ Seq(UpTo(i, a)) \subseteq Seq(UpTo(j, b))
<1>1. \A m \in Message : m.id \in Nat /\ m.ack \in Nat
  BY BoundAssumption DEF Message
<1>2. UpTo(i, a) \subseteq UpTo(j, b)
  BY <1>1 DEF UpTo
<1> QED
  BY <1>2, SeqMonotone

LEMMA SoundIsMessage ==
    \A d \in Side : Sound(d) \subseteq Message /\ Seq(Sound(d)) \subseteq Seq(Message)
  BY SeqMonotone DEF Sound, UpTo

\* A step that keeps the counters, but for what was last acknowledged, and
\* leaves sound messages in the buffers and on the wires.
LEMMA FrameStep ==
    ASSUME Delivery,
           UNCHANGED <<sendVars, incomingMsgId, delivered>>,
           \/ UNCHANGED incomingAckId
           \/ \E e \in Side : incomingAckId' = [incomingAckId EXCEPT ![e] = incomingMsgId[e]],
           MessagesOK',
           \A d \in Side : data'[d] \in Seq(Sound(d)),
           \A s \in Socket, d \in Side : wire'[s][d] \in Seq(Sound(d))
    PROVE  Delivery'
<1>1. CountersOK'
  BY DEF Delivery, CountersOK, sendVars
<1>2. UnackExact'
  BY DEF Delivery, UnackExact, sendVars
<1>3. CountersLag'
  <2>1. \A d \in Side : incomingAckId'[d] \in {incomingAckId[d], incomingMsgId[d]}
    BY DEF Delivery, CountersOK
  <2>2. \A d \in Side : incomingMsgId[d] \in Nat
    BY BoundAssumption DEF Delivery, CountersOK
  <2> QED
    BY <2>1, <2>2 DEF Delivery, CountersLag, sendVars
<1>4. WrittenIsSound'
  BY DEF Delivery, WrittenIsSound, Sound, sendVars
<1> QED
  BY <1>1, <1>2, <1>3, <1>4 DEF Delivery

\* Steps that neither buffer nor put a message on a wire.
LEMMA SilentStep ==
    ASSUME Delivery, UNCHANGED <<sendVars, incomingMsgId, delivered, incomingAckId,
                                 data, wire, socket>>
    PROVE  Delivery'
  BY FrameStep DEF Delivery, MessagesOK, WrittenIsSound, sendVars

\* Steps that buffer sound messages.
LEMMA WriteStep ==
    ASSUME Delivery, NEW e \in Side, NEW msgs \in Seq(Sound(e)), Write(e, msgs),
           UNCHANGED <<sendVars, incomingMsgId, delivered, wire, socket>>,
           \/ UNCHANGED incomingAckId
           \/ incomingAckId' = [incomingAckId EXCEPT ![e] = incomingMsgId[e]]
    PROVE  Delivery'
<1>1. msgs \in Seq(Message) /\ MessagesOK
  BY SoundIsMessage DEF Delivery
<1>2. data' \in [Side -> Seq(Message)]
  BY <1>1, WriteEffect
<1>3. \A d \in Side : data'[d] = data[d] \/ (d = e /\ data'[d] = data[e] \o msgs)
  BY <1>1, WriteEffect
<1>4. MessagesOK'
  BY <1>2 DEF Delivery, MessagesOK, sendVars
<1>5. data[e] \o msgs \in Seq(Sound(e))
  BY SeqParts DEF Delivery, WrittenIsSound
<1>6. \A d \in Side : data'[d] \in Seq(Sound(d))
  BY <1>3, <1>5 DEF Delivery, WrittenIsSound
<1>7. \A s \in Socket, d \in Side : wire'[s][d] \in Seq(Sound(d))
  BY DEF Delivery, WrittenIsSound
<1> QED
  BY <1>4, <1>6, <1>7, FrameStep

\* Steps that flush a buffer of sound messages.
LEMMA PutStep ==
    ASSUME Delivery, NEW e \in Side, NEW buffer \in Seq(Sound(e)),
           Put(e, Flushed(e, buffer)),
           data' = [data EXCEPT ![e] = Kept(e, buffer)],
           UNCHANGED <<sendVars, incomingMsgId, delivered, incomingAckId, socket>>
    PROVE  Delivery'
<1>1. Flushed(e, buffer) \in Seq(Sound(e)) /\ Kept(e, buffer) \in Seq(Sound(e))
  BY FlushedEffect
<1>2. MessagesOK /\ Flushed(e, buffer) \in Seq(Message) /\ Kept(e, buffer) \in Seq(Message)
  BY <1>1, SoundIsMessage DEF Delivery
<1>3. wire' \in [Socket -> [Side -> Seq(Message)]]
  BY <1>2, PutEffect
<1>4. \A s \in Socket, d \in Side :
         wire'[s][d] = wire[s][d] \/ (d = e /\ wire'[s][d] = wire[s][e] \o Flushed(e, buffer))
  BY <1>2, PutEffect
<1>5. MessagesOK'
  BY <1>2, <1>3 DEF MessagesOK, sendVars
<1>6. \A d \in Side : data'[d] \in Seq(Sound(d))
  BY <1>1, <1>2 DEF Delivery, MessagesOK, WrittenIsSound
<1>7. \A s \in Socket : wire[s][e] \o Flushed(e, buffer) \in Seq(Sound(e))
  BY <1>1, SeqParts DEF Delivery, WrittenIsSound
<1>8. \A s \in Socket, d \in Side : wire'[s][d] \in Seq(Sound(d))
  BY <1>4, <1>7 DEF Delivery, WrittenIsSound
<1> QED
  BY <1>5, <1>6, <1>8, FrameStep

\* Steps that dispose a writer: dispose and beginAcceptReconnection.
LEMMA LeaveStep ==
    ASSUME Delivery, NEW e \in Side, Leave(e),
           NEW b \in Seq(Sound(e)), data' = [data EXCEPT ![e] = b],
           socket' \in [Side -> Socket],
           UNCHANGED <<sendVars, incomingMsgId, delivered, incomingAckId>>
    PROVE  Delivery'
<1>1. MessagesOK
  BY DEF Delivery
<1>2. wire' \in [Socket -> [Side -> Seq(Message)]]
  BY <1>1, LeaveEffect
<1>3. \A s \in Socket, d \in Side :
         \/ wire'[s][d] \in {wire[s][d], <<>>}
         \/ d = e /\ wire'[s][d] = wire[s][e] \o data[e]
  BY <1>1, LeaveEffect
<1>4. \A d \in Side : <<>> \in Seq(Sound(d))
  OBVIOUS
<1>5. \A d \in Side : data'[d] \in Seq(Sound(d))
  BY <1>1, <1>4 DEF Delivery, MessagesOK, WrittenIsSound
<1>6. MessagesOK'
  <2>1. b \in Seq(Message)
    BY SoundIsMessage
  <2>2. data' \in [Side -> Seq(Message)]
    BY <1>1, <2>1 DEF MessagesOK
  <2> QED
    BY <1>1, <1>2, <2>2 DEF MessagesOK, sendVars
<1>7. \A s \in Socket : wire[s][e] \o data[e] \in Seq(Sound(e))
  BY SeqParts DEF Delivery, WrittenIsSound
<1>8. \A s \in Socket, d \in Side : wire'[s][d] \in Seq(Sound(d))
  BY <1>3, <1>4, <1>7 DEF Delivery, WrittenIsSound
<1> QED
  BY <1>5, <1>6, <1>8, FrameStep

-----------------------------------------------------------------------------
(* Preservation of Delivery by the steps that change a counter *)

\* Reading a message: it is sound, and what it confirms leaves the queue.
LEMMA ArrivesEffect ==
    ASSUME Delivery, NEW e \in Side, NEW types, NEW m \in Message, Arrives(e, types, m)
    PROVE  /\ m \in Sound(Peer(e))
           /\ outgoingMsgId' = outgoingMsgId
           /\ outgoingAckId' \in [Side -> 0..MaxMsg]
           /\ \A d \in Side : outgoingAckId'[d] <= incomingMsgId[Peer(d)]
           /\ outgoingUnackMsg' \in [Side -> Seq(Message)]
           /\ UnackExact'
           /\ \A d \in Side : outgoingUnackMsg'[d] \in Seq(Sound(d))
           /\ wire' \in [Socket -> [Side -> Seq(Message)]]
           /\ \A s \in Socket, d \in Side : wire'[s][d] \in Seq(Sound(d))
<1> DEFINE t == socket[e]
           p == Peer(e)
           w == wire[t][p]
           q == outgoingUnackMsg[e]
           base == outgoingAckId[e]
<1>1. t \in Socket /\ p \in Side /\ w \in Seq(Sound(p)) /\ w # <<>> /\ Peer(p) = e
  BY PeerSide DEF Delivery, MessagesOK, WrittenIsSound, Arrives
<1>2. m \in Sound(p) /\ Tail(w) \in Seq(Sound(p))
  BY <1>1, SeqParts DEF Arrives
<1>3. wire' = [wire EXCEPT ![t] = [wire[t] EXCEPT ![p] = Tail(w)]]
  BY DEF Arrives
<1>4. wire \in [Socket -> [Side -> Seq(Message)]] /\ Tail(w) \in Seq(Message)
  BY <1>1, <1>2, SoundIsMessage DEF Delivery, MessagesOK
<1>5. [wire[t] EXCEPT ![p] = Tail(w)] \in [Side -> Seq(Message)]
  BY <1>1, <1>4
<1>6. wire' \in [Socket -> [Side -> Seq(Message)]]
  BY <1>3, <1>4, <1>5
<1>7. ASSUME NEW s \in Socket, NEW d \in Side PROVE wire'[s][d] \in Seq(Sound(d))
  <2>1. wire'[s][d] = wire[s][d] \/ (d = p /\ wire'[s][d] = Tail(w))
    BY <1>1, <1>3, <1>4
  <2> QED
    BY <1>2, <2>1 DEF Delivery, WrittenIsSound
<1>8. /\ m.ack \in 0..MaxMsg /\ m.ack \in Nat /\ base \in Nat
      /\ m.ack <= incomingMsgId[p] /\ incomingMsgId[p] <= outgoingMsgId[e]
      /\ incomingMsgId[p] \in Nat /\ outgoingMsgId[e] \in Nat
  <2>1. m.ack <= incomingMsgId[p]
    BY <1>2 DEF Sound, UpTo
  <2>2. incomingMsgId[p] <= outgoingMsgId[e]
    BY <1>1 DEF Delivery, CountersLag
  <2> QED
    BY <1>1, <2>1, <2>2, MessageFields, CountersNat DEF Delivery
<1>9. /\ q \in Seq(Message) /\ Len(q) + base = outgoingMsgId[e]
      /\ \A i \in 1..Len(q) : q[i].id = base + i
      /\ q \in Seq(Sound(e))
  BY DEF Delivery, MessagesOK, UnackExact, WrittenIsSound
<1>10. CASE m.ack > base
  <2> DEFINE n == m.ack - base
             r == SubSeq(q, n + 1, Len(q))
  <2>1. /\ m.ack \in Nat /\ base \in Nat /\ base < m.ack /\ m.ack <= base + Len(q)
        /\ n \in 1..Len(q)
    <3>1. Len(q) \in Nat
      BY <1>9
    <3> QED
      BY <1>8, <1>9, <1>10, <3>1
  <2>2. DropAcked(q, m.ack) = r
    BY <1>9, <2>1, DropAckedExact
  <2>3. /\ outgoingAckId' = [outgoingAckId EXCEPT ![e] = m.ack]
        /\ outgoingUnackMsg' = [outgoingUnackMsg EXCEPT ![e] = r]
    BY <1>10, <2>2 DEF Arrives, AcceptAck
  <2>4. n + 1 \in 1..Len(q)+1 /\ Len(q) \in 0..Len(q) /\ n + 1 <= Len(q) + 1
    BY <2>1
  <2>5. /\ r \in Seq(Message) /\ r \in Seq(Sound(e)) /\ Len(r) = Len(q) - (n + 1) + 1
        /\ \A k \in 1..(Len(q) - (n + 1) + 1) : r[k] = q[n + 1 + k - 1]
    BY <1>9, <2>4, SubSeqType
  <2>6. Len(r) + m.ack = outgoingMsgId[e]
    <3>1. Len(q) \in Nat /\ Len(q) + base = outgoingMsgId[e] /\ outgoingMsgId[e] \in Nat
      BY <1>8, <1>9
    <3>2. Len(r) = Len(q) - (n + 1) + 1
      BY <2>5
    <3>3. n = m.ack - base
      OBVIOUS
    <3> HIDE DEF r, n
    <3> QED
      BY <2>1, <3>1, <3>2, <3>3
  <2>7. \A k \in 1..Len(r) : r[k].id = m.ack + k
    <3>1. SUFFICES ASSUME NEW k \in 1..Len(r) PROVE r[k].id = m.ack + k
      OBVIOUS
    <3>2. n + k \in 1..Len(q) /\ r[k] = q[n + k]
      <4> HIDE DEF r, n
      <4>1. n \in Nat /\ k \in Nat /\ Len(q) \in Nat
        BY <1>9, <2>1
      <4>2. k \in 1..(Len(q) - (n + 1) + 1)
        BY <2>5
      <4>3. r[k] = q[n + 1 + k - 1]
        BY <4>2, <2>5
      <4>4. n + 1 + k - 1 = n + k /\ n + k \in 1..Len(q)
        BY <4>1, <4>2
      <4> QED
        BY <4>3, <4>4
    <3>3. q[n + k].id = base + (n + k)
      BY <1>9, <3>2
    <3>4. r[k].id = base + (n + k)
      BY <3>2, <3>3
    <3>5. base + (n + k) = m.ack + k
      BY <2>1, <3>1
    <3> QED
      BY <3>4, <3>5
  <2> HIDE DEF r, n
  <2>8. UnackExact'
    BY <2>3, <2>6, <2>7 DEF Arrives, Delivery, MessagesOK, CountersOK, UnackExact
  <2>9. \A d \in Side : outgoingAckId'[d] <= incomingMsgId[Peer(d)]
    BY <1>8, <2>3 DEF Delivery, CountersOK, CountersLag
  <2>10. /\ outgoingUnackMsg' \in [Side -> Seq(Message)]
         /\ \A d \in Side : outgoingUnackMsg'[d] \in Seq(Sound(d))
    BY <2>3, <2>5 DEF Delivery, MessagesOK, WrittenIsSound
  <2>11. outgoingAckId' \in [Side -> 0..MaxMsg]
    BY <1>8, <2>3 DEF Delivery, CountersOK
  <2> QED
    BY <1>2, <1>6, <1>7, <2>8, <2>9, <2>10, <2>11 DEF Arrives
<1>11. CASE ~(m.ack > base)
  <2>1. UNCHANGED <<outgoingAckId, outgoingUnackMsg, outgoingMsgId>>
    BY <1>11 DEF Arrives, AcceptAck
  <2>2. UnackExact'
    BY <2>1 DEF Delivery, UnackExact
  <2> QED
    BY <1>2, <1>6, <1>7, <2>1, <2>2
       DEF Delivery, CountersOK, MessagesOK, CountersLag, WrittenIsSound
<1> QED
  BY <1>10, <1>11

\* Reading a message that delivers nothing and may have something written.
LEMMA ReceiveStep ==
    ASSUME Delivery, NEW e \in Side, NEW types, NEW m \in Message, Arrives(e, types, m),
           UNCHANGED <<incomingMsgId, incomingAckId, delivered, socket>>,
           data' \in [Side -> Seq(Message)],
           \A d \in Side : data'[d] \in Seq(Sound(d))
    PROVE  Delivery'
<1>1. CountersOK'
  BY ArrivesEffect DEF Delivery, CountersOK
<1>2. MessagesOK'
  BY ArrivesEffect DEF Delivery, MessagesOK
<1>3. UnackExact'
  BY ArrivesEffect
<1>4. CountersLag'
  BY ArrivesEffect DEF Delivery, CountersLag
<1>5. \A d \in Side : outgoingMsgId'[d] = outgoingMsgId[d] /\ incomingMsgId'[d] = incomingMsgId[d]
  BY ArrivesEffect
<1>6. WrittenIsSound'
  BY <1>5, ArrivesEffect DEF WrittenIsSound, Sound
<1> QED
  BY <1>1, <1>2, <1>3, <1>4, <1>6 DEF Delivery

-----------------------------------------------------------------------------
(* The actions *)

\* Sending numbers the message after the last one and queues it.
LEMMA SendPreserves ==
    ASSUME Delivery, NEW e \in Side, Send(e)
    PROVE  Delivery'
<1> DEFINE n == outgoingMsgId[e] + 1
           a == incomingMsgId[e]
           msg == Regular(n, a)
           q == outgoingUnackMsg[e]
<1>1. /\ outgoingMsgId[e] < MaxMsg
      /\ outgoingMsgId' = [outgoingMsgId EXCEPT ![e] = n]
      /\ incomingAckId' = [incomingAckId EXCEPT ![e] = a]
      /\ outgoingUnackMsg' = [outgoingUnackMsg EXCEPT ![e] = Append(q, msg)]
      /\ UNCHANGED <<outgoingAckId, incomingMsgId, delivered, wire, socket>>
      /\ UNCHANGED data \/ Write(e, <<msg>>)
  BY DEF Send, socketVars
<1>2. /\ n \in 1..MaxMsg /\ n \in Nat /\ a \in 0..MaxMsg /\ a \in Nat
      /\ outgoingMsgId[e] \in Nat
  BY <1>1, CountersNat, BoundAssumption DEF Delivery, CountersOK
<1>3. msg \in Message /\ msg.id = n /\ msg.ack = a
  BY <1>2, MessageTypes DEF Regular
<1> HIDE DEF msg
<1>4. CountersOK'
  BY <1>1, <1>2 DEF Delivery, CountersOK
<1>5. /\ \A d \in Side : outgoingMsgId[d] <= outgoingMsgId'[d]
      /\ outgoingMsgId'[e] = n
  <2>1. \A d \in Side : outgoingMsgId'[d] = IF d = e THEN n ELSE outgoingMsgId[d]
    BY <1>1 DEF Delivery, CountersOK
  <2> QED
    BY <1>2, <2>1, CountersNat DEF Delivery
<1>6. ASSUME NEW d \in Side
      PROVE  Seq(Sound(d)) \subseteq Seq(UpTo(outgoingMsgId'[d], incomingMsgId'[d]))
  <2>1. /\ outgoingMsgId[d] \in Nat /\ incomingMsgId[d] \in Nat
        /\ outgoingMsgId'[d] \in Nat /\ incomingMsgId'[d] = incomingMsgId[d]
    BY <1>1, <1>4, CountersNat, BoundAssumption DEF Delivery, CountersOK
  <2>2. incomingMsgId[d] <= incomingMsgId'[d]
    BY <2>1
  <2> QED
    BY <1>5, <2>1, <2>2, UpToGrows DEF Sound
<1>7. msg \in UpTo(outgoingMsgId'[e], incomingMsgId'[e])
  BY <1>1, <1>2, <1>3, <1>5 DEF UpTo
<1>8. /\ MessagesOK /\ q \in Seq(Message) /\ <<msg>> \in Seq(Message)
      /\ Append(q, msg) \in Seq(Message)
  BY <1>3, SeqParts DEF Delivery, MessagesOK
<1>9. /\ data' \in [Side -> Seq(Message)]
      /\ \A d \in Side : data'[d] = data[d] \/ (d = e /\ data'[d] = data[e] \o <<msg>>)
  <2>1. CASE UNCHANGED data
    BY <1>8, <2>1 DEF MessagesOK
  <2>2. CASE Write(e, <<msg>>)
    BY <1>8, <2>2, WriteEffect
  <2> QED
    BY <1>1, <2>1, <2>2
<1>10. MessagesOK'
  BY <1>1, <1>8, <1>9 DEF MessagesOK
<1>11. UnackExact'
  <2>1. /\ Len(q) + outgoingAckId[e] = outgoingMsgId[e] /\ Len(q) \in Nat
        /\ \A i \in 1..Len(q) : q[i].id = outgoingAckId[e] + i
        /\ outgoingAckId[e] \in Nat
    BY <1>8, CountersNat DEF Delivery, UnackExact
  <2>2. /\ Len(Append(q, msg)) = Len(q) + 1
        /\ \A i \in 1..Len(q) : Append(q, msg)[i] = q[i]
        /\ Append(q, msg)[Len(q) + 1] = msg
    BY <1>3, <1>8
  <2>3. \A i \in 1..(Len(q) + 1) : Append(q, msg)[i].id = outgoingAckId[e] + i
    <3>1. SUFFICES ASSUME NEW i \in 1..(Len(q) + 1)
                   PROVE  Append(q, msg)[i].id = outgoingAckId[e] + i
      OBVIOUS
    <3>2. CASE i \in 1..Len(q)
      BY <2>1, <2>2, <3>2
    <3>3. CASE i = Len(q) + 1
      BY <1>2, <1>3, <2>1, <2>2, <3>3
    <3> QED
      BY <2>1, <3>2, <3>3
  <2>4. Len(Append(q, msg)) + outgoingAckId[e] = n
    BY <2>1, <2>2
  <2>5. ASSUME NEW d \in Side, d # e
        PROVE  outgoingUnackMsg'[d] = outgoingUnackMsg[d] /\ outgoingMsgId'[d] = outgoingMsgId[d]
    BY <1>1, <2>5 DEF Delivery, MessagesOK, CountersOK
  <2>6. outgoingUnackMsg'[e] = Append(q, msg)
    BY <1>1, <1>8 DEF MessagesOK
  <2> QED
    BY <1>1, <1>5, <2>2, <2>3, <2>4, <2>5, <2>6 DEF Delivery, UnackExact
<1>12. CountersLag'
  <2>1. ASSUME NEW d \in Side PROVE incomingMsgId[d] <= outgoingMsgId'[Peer(d)]
    <3>1. Peer(d) \in Side /\ incomingMsgId[d] <= outgoingMsgId[Peer(d)]
      BY PeerSide DEF Delivery, CountersLag
    <3>2. /\ outgoingMsgId[Peer(d)] <= outgoingMsgId'[Peer(d)]
          /\ incomingMsgId[d] \in Nat /\ outgoingMsgId[Peer(d)] \in Nat
          /\ outgoingMsgId'[Peer(d)] \in Nat
      BY <1>4, <1>5, <3>1, CountersNat, BoundAssumption DEF Delivery, CountersOK
    <3> QED
      BY <3>1, <3>2
  <2>2. ASSUME NEW d \in Side PROVE incomingAckId'[d] <= incomingMsgId[d]
    <3>1. incomingAckId'[d] \in {incomingAckId[d], incomingMsgId[d]}
      BY <1>1 DEF Delivery, CountersOK
    <3>2. incomingAckId[d] <= incomingMsgId[d]
      BY DEF Delivery, CountersLag
    <3>3. incomingMsgId[d] \in Nat
      BY CountersNat DEF Delivery
    <3> QED
      BY <3>1, <3>2, <3>3
  <2> QED
    BY <1>1, <2>1, <2>2 DEF Delivery, CountersLag
<1>13. WrittenIsSound'
  <2>1. ASSUME NEW d \in Side
        PROVE  outgoingUnackMsg'[d] \in Seq(UpTo(outgoingMsgId'[d], incomingMsgId'[d]))
    <3>1. outgoingUnackMsg'[d] = IF d = e THEN Append(q, msg) ELSE outgoingUnackMsg[d]
      BY <1>1 DEF Delivery, MessagesOK
    <3>2. outgoingUnackMsg[d] \in Seq(UpTo(outgoingMsgId'[d], incomingMsgId'[d]))
      BY <1>6 DEF Delivery, WrittenIsSound
    <3> QED
      BY <1>7, <3>1, <3>2, SeqParts
  <2>2. ASSUME NEW d \in Side
        PROVE  data'[d] \in Seq(UpTo(outgoingMsgId'[d], incomingMsgId'[d]))
    <3>1. data[d] \in Seq(UpTo(outgoingMsgId'[d], incomingMsgId'[d]))
      BY <1>6 DEF Delivery, WrittenIsSound
    <3>2. <<msg>> \in Seq(UpTo(outgoingMsgId'[e], incomingMsgId'[e]))
      BY <1>7
    <3>3. d = e => data[d] \o <<msg>> \in Seq(UpTo(outgoingMsgId'[d], incomingMsgId'[d]))
      BY <3>1, <3>2, SeqParts
    <3> QED
      BY <1>9, <3>1, <3>3
  <2>3. ASSUME NEW d \in Side, NEW s \in Socket
        PROVE  wire'[s][d] \in Seq(UpTo(outgoingMsgId'[d], incomingMsgId'[d]))
    BY <1>1, <1>6 DEF Delivery, WrittenIsSound
  <2> QED
    BY <2>1, <2>2, <2>3 DEF WrittenIsSound, Sound
<1> QED
  BY <1>4, <1>10, <1>11, <1>12, <1>13 DEF Delivery

\* Receiving the next message advances incomingMsgId and delivers it; a
\* duplicate and a message after a gap change neither.
LEMMA ReceiveRegularPreserves ==
    ASSUME Delivery, NEW e \in Side, ReceiveRegular(e)
    PROVE  Delivery'
<1>1. PICK m \in Message :
         /\ Arrives(e, {"Regular"}, m)
         /\ UNCHANGED <<incomingAckId, socket>>
         /\ UNCHANGED data \/ Write(e, <<Plain("ReplayRequest")>>)
         /\ \/ UNCHANGED <<incomingMsgId, delivered>>
            \/ /\ m.id = incomingMsgId[e] + 1
               /\ incomingMsgId' = [incomingMsgId EXCEPT ![e] = m.id]
               /\ delivered' = [delivered EXCEPT ![e] = Append(@, m.id)]
  BY DEF ReceiveRegular, IsNext, receiveVars
<1>2. /\ data' \in [Side -> Seq(Message)]
      /\ \A d \in Side : data'[d] \in Seq(Sound(d))
  <2>1. CASE UNCHANGED data
    BY <2>1 DEF Delivery, MessagesOK, WrittenIsSound
  <2>2. CASE Write(e, <<Plain("ReplayRequest")>>)
    <3>1. Plain("ReplayRequest") \in Sound(e)
      BY MessageTypes, CountersNat DEF Delivery, Sound, UpTo, Plain
    <3>2. /\ <<Plain("ReplayRequest")>> \in Seq(Message)
          /\ <<Plain("ReplayRequest")>> \in Seq(Sound(e))
      BY <3>1, MessageTypes
    <3>3. data[e] \o <<Plain("ReplayRequest")>> \in Seq(Sound(e))
      BY <3>2, SeqParts DEF Delivery, WrittenIsSound
    <3> QED
      BY <2>2, <3>2, <3>3, WriteEffect DEF Delivery, WrittenIsSound
  <2> QED
    BY <1>1, <2>1, <2>2
<1>3. CASE UNCHANGED <<incomingMsgId, delivered>>
  BY <1>1, <1>2, <1>3, ReceiveStep
<1>4. CASE /\ m.id = incomingMsgId[e] + 1
           /\ incomingMsgId' = [incomingMsgId EXCEPT ![e] = m.id]
           /\ delivered' = [delivered EXCEPT ![e] = Append(@, m.id)]
  <2>1. m.id <= outgoingMsgId[Peer(e)] /\ m.id \in 0..MaxMsg /\ m.id \in Nat
    BY <1>1, ArrivesEffect, MessageFields DEF Sound, UpTo
  <2>2. \A d \in Side : incomingMsgId'[d] = IF d = e THEN m.id ELSE incomingMsgId[d]
    BY <1>4 DEF Delivery, CountersOK
  <2>3. ASSUME NEW d \in Side
        PROVE  incomingMsgId[d] <= incomingMsgId'[d] /\ incomingMsgId'[d] \in Nat
    BY <1>4, <2>1, <2>2, CountersNat DEF Delivery
  <2>4. CountersOK'
    <3>1. delivered' \in [Side -> Seq(Nat)] /\ incomingMsgId' \in [Side -> 0..MaxMsg]
      BY <1>4, <2>1 DEF Delivery, CountersOK
    <3> QED
      BY <1>1, <3>1, ArrivesEffect DEF Delivery, CountersOK
  <2>5. MessagesOK'
    BY <1>1, <1>2, ArrivesEffect DEF Delivery, MessagesOK
  <2>6. UnackExact'
    BY <1>1, ArrivesEffect
  <2>7. CountersLag'
    <3>1. ASSUME NEW d \in Side PROVE incomingAckId'[d] <= incomingMsgId'[d]
      <4>1. incomingAckId[d] <= incomingMsgId[d] /\ incomingAckId'[d] = incomingAckId[d]
        BY <1>1 DEF Delivery, CountersLag
      <4> QED
        BY <2>3, <4>1, CountersNat DEF Delivery
    <3>2. ASSUME NEW d \in Side PROVE incomingMsgId'[d] <= outgoingMsgId'[Peer(d)]
      <4>1. outgoingMsgId' = outgoingMsgId
        BY <1>1, ArrivesEffect
      <4>2. incomingMsgId[d] <= outgoingMsgId[Peer(d)]
        BY DEF Delivery, CountersLag
      <4> QED
        BY <2>1, <2>2, <4>1, <4>2
    <3>3. ASSUME NEW d \in Side PROVE outgoingAckId'[d] <= incomingMsgId'[Peer(d)]
      <4>1. outgoingAckId'[d] <= incomingMsgId[Peer(d)] /\ outgoingAckId'[d] \in Nat
        BY <1>1, <2>4, ArrivesEffect, CountersNat, BoundAssumption DEF CountersOK
      <4>2. Peer(d) \in Side
        BY PeerSide
      <4>3. /\ incomingMsgId[Peer(d)] <= incomingMsgId'[Peer(d)]
            /\ incomingMsgId'[Peer(d)] \in Nat
            /\ incomingMsgId[Peer(d)] \in Nat
        BY <2>3, <4>2, CountersNat DEF Delivery
      <4> QED
        BY <4>1, <4>3
    <3>4. ASSUME NEW d \in Side PROVE delivered'[d] = [i \in 1..incomingMsgId'[d] |-> i]
      <4>1. delivered[d] = [i \in 1..incomingMsgId[d] |-> i] /\ incomingMsgId[d] \in Nat
        BY CountersNat DEF Delivery, CountersLag
      <4>2. CASE d # e
        BY <1>4, <2>2, <4>1, <4>2 DEF Delivery, CountersOK
      <4>3. CASE d = e
        <5>1. delivered'[d] = Append([i \in 1..incomingMsgId[d] |-> i], incomingMsgId[d] + 1)
          BY <1>4, <4>1, <4>3 DEF Delivery, CountersOK
        <5>2. Append([i \in 1..incomingMsgId[d] |-> i], incomingMsgId[d] + 1)
              = [i \in 1..(incomingMsgId[d] + 1) |-> i]
          BY <4>1
        <5> QED
          BY <1>4, <2>2, <4>3, <5>1, <5>2
      <4> QED
        BY <4>2, <4>3
    <3> QED
      BY <3>1, <3>2, <3>3, <3>4 DEF CountersLag
  <2>8. WrittenIsSound'
    <3>1. ASSUME NEW d \in Side
          PROVE  Seq(Sound(d)) \subseteq Seq(UpTo(outgoingMsgId'[d], incomingMsgId'[d]))
      <4>1. outgoingMsgId'[d] = outgoingMsgId[d] /\ outgoingMsgId[d] \in Nat
            /\ incomingMsgId[d] \in Nat
        BY <1>1, ArrivesEffect, CountersNat DEF Delivery
      <4>2. outgoingMsgId[d] <= outgoingMsgId'[d] /\ outgoingMsgId'[d] \in Nat
        BY <4>1
      <4> QED
        BY <2>3, <4>1, <4>2, UpToGrows DEF Sound
    <3>2. \A d \in Side : /\ outgoingUnackMsg'[d] \in Seq(Sound(d))
                          /\ data'[d] \in Seq(Sound(d))
                          /\ \A s \in Socket : wire'[s][d] \in Seq(Sound(d))
      BY <1>1, <1>2, ArrivesEffect
    <3> QED
      BY <3>1, <3>2 DEF WrittenIsSound, Sound
  <2> QED
    BY <2>4, <2>5, <2>6, <2>7, <2>8 DEF Delivery
<1> QED
  BY <1>1, <1>3, <1>4

\* The other calls of an owner.
LEMMA CallPreserves ==
    ASSUME Delivery, NEW e \in Side,
           \/ \E d \in ControlData : SendControl(e, d)
           \/ \E t \in {"Pause", "Resume"} : SendPauseOrResume(e, t)
           \/ PauseSocketWriting(e) \/ Flush(e) \/ SendDisconnect(e) \/ AcceptDisconnect(e)
           \/ Dispose(e)
           \/ \E s \in Socket : BeginAcceptReconnection(e, s)
           \/ EndAcceptReconnection(e)
    PROVE  Delivery'
<1>1. /\ data[e] \in Seq(Sound(e)) /\ outgoingUnackMsg[e] \in Seq(Sound(e))
      /\ <<>> \in Seq(Sound(e)) /\ socket \in [Side -> Socket]
      /\ data \in [Side -> Seq(Message)]
  BY DEF Delivery, WrittenIsSound, MessagesOK
<1>2. ASSUME NEW m \in Message, m.id = 0, m.ack = 0
      PROVE  m \in Sound(e) /\ <<m>> \in Seq(Sound(e)) /\ Append(data[e], m) \in Seq(Sound(e))
  <2>1. m \in Sound(e)
    BY <1>2, CountersNat DEF Delivery, Sound, UpTo
  <2> QED
    BY <1>1, <2>1
<1>3. ASSUME NEW d \in ControlData, SendControl(e, d) PROVE Delivery'
  <2>1. <<Control(d)>> \in Seq(Sound(e))
    BY <1>2, MessageTypes DEF Control
  <2> QED
    BY <1>3, <2>1, WriteStep DEF SendControl, receiveVars, socketVars
<1>4. ASSUME NEW t \in {"Pause", "Resume"}, SendPauseOrResume(e, t) PROVE Delivery'
  <2>1. <<Plain(t)>> \in Seq(Sound(e))
    BY <1>2, MessageTypes DEF Plain
  <2> QED
    BY <1>4, <2>1, WriteStep DEF SendPauseOrResume, receiveVars, socketVars
<1>5. CASE PauseSocketWriting(e)
  BY <1>5, SilentStep DEF PauseSocketWriting, receiveVars, socketVars
<1>6. CASE Flush(e)
  BY <1>1, <1>6, PutStep DEF Flush, receiveVars, socketVars
<1>7. CASE SendDisconnect(e)
  <2> DEFINE buffer == IF isDisposed[e] THEN data[e] ELSE Append(data[e], Plain("Disconnect"))
  <2>1. buffer \in Seq(Sound(e))
    BY <1>1, <1>2, MessageTypes DEF Plain
  <2>2. Put(e, Flushed(e, buffer)) /\ data' = [data EXCEPT ![e] = Kept(e, buffer)]
    BY <1>7 DEF SendDisconnect
  <2> HIDE DEF buffer
  <2> QED
    BY <1>7, <2>1, <2>2, PutStep DEF SendDisconnect, receiveVars, socketVars
<1>8. CASE AcceptDisconnect(e)
  BY <1>8, SilentStep DEF AcceptDisconnect, receiveVars, socketVars, writerVars
<1>9. CASE Dispose(e)
  <2>1. \E b \in Seq(Sound(e)) : data' = [data EXCEPT ![e] = b]
    BY <1>1, <1>9, FlushedEffect DEF Dispose
  <2> QED
    BY <1>1, <1>9, <2>1, LeaveStep DEF Dispose, receiveVars, socketVars
<1>10. ASSUME NEW s \in Socket, BeginAcceptReconnection(e, s) PROVE Delivery'
  <2>1. socket' \in [Side -> Socket] /\ data' = [data EXCEPT ![e] = <<>>]
    BY <1>1, <1>10 DEF BeginAcceptReconnection
  <2> QED
    BY <1>1, <1>10, <2>1, LeaveStep DEF BeginAcceptReconnection, receiveVars
<1>11. CASE EndAcceptReconnection(e)
  <2> DEFINE ack == AckOf("Ack", incomingMsgId[e])
  <2>1. ack \in Sound(e)
    BY MessageTypes, CountersNat DEF Delivery, CountersOK, Sound, UpTo, AckOf
  <2>2. <<ack>> \o outgoingUnackMsg[e] \in Seq(Sound(e))
    BY <1>1, <2>1
  <2>3. Write(e, <<ack>> \o outgoingUnackMsg[e])
    BY <1>11 DEF EndAcceptReconnection
  <2> HIDE DEF ack
  <2> QED
    BY <1>11, <2>2, <2>3, WriteStep DEF EndAcceptReconnection
<1> QED
  BY <1>3, <1>4, <1>5, <1>6, <1>7, <1>8, <1>9, <1>10, <1>11

LEMMA TimerPreserves ==
    ASSUME Delivery, NEW e \in Side,
           \/ WriteNow(e) \/ IncomingAckTimer(e) \/ OutgoingAckTimer(e)
           \/ SendKeepAlive(e) \/ ReplayWindowElapses(e)
    PROVE  Delivery'
<1>1. data[e] \in Seq(Sound(e))
  BY DEF Delivery, WrittenIsSound
<1>2. \A t \in {"Ack", "KeepAlive"} : <<AckOf(t, incomingMsgId[e])>> \in Seq(Sound(e))
  <2>1. \A t \in {"Ack", "KeepAlive"} : AckOf(t, incomingMsgId[e]) \in Sound(e)
    BY MessageTypes, CountersNat DEF Delivery, CountersOK, Sound, UpTo, AckOf
  <2> QED
    BY <2>1
<1>3. CASE WriteNow(e)
  BY <1>1, <1>3, PutStep DEF WriteNow, receiveVars, socketVars
<1>4. CASE IncomingAckTimer(e)
  <2>1. CASE incomingMsgId[e] <= incomingAckId[e]
    BY <1>4, <2>1, SilentStep DEF IncomingAckTimer, socketVars
  <2>2. CASE ~(incomingMsgId[e] <= incomingAckId[e])
    BY <1>2, <1>4, <2>2, WriteStep DEF IncomingAckTimer, socketVars
  <2> QED
    BY <2>1, <2>2
<1>5. CASE OutgoingAckTimer(e)
  BY <1>5, SilentStep DEF OutgoingAckTimer, receiveVars, writerVars, socketVars
<1>6. CASE SendKeepAlive(e)
  BY <1>2, <1>6, WriteStep DEF SendKeepAlive, socketVars
<1>7. CASE ReplayWindowElapses(e)
  BY <1>7, SilentStep DEF ReplayWindowElapses, receiveVars, writerVars
<1> QED
  BY <1>3, <1>4, <1>5, <1>6, <1>7

LEMMA ReceivePreserves ==
    ASSUME Delivery, NEW e \in Side,
           \/ ReceiveAckOrKeepAlive(e) \/ ReceiveControl(e) \/ ReceiveDisconnect(e)
           \/ ReceiveReplayRequest(e) \/ ReceivePause(e) \/ ReceiveResume(e)
    PROVE  Delivery'
<1>1. ASSUME NEW m \in Message, NEW types, Arrives(e, types, m),
             UNCHANGED <<incomingMsgId, incomingAckId, delivered, socket, data>>
      PROVE  Delivery'
  BY <1>1, ReceiveStep DEF Delivery, MessagesOK, WrittenIsSound
<1>2. CASE ReceiveAckOrKeepAlive(e)
  BY <1>1, <1>2 DEF ReceiveAckOrKeepAlive, receiveVars, socketVars, writerVars
<1>3. CASE ReceiveControl(e)
  BY <1>1, <1>3 DEF ReceiveControl, receiveVars, socketVars, writerVars
<1>4. CASE ReceiveDisconnect(e)
  BY <1>1, <1>4 DEF ReceiveDisconnect, receiveVars, socketVars, writerVars
<1>5. CASE ReceivePause(e)
  BY <1>1, <1>5 DEF ReceivePause, receiveVars, socketVars
<1>6. CASE ReceiveResume(e)
  BY <1>1, <1>6 DEF ReceiveResume, receiveVars, socketVars
<1>7. CASE ReceiveReplayRequest(e)
  <2>1. PICK m \in Message :
           /\ Arrives(e, {"ReplayRequest"}, m)
           /\ Write(e, outgoingUnackMsg'[e])
           /\ UNCHANGED <<incomingMsgId, incomingAckId, delivered, socket>>
    BY <1>7 DEF ReceiveReplayRequest, receiveVars, socketVars
  <2>2. outgoingUnackMsg'[e] \in Seq(Sound(e)) /\ outgoingUnackMsg'[e] \in Seq(Message)
    BY <2>1, ArrivesEffect, SoundIsMessage
  <2>3. data[e] \o outgoingUnackMsg'[e] \in Seq(Sound(e))
    BY <2>2, SeqParts DEF Delivery, WrittenIsSound
  <2>4. /\ data' \in [Side -> Seq(Message)]
        /\ \A d \in Side : data'[d] \in Seq(Sound(d))
    BY <2>1, <2>2, <2>3, WriteEffect DEF Delivery, WrittenIsSound
  <2> QED
    BY <2>1, <2>4, ReceiveStep
<1> QED
  BY <1>2, <1>3, <1>4, <1>5, <1>6, <1>7

LEMMA EnvironmentPreserves ==
    ASSUME Delivery, Loss \/ \E e \in Side : ReadControlMessage(e)
    PROVE  Delivery'
<1>1. ASSUME NEW s \in Socket, NEW e \in Side, NEW i \in DOMAIN wire[s][e], Lose(s, e, i)
      PROVE  Delivery'
  <2> DEFINE w == wire[s][e]
             l == SubSeq(w, 1, i - 1)
             r == SubSeq(w, i + 1, Len(w))
  <2>1. /\ w \in Seq(Sound(e)) /\ i \in 1..Len(w) /\ Len(w) \in Nat
        /\ wire \in [Socket -> [Side -> Seq(Message)]]
    BY DEF Delivery, WrittenIsSound, MessagesOK
  <2>2. l \in Seq(Sound(e)) /\ r \in Seq(Sound(e))
    <3>1. /\ 1 \in 1..Len(w)+1 /\ i - 1 \in 0..Len(w)
          /\ i + 1 \in 1..Len(w)+1 /\ Len(w) \in 0..Len(w)
      BY <2>1
    <3> QED
      BY <2>1, <3>1, SubSeqType
  <2>3. l \o r \in Seq(Sound(e)) /\ l \o r \in Seq(Message)
    BY <2>2, SeqParts, SoundIsMessage
  <2>4. wire' = [wire EXCEPT ![s] = [wire[s] EXCEPT ![e] = l \o r]]
    BY <1>1 DEF Lose
  <2> HIDE DEF l, r, w
  <2>5. [wire[s] EXCEPT ![e] = l \o r] \in [Side -> Seq(Message)]
    BY <2>1, <2>3
  <2>6. wire' \in [Socket -> [Side -> Seq(Message)]]
    BY <2>1, <2>4, <2>5
  <2>7. MessagesOK'
    BY <1>1, <2>6 DEF Lose, Delivery, MessagesOK, sendVars, writerVars, socketVars
  <2>8. \A t \in Socket, d \in Side : wire'[t][d] = wire[t][d] \/ (d = e /\ wire'[t][d] = l \o r)
    BY <2>1, <2>4
  <2>9. \A t \in Socket, d \in Side : wire'[t][d] \in Seq(Sound(d))
    BY <2>3, <2>8 DEF Delivery, WrittenIsSound
  <2> QED
    BY <1>1, <2>7, <2>9, FrameStep
       DEF Lose, Delivery, WrittenIsSound, receiveVars, writerVars, socketVars
<1>2. ASSUME NEW e \in Side, ReadControlMessage(e) PROVE Delivery'
  BY <1>2, SilentStep DEF ReadControlMessage, receiveVars, writerVars, socketVars
<1> QED
  BY <1>1, <1>2 DEF Loss

LEMMA InitDelivery == Init => Delivery
<1> SUFFICES ASSUME Init PROVE Delivery
  OBVIOUS
<1>1. CountersOK
  BY BoundAssumption DEF Init, CountersOK
<1>2. MessagesOK
  BY SocketAssumption DEF Init, MessagesOK
<1>3. UnackExact
  BY DEF Init, UnackExact
<1>4. CountersLag
  BY PeerSide DEF Init, CountersLag
<1>5. WrittenIsSound
  BY DEF Init, WrittenIsSound
<1> QED
  BY <1>1, <1>2, <1>3, <1>4, <1>5 DEF Delivery

LEMMA NextDelivery == Delivery /\ [Next]_vars => Delivery'
<1> SUFFICES ASSUME Delivery, [Next]_vars PROVE Delivery'
  OBVIOUS
<1>1. CASE UNCHANGED vars
  BY <1>1, SilentStep DEF vars, receiveVars, writerVars, socketVars
<1>2. CASE Loss
  BY <1>2, EnvironmentPreserves
<1>3. ASSUME NEW e \in Side, Traffic(e) PROVE Delivery'
  BY <1>3, SendPreserves, TimerPreserves, ReceiveRegularPreserves, ReceivePreserves
     DEF Traffic
<1>4. ASSUME NEW e \in Side, Reconnection(e) PROVE Delivery'
  BY <1>4, CallPreserves DEF Reconnection
<1>5. ASSUME NEW e \in Side, ControlTraffic(e) PROVE Delivery'
  BY <1>5, CallPreserves, TimerPreserves, ReceivePreserves, EnvironmentPreserves
     DEF ControlTraffic
<1>6. ASSUME NEW e \in Side, WriterControl(e) PROVE Delivery'
  BY <1>6, CallPreserves, ReceivePreserves DEF WriterControl
<1>7. ASSUME NEW e \in Side, Shutdown(e) PROVE Delivery'
  BY <1>7, CallPreserves, ReceivePreserves DEF Shutdown
<1> QED
  BY <1>1, <1>2, <1>3, <1>4, <1>5, <1>6, <1>7 DEF Next

-----------------------------------------------------------------------------
(* The theorems *)

\* Nothing an execution does breaks Delivery.
THEOREM DeliveryInvariant == Spec => []Delivery
<1> QED
  BY InitDelivery, NextDelivery, PTL DEF Spec

\* What onMessage fired at an endpoint is 1, 2, ..., up to what was received,
\* and never more than the peer sent.
THEOREM ExactlyOnceInOrderTheorem == Spec => []ExactlyOnceInOrder
<1>1. Delivery => ExactlyOnceInOrder
  <2>1. SUFFICES ASSUME Delivery, NEW e \in Side
                 PROVE  /\ delivered[e] = [i \in 1..Len(delivered[e]) |-> i]
                        /\ Len(delivered[e]) <= outgoingMsgId[Peer(e)]
    BY DEF ExactlyOnceInOrder
  <2>2. /\ delivered[e] = [i \in 1..incomingMsgId[e] |-> i]
        /\ incomingMsgId[e] <= outgoingMsgId[Peer(e)]
        /\ incomingMsgId[e] \in Nat
    BY <2>1, CountersNat DEF Delivery, CountersLag
  <2>3. Len(delivered[e]) = incomingMsgId[e]
    BY <2>2
  <2> QED
    BY <2>2, <2>3
<1> QED
  BY <1>1, DeliveryInvariant, PTL

\* A message is in its sender's queue until the peer has delivered it.
THEOREM NoMessageLostTheorem == Spec => []NoMessageLost
<1>1. Delivery => NoMessageLost
  <2>1. SUFFICES ASSUME Delivery, NEW e \in Side, NEW i \in 1..outgoingMsgId[e],
                        ~(i <= Len(delivered[Peer(e)]))
                 PROVE  \E k \in 1..Len(outgoingUnackMsg[e]) : outgoingUnackMsg[e][k].id = i
    BY DEF NoMessageLost
  <2> DEFINE p == Peer(e)
             k == i - outgoingAckId[e]
  <2>2. p \in Side /\ Peer(p) = e
    BY PeerSide
  <2>3. /\ delivered[p] = [j \in 1..incomingMsgId[p] |-> j]
        /\ outgoingAckId[e] <= incomingMsgId[p]
        /\ incomingMsgId[p] \in Nat /\ outgoingAckId[e] \in Nat /\ outgoingMsgId[e] \in Nat
    BY <2>1, <2>2, CountersNat DEF Delivery, CountersLag
  <2>4. Len(delivered[p]) = incomingMsgId[p]
    BY <2>3
  <2>5. /\ Len(outgoingUnackMsg[e]) + outgoingAckId[e] = outgoingMsgId[e]
        /\ Len(outgoingUnackMsg[e]) \in Nat
        /\ \A j \in 1..Len(outgoingUnackMsg[e]) :
              outgoingUnackMsg[e][j].id = outgoingAckId[e] + j
    BY <2>1 DEF Delivery, UnackExact, MessagesOK
  <2>6. k \in 1..Len(outgoingUnackMsg[e])
    BY <2>1, <2>3, <2>4, <2>5
  <2>7. outgoingUnackMsg[e][k].id = outgoingAckId[e] + k
    BY <2>5, <2>6
  <2>8. outgoingAckId[e] + k = i
    BY <2>3
  <2> HIDE DEF k
  <2> QED
    BY <2>6, <2>7, <2>8
<1> QED
  BY <1>1, DeliveryInvariant, PTL

\* The two endpoints, over any losses and socket changes, implement the
\* reliable channel: a step of the protocol sends, delivers or stutters there.
THEOREM Refinement == Spec => ImplementsReliableChannel
<1>1. Init => Channel!Init
  BY DEF Init, Channel!Init, Channel!Side, Side
<1>2. Delivery /\ [Next]_vars => [Channel!Next]_<<outgoingMsgId, delivered>>
  <2>1. SUFFICES ASSUME Delivery, [Next]_vars
                 PROVE  [Channel!Next]_<<outgoingMsgId, delivered>>
    OBVIOUS
  <2>2. ASSUME NEW e \in Side, Send(e) PROVE Channel!Next
    BY <2>2 DEF Send, Channel!Next, Channel!Send, Channel!Side, Side
  <2>3. ASSUME NEW e \in Side, ReceiveRegular(e), ~UNCHANGED <<outgoingMsgId, delivered>>
        PROVE  Channel!Next
    <3>1. PICK m \in Message :
             /\ Arrives(e, {"Regular"}, m)
             /\ m.id = incomingMsgId[e] + 1
             /\ delivered' = [delivered EXCEPT ![e] = Append(@, m.id)]
             /\ outgoingMsgId' = outgoingMsgId
      BY <2>3 DEF ReceiveRegular, IsNext, receiveVars, Arrives
    <3>2. m.id <= outgoingMsgId[Peer(e)]
      BY <2>1, <3>1, ArrivesEffect DEF Sound, UpTo
    <3>3. delivered[e] = [i \in 1..incomingMsgId[e] |-> i] /\ incomingMsgId[e] \in Nat
      BY <2>1, CountersNat DEF Delivery, CountersLag
    <3>4. Len(delivered[e]) = incomingMsgId[e]
      BY <3>3
    <3>5. Peer(e) \in Side /\ outgoingMsgId[Peer(e)] \in Nat
      BY <2>1, PeerSide, CountersNat DEF Delivery
    <3>6. Len(delivered[e]) < outgoingMsgId[Peer(e)]
      BY <3>1, <3>2, <3>3, <3>4, <3>5
    <3>7. Channel!Deliver(e)
      BY <3>1, <3>4, <3>6 DEF Channel!Deliver, Channel!Peer, Peer
    <3> QED
      BY <3>7 DEF Channel!Next, Channel!Side, Side
  <2>4. ASSUME NEW e \in Side, NEW m, NEW types, Arrives(e, types, m), UNCHANGED receiveVars
        PROVE  UNCHANGED <<outgoingMsgId, delivered>>
    BY <2>4 DEF Arrives, receiveVars
  <2>5. ASSUME NEW e \in Side, Traffic(e)
        PROVE  [Channel!Next]_<<outgoingMsgId, delivered>>
    <3>1. CASE Send(e) \/ ReceiveRegular(e)
      BY <2>2, <2>3, <3>1
    <3>2. CASE ReceiveAckOrKeepAlive(e) \/ ReceiveReplayRequest(e)
      BY <2>4, <3>2 DEF ReceiveAckOrKeepAlive, ReceiveReplayRequest
    <3>3. CASE WriteNow(e) \/ IncomingAckTimer(e) \/ OutgoingAckTimer(e)
               \/ ReplayWindowElapses(e)
      BY <3>3 DEF WriteNow, IncomingAckTimer, OutgoingAckTimer, ReplayWindowElapses,
                  sendVars, receiveVars
    <3> QED
      BY <2>5, <3>1, <3>2, <3>3 DEF Traffic
  <2>6. ASSUME NEW e \in Side,
               Reconnection(e) \/ ControlTraffic(e) \/ WriterControl(e) \/ Shutdown(e)
        PROVE  UNCHANGED <<outgoingMsgId, delivered>>
    <3>1. CASE Reconnection(e)
      BY <3>1 DEF Reconnection, BeginAcceptReconnection, EndAcceptReconnection,
                  sendVars, receiveVars
    <3>2. CASE ControlTraffic(e)
      BY <2>4, <3>2 DEF ControlTraffic, SendKeepAlive, SendControl, ReceiveControl,
                  ReadControlMessage, sendVars, receiveVars
    <3>3. CASE WriterControl(e)
      BY <2>4, <3>3 DEF WriterControl, SendPauseOrResume, ReceivePause, ReceiveResume,
                  PauseSocketWriting, Flush, sendVars, receiveVars
    <3>4. CASE Shutdown(e)
      BY <2>4, <3>4 DEF Shutdown, SendDisconnect, ReceiveDisconnect, AcceptDisconnect,
                  Dispose, sendVars, receiveVars
    <3> QED
      BY <2>6, <3>1, <3>2, <3>3, <3>4
  <2>7. CASE Loss
    BY <2>7 DEF Loss, Lose, sendVars, receiveVars
  <2>8. CASE UNCHANGED vars
    BY <2>8 DEF vars, sendVars, receiveVars
  <2> QED
    BY <2>1, <2>5, <2>6, <2>7, <2>8 DEF Next
<1> QED
  BY <1>1, <1>2, DeliveryInvariant, PTL DEF Spec, ImplementsReliableChannel, Channel!Spec

-----------------------------------------------------------------------------
(* Timers: nothing that needs a later check is left without one. *)

Watched == OwedAckHasTimer /\ UnackedIsWatched /\ BufferedIsScheduled
TimersInvariant == Delivery /\ FlagsOK /\ Watched

\* A step that leaves the timers, the writer and the counters alone.
LEMMA WatchedFrame ==
    ASSUME Watched, UNCHANGED <<sendVars, receiveVars, watchdogVars, writerVars, isReconnecting,
                                isDisposed>>
    PROVE  Watched'
  BY DEF Watched, OwedAckHasTimer, UnackedIsWatched, BufferedIsScheduled,
         sendVars, receiveVars, watchdogVars, writerVars

\* write schedules a flush when the buffer was empty.
LEMMA WriteSchedules ==
    ASSUME Delivery, FlagsOK, BufferedIsScheduled, NEW e \in Side, NEW msgs, Write(e, msgs),
           UNCHANGED isPaused
    PROVE  BufferedIsScheduled' /\ writeNowTimeout' \in [Side -> BOOLEAN]
<1>1. /\ data \in [Side -> Seq(Message)]
      /\ writeNowTimeout \in [Side -> BOOLEAN]
  BY DEF Delivery, MessagesOK, FlagsOK
<1>2. CASE UNCHANGED <<data, writeNowTimeout>>
  BY <1>1, <1>2 DEF BufferedIsScheduled
<1>3. CASE /\ data' = [data EXCEPT ![e] = @ \o msgs]
           /\ writeNowTimeout' = [writeNowTimeout EXCEPT ![e] = @ \/ data[e] = <<>>]
  <2>1. (writeNowTimeout[e] \/ data[e] = <<>>) \in BOOLEAN
    OBVIOUS
  <2>2. writeNowTimeout' \in [Side -> BOOLEAN]
    BY <1>1, <1>3, <2>1
  <2>3. ASSUME NEW d \in Side, data'[d] # <<>>, ~isPaused'[d] PROVE writeNowTimeout'[d]
    <3>1. CASE d # e
      BY <1>1, <1>3, <2>3, <3>1 DEF BufferedIsScheduled
    <3>2. CASE d = e
      <4>1. writeNowTimeout'[e] = (writeNowTimeout[e] \/ data[e] = <<>>)
        BY <1>1, <1>3
      <4>2. data[e] # <<>> => writeNowTimeout[e]
        BY <2>3, <3>2 DEF BufferedIsScheduled
      <4> QED
        BY <3>2, <4>1, <4>2
    <3> QED
      BY <3>1, <3>2
  <2> QED
    BY <2>2, <2>3 DEF BufferedIsScheduled
<1> QED
  BY <1>2, <1>3 DEF Write

\* _recvAckCheck watches what is unacknowledged.
LEMMA RecvAckCheckWatches ==
    ASSUME FlagsOK, UnackedIsWatched, NEW e \in Side, NEW armed \in BOOLEAN,
           RecvAckCheck(e, armed), UNCHANGED isDisposed,
           \A d \in Side : d # e => /\ outgoingMsgId'[d] = outgoingMsgId[d]
                                    /\ outgoingAckId'[d] = outgoingAckId[d]
                                    /\ isReconnecting'[d] = isReconnecting[d]
    PROVE  /\ UnackedIsWatched'
           /\ outgoingAckTimeout' \in [Side -> BOOLEAN]
           /\ socketTimeout' \in [Side -> BOOLEAN]
<1> DEFINE due == outgoingMsgId'[e] > outgoingAckId'[e] /\ ~armed /\ ~isReconnecting'[e]
<1>1. outgoingAckTimeout \in [Side -> BOOLEAN] /\ socketTimeout \in [Side -> BOOLEAN]
  BY DEF FlagsOK
<1>2. CASE /\ outgoingAckTimeout' = [outgoingAckTimeout EXCEPT ![e] = armed \/ due]
           /\ UNCHANGED socketTimeout
  <2>1. (armed \/ due) \in BOOLEAN
    OBVIOUS
  <2>2. outgoingAckTimeout' \in [Side -> BOOLEAN]
    BY <1>1, <1>2, <2>1
  <2>3. outgoingAckTimeout'[e] = (armed \/ due)
    BY <1>1, <1>2
  <2>4. \A d \in Side : d # e => outgoingAckTimeout'[d] = outgoingAckTimeout[d]
    BY <1>1, <1>2
  <2> QED
    BY <1>1, <1>2, <2>2, <2>3, <2>4 DEF UnackedIsWatched
<1>3. CASE /\ outgoingAckTimeout' = [outgoingAckTimeout EXCEPT ![e] = FALSE]
           /\ socketTimeout' = [socketTimeout EXCEPT ![e] = TRUE]
  BY <1>1, <1>3 DEF UnackedIsWatched
<1> QED
  BY <1>2, <1>3 DEF RecvAckCheck

\* Acknowledging what was received, or nothing, leaves no ack without a check.
LEMMA OwedFrame ==
    ASSUME Delivery, OwedAckHasTimer,
           UNCHANGED <<isDisposed, isReconnecting, incomingAckTimeout, incomingMsgId>>,
           \/ UNCHANGED incomingAckId
           \/ \E e \in Side : incomingAckId' = [incomingAckId EXCEPT ![e] = incomingMsgId[e]]
    PROVE  OwedAckHasTimer'
<1>1. \A d \in Side : incomingAckId'[d] \in {incomingAckId[d], incomingMsgId[d]}
  BY DEF Delivery, CountersOK
<1>2. \A d \in Side : incomingMsgId[d] \in Nat
  BY CountersNat DEF Delivery
<1> QED
  BY <1>1, <1>2 DEF OwedAckHasTimer

\* Reading an acknowledgement leaves less to watch.
LEMMA UnackedFrame ==
    ASSUME Delivery, UnackedIsWatched, NEW e \in Side, NEW types, NEW m \in Message,
           Arrives(e, types, m),
           UNCHANGED <<isDisposed, isReconnecting, watchdogVars>>
    PROVE  UnackedIsWatched'
<1>1. \A d \in Side : outgoingAckId'[d] = outgoingAckId[d] \/ outgoingAckId'[d] > outgoingAckId[d]
  BY DEF Arrives, AcceptAck, Delivery, CountersOK
<1>2. \A d \in Side : outgoingMsgId'[d] = outgoingMsgId[d]
  BY DEF Arrives
<1>3. \A d \in Side : /\ outgoingMsgId[d] \in Nat /\ outgoingAckId[d] \in Nat
                      /\ outgoingAckId'[d] \in Nat
  BY ArrivesEffect, CountersNat, BoundAssumption DEF Delivery
<1>4. \A d \in Side : outgoingMsgId'[d] > outgoingAckId'[d] => outgoingMsgId[d] > outgoingAckId[d]
  BY <1>1, <1>2, <1>3
<1> QED
  BY <1>4 DEF UnackedIsWatched, watchdogVars

\* What a flush leaves in the buffer is paused.
LEMMA FlushSchedules ==
    ASSUME Delivery, BufferedIsScheduled, NEW e \in Side, NEW buffer,
           data' = [data EXCEPT ![e] = Kept(e, buffer)], UNCHANGED isPaused,
           \A d \in Side : d # e => writeNowTimeout'[d] = writeNowTimeout[d]
    PROVE  BufferedIsScheduled'
  BY DEF Delivery, MessagesOK, BufferedIsScheduled, Kept

LEMMA CallTimers ==
    ASSUME TimersInvariant, NEW e \in Side,
           \/ Send(e)
           \/ \E d \in ControlData : SendControl(e, d)
           \/ \E t \in {"Pause", "Resume"} : SendPauseOrResume(e, t)
           \/ PauseSocketWriting(e) \/ Flush(e) \/ SendDisconnect(e) \/ AcceptDisconnect(e)
           \/ Dispose(e)
           \/ \E s \in Socket : BeginAcceptReconnection(e, s)
           \/ EndAcceptReconnection(e)
    PROVE  FlagsOK' /\ Watched'
<1> USE DEF TimersInvariant
<1>1. CASE Send(e)
  <2>1. OwedAckHasTimer'
    BY <1>1, OwedFrame DEF Send, Watched, socketVars
  <2>2. CASE isReconnecting[e]
    <3>1. UnackedIsWatched' /\ BufferedIsScheduled' /\ FlagsOK'
      BY <1>1, <2>2 DEF Send, Watched, Delivery, CountersOK, UnackedIsWatched,
         BufferedIsScheduled, FlagsOK, socketVars, eventVars, watchdogVars
    <3> QED
      BY <2>1, <3>1 DEF Watched
  <2>3. CASE ~isReconnecting[e]
    <3>1. PICK msg : /\ Write(e, <<msg>>) /\ RecvAckCheck(e, outgoingAckTimeout[e])
                     /\ UNCHANGED <<isDisposed, isReconnecting, isPaused, outgoingAckId,
                                    incomingAckTimeout, lastReplayRequest, didDispose,
                                    didSendDisconnect, keepAliveInterval>>
                     /\ outgoingMsgId' = [outgoingMsgId EXCEPT ![e] = @ + 1]
      BY <1>1, <2>3 DEF Send, socketVars, eventVars
    <3>2. BufferedIsScheduled' /\ writeNowTimeout' \in [Side -> BOOLEAN]
      BY <3>1, WriteSchedules DEF Watched
    <3>3. /\ outgoingAckTimeout[e] \in BOOLEAN
          /\ \A d \in Side : d # e => outgoingMsgId'[d] = outgoingMsgId[d]
      BY <3>1 DEF FlagsOK, Delivery, CountersOK
    <3>4. /\ UnackedIsWatched' /\ outgoingAckTimeout' \in [Side -> BOOLEAN]
          /\ socketTimeout' \in [Side -> BOOLEAN]
      BY <3>1, <3>3, RecvAckCheckWatches DEF Watched
    <3>5. FlagsOK'
      BY <3>1, <3>2, <3>4 DEF FlagsOK
    <3> QED
      BY <2>1, <3>2, <3>4, <3>5 DEF Watched
  <2> QED
    BY <2>2, <2>3
<1>2. ASSUME NEW msgs, Write(e, msgs),
             UNCHANGED <<sendVars, receiveVars, watchdogVars, isPaused, socketVars, eventVars>>
      PROVE  FlagsOK' /\ Watched'
  <2>1. BufferedIsScheduled' /\ writeNowTimeout' \in [Side -> BOOLEAN]
    BY <1>2, WriteSchedules DEF Watched
  <2>2. FlagsOK'
    BY <1>2, <2>1 DEF FlagsOK, receiveVars, watchdogVars, socketVars, eventVars
  <2>3. OwedAckHasTimer' /\ UnackedIsWatched'
    BY <1>2 DEF Watched, OwedAckHasTimer, UnackedIsWatched, sendVars, receiveVars,
                watchdogVars, socketVars
  <2> QED
    BY <2>1, <2>2, <2>3 DEF Watched
<1>3. CASE \/ \E d \in ControlData : SendControl(e, d)
           \/ \E t \in {"Pause", "Resume"} : SendPauseOrResume(e, t)
  BY <1>2, <1>3 DEF SendControl, SendPauseOrResume
<1>4. CASE PauseSocketWriting(e)
  <2>1. isPaused' \in [Side -> BOOLEAN]
    BY <1>4 DEF PauseSocketWriting, FlagsOK
  <2>2. FlagsOK'
    BY <1>4, <2>1 DEF PauseSocketWriting, FlagsOK, receiveVars, watchdogVars, socketVars, eventVars
  <2>3. BufferedIsScheduled'
    BY <1>4 DEF PauseSocketWriting, FlagsOK, Watched, BufferedIsScheduled
  <2>4. OwedAckHasTimer' /\ UnackedIsWatched'
    BY <1>4 DEF PauseSocketWriting, Watched, OwedAckHasTimer, UnackedIsWatched, sendVars,
                receiveVars, watchdogVars, socketVars
  <2> QED
    BY <2>2, <2>3, <2>4 DEF Watched
<1>5. CASE Flush(e)
  <2>1. BufferedIsScheduled'
    BY <1>5, FlushSchedules DEF Flush, Watched
  <2>2. FlagsOK'
    BY <1>5 DEF Flush, FlagsOK, receiveVars, watchdogVars, socketVars, eventVars
  <2>3. OwedAckHasTimer' /\ UnackedIsWatched'
    BY <1>5 DEF Flush, Watched, OwedAckHasTimer, UnackedIsWatched, sendVars,
                receiveVars, watchdogVars, socketVars
  <2> QED
    BY <2>1, <2>2, <2>3 DEF Watched
<1>6. CASE SendDisconnect(e)
  <2> DEFINE b == writeNowTimeout[e] \/ (~isDisposed[e] /\ data[e] = <<>>)
  <2>1. b \in BOOLEAN /\ writeNowTimeout' = [writeNowTimeout EXCEPT ![e] = b]
    BY <1>6 DEF SendDisconnect
  <2> HIDE DEF b
  <2>2. /\ writeNowTimeout' \in [Side -> BOOLEAN] /\ didSendDisconnect' \in [Side -> BOOLEAN]
        /\ \A d \in Side : d # e => writeNowTimeout'[d] = writeNowTimeout[d]
    BY <1>6, <2>1 DEF SendDisconnect, FlagsOK
  <2>3. BufferedIsScheduled'
    BY <1>6, <2>2, FlushSchedules DEF SendDisconnect, Watched
  <2>4. FlagsOK'
    BY <1>6, <2>2 DEF SendDisconnect, FlagsOK, receiveVars, watchdogVars, socketVars
  <2>5. OwedAckHasTimer' /\ UnackedIsWatched'
    BY <1>6 DEF SendDisconnect, Watched, OwedAckHasTimer, UnackedIsWatched, sendVars,
                receiveVars, watchdogVars, socketVars
  <2> QED
    BY <2>3, <2>4, <2>5 DEF Watched
<1>7. CASE AcceptDisconnect(e)
  <2>1. didDispose' \in [Side -> BOOLEAN]
    BY <1>7 DEF AcceptDisconnect, FlagsOK
  <2>2. FlagsOK'
    BY <1>7, <2>1 DEF AcceptDisconnect, FlagsOK, receiveVars, watchdogVars, writerVars, socketVars
  <2> QED
    BY <1>7, <2>2, WatchedFrame DEF AcceptDisconnect, socketVars
<1>8. CASE Dispose(e)
  <2>1. /\ outgoingAckTimeout' \in [Side -> BOOLEAN] /\ incomingAckTimeout' \in [Side -> BOOLEAN]
        /\ keepAliveInterval' \in [Side -> BOOLEAN] /\ isDisposed' \in [Side -> BOOLEAN]
    BY <1>8 DEF Dispose, FlagsOK
  <2>2. FlagsOK'
    BY <1>8, <2>1 DEF Dispose, FlagsOK
  <2>3. OwedAckHasTimer' /\ UnackedIsWatched'
    BY <1>8 DEF Dispose, FlagsOK, Watched, OwedAckHasTimer, UnackedIsWatched, sendVars
  <2>4. BufferedIsScheduled'
    BY <1>8 DEF Dispose, Kept, Delivery, MessagesOK, Watched, BufferedIsScheduled
  <2> QED
    BY <2>2, <2>3, <2>4 DEF Watched
<1>9. ASSUME NEW s \in Socket, BeginAcceptReconnection(e, s) PROVE FlagsOK' /\ Watched'
  <2>1. /\ isReconnecting' \in [Side -> BOOLEAN] /\ socketTimeout' \in [Side -> BOOLEAN]
        /\ lastReplayRequest' \in [Side -> BOOLEAN] /\ isDisposed' \in [Side -> BOOLEAN]
        /\ isPaused' \in [Side -> BOOLEAN] /\ writeNowTimeout' \in [Side -> BOOLEAN]
    BY <1>9 DEF BeginAcceptReconnection, FlagsOK
  <2>2. FlagsOK'
    BY <1>9, <2>1 DEF BeginAcceptReconnection, FlagsOK, receiveVars
  <2>3. OwedAckHasTimer' /\ UnackedIsWatched'
    BY <1>9 DEF BeginAcceptReconnection, FlagsOK, Watched, OwedAckHasTimer, UnackedIsWatched,
                sendVars, receiveVars
  <2>4. BufferedIsScheduled'
    BY <1>9 DEF BeginAcceptReconnection, FlagsOK, Delivery, MessagesOK, Watched,
                BufferedIsScheduled
  <2> QED
    BY <2>2, <2>3, <2>4 DEF Watched
<1>10. CASE EndAcceptReconnection(e)
  <2>1. PICK msgs : /\ Write(e, msgs) /\ RecvAckCheck(e, outgoingAckTimeout[e])
                    /\ UNCHANGED <<isDisposed, isPaused, outgoingMsgId, outgoingAckId,
                                   incomingMsgId, incomingAckTimeout, lastReplayRequest,
                                   didDispose, didSendDisconnect, keepAliveInterval>>
                    /\ isReconnecting' = [isReconnecting EXCEPT ![e] = FALSE]
                    /\ incomingAckId' = [incomingAckId EXCEPT ![e] = incomingMsgId[e]]
    BY <1>10 DEF EndAcceptReconnection, sendVars, eventVars
  <2>2. BufferedIsScheduled' /\ writeNowTimeout' \in [Side -> BOOLEAN]
    BY <2>1, WriteSchedules DEF Watched
  <2>3. /\ outgoingAckTimeout[e] \in BOOLEAN /\ isReconnecting' \in [Side -> BOOLEAN]
        /\ \A d \in Side : d # e => isReconnecting'[d] = isReconnecting[d]
    BY <2>1 DEF FlagsOK
  <2>4. /\ UnackedIsWatched' /\ outgoingAckTimeout' \in [Side -> BOOLEAN]
        /\ socketTimeout' \in [Side -> BOOLEAN]
    BY <2>1, <2>3, RecvAckCheckWatches DEF Watched
  <2>5. FlagsOK'
    BY <2>1, <2>2, <2>3, <2>4 DEF FlagsOK
  <2>6. OwedAckHasTimer'
    <3>1. \A d \in Side : d # e => incomingAckId'[d] = incomingAckId[d]
      BY <2>1 DEF Delivery, CountersOK
    <3>2. incomingAckId'[e] = incomingMsgId[e] /\ incomingMsgId[e] \in Nat
      BY <2>1, CountersNat DEF Delivery, CountersOK
    <3> QED
      BY <2>1, <2>3, <3>1, <3>2 DEF Watched, OwedAckHasTimer
  <2> QED
    BY <2>2, <2>4, <2>5, <2>6 DEF Watched
<1> QED
  BY <1>1, <1>3, <1>4, <1>5, <1>6, <1>7, <1>8, <1>9, <1>10

LEMMA TimerTimers ==
    ASSUME TimersInvariant, NEW e \in Side,
           \/ WriteNow(e) \/ IncomingAckTimer(e) \/ OutgoingAckTimer(e)
           \/ SendKeepAlive(e) \/ ReplayWindowElapses(e)
    PROVE  FlagsOK' /\ Watched'
<1> USE DEF TimersInvariant
<1>1. CASE WriteNow(e)
  <2>1. /\ writeNowTimeout' \in [Side -> BOOLEAN]
        /\ \A d \in Side : d # e => writeNowTimeout'[d] = writeNowTimeout[d]
    BY <1>1 DEF WriteNow, FlagsOK
  <2>2. FlagsOK'
    BY <1>1, <2>1 DEF WriteNow, FlagsOK, receiveVars, watchdogVars, socketVars, eventVars
  <2>3. BufferedIsScheduled'
    BY <1>1, <2>1, FlushSchedules DEF WriteNow, Watched
  <2>4. OwedAckHasTimer' /\ UnackedIsWatched'
    BY <1>1 DEF WriteNow, Watched, OwedAckHasTimer, UnackedIsWatched, sendVars, receiveVars,
                watchdogVars, socketVars
  <2> QED
    BY <2>2, <2>3, <2>4 DEF Watched
<1>2. CASE IncomingAckTimer(e)
  <2>1. /\ incomingAckTimeout' \in [Side -> BOOLEAN]
        /\ \A d \in Side : d # e => incomingAckTimeout'[d] = incomingAckTimeout[d]
    BY <1>2 DEF IncomingAckTimer, FlagsOK
  <2>2. BufferedIsScheduled' /\ writeNowTimeout' \in [Side -> BOOLEAN]
    <3>1. CASE UNCHANGED <<data, writeNowTimeout>>
      BY <1>2, <3>1 DEF IncomingAckTimer, Watched, BufferedIsScheduled, FlagsOK
    <3>2. CASE Write(e, <<AckOf("Ack", incomingMsgId[e])>>)
      BY <1>2, <3>2, WriteSchedules DEF IncomingAckTimer, Watched
    <3> QED
      BY <1>2, <3>1, <3>2 DEF IncomingAckTimer
  <2>3. FlagsOK'
    BY <1>2, <2>1, <2>2 DEF IncomingAckTimer, FlagsOK, watchdogVars, socketVars, eventVars
  <2>4. UnackedIsWatched'
    BY <1>2 DEF IncomingAckTimer, Watched, UnackedIsWatched, sendVars, watchdogVars, socketVars
  <2>5. OwedAckHasTimer'
    <3>1. \A d \in Side : d # e => incomingAckId'[d] = incomingAckId[d]
      BY <1>2 DEF IncomingAckTimer, Delivery, CountersOK
    <3>2. ~(incomingMsgId'[e] > incomingAckId'[e])
      BY <1>2, CountersNat DEF IncomingAckTimer, Delivery, CountersOK
    <3> QED
      BY <1>2, <2>1, <3>1, <3>2 DEF IncomingAckTimer, Watched, OwedAckHasTimer, socketVars
  <2> QED
    BY <2>2, <2>3, <2>4, <2>5 DEF Watched
<1>3. CASE OutgoingAckTimer(e)
  <2>1. /\ RecvAckCheck(e, FALSE)
        /\ UNCHANGED <<sendVars, socketVars, receiveVars, writerVars, eventVars>>
    BY <1>3 DEF OutgoingAckTimer
  <2>2. UNCHANGED <<outgoingMsgId, outgoingAckId, isReconnecting, isDisposed>>
    BY <2>1 DEF sendVars, socketVars
  <2>3. /\ UnackedIsWatched' /\ outgoingAckTimeout' \in [Side -> BOOLEAN]
        /\ socketTimeout' \in [Side -> BOOLEAN]
    BY <2>1, <2>2, RecvAckCheckWatches DEF Watched
  <2>4. FlagsOK'
    BY <2>1, <2>3 DEF FlagsOK, receiveVars, writerVars, socketVars, eventVars
  <2>5. OwedAckHasTimer' /\ BufferedIsScheduled'
    BY <2>1 DEF Watched, OwedAckHasTimer, BufferedIsScheduled, receiveVars, writerVars,
                socketVars
  <2> QED
    BY <2>3, <2>4, <2>5 DEF Watched
<1>4. CASE SendKeepAlive(e)
  <2>1. BufferedIsScheduled' /\ writeNowTimeout' \in [Side -> BOOLEAN]
    BY <1>4, WriteSchedules DEF SendKeepAlive, Watched
  <2>2. FlagsOK'
    BY <1>4, <2>1 DEF SendKeepAlive, FlagsOK, watchdogVars, socketVars, eventVars
  <2>3. OwedAckHasTimer'
    BY <1>4, OwedFrame DEF SendKeepAlive, Watched, socketVars
  <2>4. UnackedIsWatched'
    BY <1>4 DEF SendKeepAlive, Watched, UnackedIsWatched, sendVars, watchdogVars, socketVars
  <2> QED
    BY <2>1, <2>2, <2>3, <2>4 DEF Watched
<1>5. CASE ReplayWindowElapses(e)
  <2>1. lastReplayRequest' \in [Side -> BOOLEAN]
    BY <1>5 DEF ReplayWindowElapses, FlagsOK
  <2>2. FlagsOK'
    BY <1>5, <2>1 DEF ReplayWindowElapses, FlagsOK, receiveVars, watchdogVars, writerVars,
                      eventVars
  <2> QED
    BY <1>5, <2>2, WatchedFrame DEF ReplayWindowElapses
<1> QED
  BY <1>1, <1>2, <1>3, <1>4, <1>5

\* _receiveMessage
Receive(e) ==
    \/ ReceiveRegular(e)
    \/ ReceiveAckOrKeepAlive(e)
    \/ ReceiveControl(e)
    \/ ReceiveDisconnect(e)
    \/ ReceiveReplayRequest(e)
    \/ ReceivePause(e)
    \/ ReceiveResume(e)

LEMMA ReceiveTimers ==
    ASSUME TimersInvariant, NEW e \in Side, Receive(e)
    PROVE  FlagsOK' /\ Watched'
<1> USE DEF TimersInvariant
<1>1. CASE ReceiveRegular(e)
  <2>1. PICK m \in Message :
           /\ Arrives(e, {"Regular"}, m)
           /\ UNCHANGED <<watchdogVars, isPaused, isDisposed, isReconnecting, incomingAckId,
                          eventVars>>
           /\ \/ UNCHANGED receiveVars
              \/ /\ SendAckCheck(e)
                 /\ incomingMsgId' = [incomingMsgId EXCEPT ![e] = m.id]
           /\ UNCHANGED <<data, writeNowTimeout>> \/ Write(e, <<Plain("ReplayRequest")>>)
           /\ \/ UNCHANGED lastReplayRequest
              \/ lastReplayRequest' = [lastReplayRequest EXCEPT ![e] = TRUE]
    BY <1>1 DEF ReceiveRegular, receiveVars
  <2>2. BufferedIsScheduled' /\ writeNowTimeout' \in [Side -> BOOLEAN]
    <3>1. CASE UNCHANGED <<data, writeNowTimeout>>
      BY <2>1, <3>1 DEF Watched, BufferedIsScheduled, FlagsOK
    <3>2. CASE Write(e, <<Plain("ReplayRequest")>>)
      BY <2>1, <3>2, WriteSchedules DEF Watched
    <3> QED
      BY <2>1, <3>1, <3>2
  <2>3. UnackedIsWatched'
    BY <2>1, UnackedFrame DEF Watched
  <2>4. OwedAckHasTimer' /\ incomingAckTimeout' \in [Side -> BOOLEAN]
    <3>1. CASE UNCHANGED receiveVars
      BY <2>1, <3>1 DEF receiveVars, Watched, OwedAckHasTimer, FlagsOK
    <3>2. CASE /\ SendAckCheck(e)
               /\ incomingMsgId' = [incomingMsgId EXCEPT ![e] = m.id]
      <4> DEFINE b == incomingAckTimeout[e] \/ incomingMsgId'[e] > incomingAckId'[e]
      <4>1. b \in BOOLEAN /\ incomingAckTimeout' = [incomingAckTimeout EXCEPT ![e] = b]
        BY <3>2 DEF SendAckCheck
      <4>2. /\ incomingAckTimeout' \in [Side -> BOOLEAN] /\ incomingAckTimeout'[e] = b
            /\ \A d \in Side : d # e => incomingAckTimeout'[d] = incomingAckTimeout[d]
        <5> HIDE DEF b
        <5> QED
          BY <4>1 DEF FlagsOK
      <4>3. \A d \in Side : d # e => incomingMsgId'[d] = incomingMsgId[d]
        BY <3>2 DEF Delivery, CountersOK
      <4> QED
        BY <2>1, <4>2, <4>3 DEF Watched, OwedAckHasTimer
    <3> QED
      BY <2>1, <3>1, <3>2
  <2>5. lastReplayRequest' \in [Side -> BOOLEAN]
    BY <2>1 DEF FlagsOK
  <2>6. FlagsOK'
    BY <2>1, <2>2, <2>4, <2>5 DEF FlagsOK, watchdogVars, eventVars
  <2> QED
    BY <2>2, <2>3, <2>4, <2>6 DEF Watched
<1>2. ASSUME NEW m \in Message, NEW types, Arrives(e, types, m),
             UNCHANGED <<receiveVars, watchdogVars, socketVars>>,
             BufferedIsScheduled', isPaused' \in [Side -> BOOLEAN],
             writeNowTimeout' \in [Side -> BOOLEAN], didDispose' \in [Side -> BOOLEAN],
             UNCHANGED <<didSendDisconnect, keepAliveInterval>>
      PROVE  FlagsOK' /\ Watched'
  <2>1. UnackedIsWatched'
    BY <1>2, UnackedFrame DEF Watched, socketVars
  <2>2. OwedAckHasTimer'
    BY <1>2 DEF Watched, OwedAckHasTimer, receiveVars, socketVars
  <2>3. FlagsOK'
    BY <1>2 DEF FlagsOK, receiveVars, watchdogVars, socketVars
  <2> QED
    BY <1>2, <2>1, <2>2, <2>3 DEF Watched
<1>3. CASE ReceiveAckOrKeepAlive(e) \/ ReceiveControl(e)
  <2>1. PICK m \in Message, types \in {{"Ack", "KeepAlive"}, {"Control"}} :
           /\ Arrives(e, types, m)
           /\ UNCHANGED <<receiveVars, watchdogVars, writerVars, socketVars, didDispose,
                          didSendDisconnect, keepAliveInterval>>
    BY <1>3 DEF ReceiveAckOrKeepAlive, ReceiveControl, eventVars
  <2>2. BufferedIsScheduled'
    BY <2>1 DEF Watched, BufferedIsScheduled, writerVars
  <2>3. /\ isPaused' \in [Side -> BOOLEAN] /\ writeNowTimeout' \in [Side -> BOOLEAN]
        /\ didDispose' \in [Side -> BOOLEAN]
    BY <2>1 DEF FlagsOK, writerVars
  <2> QED
    BY <1>2, <2>1, <2>2, <2>3
<1>4. CASE ReceiveDisconnect(e)
  <2>1. PICK m \in Message :
           /\ Arrives(e, {"Disconnect"}, m)
           /\ didDispose' = [didDispose EXCEPT ![e] = TRUE]
           /\ UNCHANGED <<receiveVars, watchdogVars, writerVars, socketVars,
                          didSendDisconnect, keepAliveInterval>>
    BY <1>4 DEF ReceiveDisconnect
  <2>2. BufferedIsScheduled'
    BY <2>1 DEF Watched, BufferedIsScheduled, writerVars
  <2>3. /\ isPaused' \in [Side -> BOOLEAN] /\ writeNowTimeout' \in [Side -> BOOLEAN]
        /\ didDispose' \in [Side -> BOOLEAN]
    BY <2>1 DEF FlagsOK, writerVars
  <2> QED
    BY <1>2, <2>1, <2>2, <2>3
<1>5. CASE ReceivePause(e)
  <2>1. PICK m \in Message :
           /\ Arrives(e, {"Pause"}, m)
           /\ isPaused' = [isPaused EXCEPT ![e] = TRUE]
           /\ UNCHANGED <<receiveVars, watchdogVars, data, writeNowTimeout, socketVars,
                          didDispose, didSendDisconnect, keepAliveInterval>>
    BY <1>5 DEF ReceivePause, eventVars
  <2>2. BufferedIsScheduled'
    BY <2>1 DEF Watched, BufferedIsScheduled, FlagsOK
  <2>3. /\ isPaused' \in [Side -> BOOLEAN] /\ writeNowTimeout' \in [Side -> BOOLEAN]
        /\ didDispose' \in [Side -> BOOLEAN]
    BY <2>1 DEF FlagsOK
  <2> QED
    BY <1>2, <2>1, <2>2, <2>3
<1>6. CASE ReceiveResume(e)
  <2>1. PICK m \in Message :
           /\ Arrives(e, {"Resume"}, m)
           /\ isPaused' = [isPaused EXCEPT ![e] = FALSE]
           /\ writeNowTimeout' = [writeNowTimeout EXCEPT ![e] = TRUE]
           /\ UNCHANGED <<receiveVars, watchdogVars, data, socketVars,
                          didDispose, didSendDisconnect, keepAliveInterval>>
    BY <1>6 DEF ReceiveResume, Resume, eventVars
  <2>2. BufferedIsScheduled'
    BY <2>1 DEF Watched, BufferedIsScheduled, FlagsOK
  <2>3. /\ isPaused' \in [Side -> BOOLEAN] /\ writeNowTimeout' \in [Side -> BOOLEAN]
        /\ didDispose' \in [Side -> BOOLEAN]
    BY <2>1 DEF FlagsOK
  <2> QED
    BY <1>2, <2>1, <2>2, <2>3
<1>7. CASE ReceiveReplayRequest(e)
  <2>1. PICK m \in Message :
           /\ Arrives(e, {"ReplayRequest"}, m)
           /\ Write(e, outgoingUnackMsg'[e])
           /\ RecvAckCheck(e, outgoingAckTimeout[e])
           /\ UNCHANGED <<receiveVars, isPaused, socketVars, eventVars>>
    BY <1>7 DEF ReceiveReplayRequest
  <2>2. BufferedIsScheduled' /\ writeNowTimeout' \in [Side -> BOOLEAN]
    BY <2>1, WriteSchedules DEF Watched
  <2>3. /\ outgoingAckTimeout[e] \in BOOLEAN /\ UNCHANGED <<isDisposed, isReconnecting>>
        /\ \A d \in Side : d # e => /\ outgoingMsgId'[d] = outgoingMsgId[d]
                                    /\ outgoingAckId'[d] = outgoingAckId[d]
    BY <2>1 DEF Arrives, AcceptAck, FlagsOK, Delivery, CountersOK, socketVars
  <2>4. /\ UnackedIsWatched' /\ outgoingAckTimeout' \in [Side -> BOOLEAN]
        /\ socketTimeout' \in [Side -> BOOLEAN]
    BY <2>1, <2>3, RecvAckCheckWatches DEF Watched
  <2>5. FlagsOK'
    BY <2>1, <2>2, <2>4 DEF FlagsOK, receiveVars, socketVars, eventVars
  <2>6. OwedAckHasTimer'
    BY <2>1 DEF Watched, OwedAckHasTimer, receiveVars, socketVars
  <2> QED
    BY <2>2, <2>4, <2>5, <2>6 DEF Watched
<1> QED
  BY <1>1, <1>3, <1>4, <1>5, <1>6, <1>7 DEF Receive

LEMMA NextTimers == TimersInvariant /\ [Next]_vars => TimersInvariant'
<1> SUFFICES ASSUME TimersInvariant, [Next]_vars PROVE FlagsOK' /\ Watched'
  BY NextDelivery DEF TimersInvariant
<1>1. ASSUME UNCHANGED <<sendVars, receiveVars, watchdogVars, writerVars, socketVars,
                         didDispose, didSendDisconnect, keepAliveInterval>>
      PROVE  FlagsOK' /\ Watched'
  <2>1. FlagsOK'
    BY <1>1 DEF TimersInvariant, FlagsOK, receiveVars, watchdogVars, writerVars, socketVars
  <2> QED
    BY <1>1, <2>1, WatchedFrame DEF TimersInvariant, socketVars
<1>2. CASE UNCHANGED vars
  BY <1>1, <1>2 DEF vars, eventVars
<1>3. CASE Loss
  BY <1>1, <1>3 DEF Loss, Lose, eventVars
<1>4. ASSUME NEW e \in Side, ReadControlMessage(e) PROVE FlagsOK' /\ Watched'
  BY <1>1, <1>4 DEF ReadControlMessage
<1>5. ASSUME NEW e \in Side, Traffic(e) PROVE FlagsOK' /\ Watched'
  BY <1>5, CallTimers, TimerTimers, ReceiveTimers DEF Traffic, Receive
<1>6. ASSUME NEW e \in Side, Reconnection(e) PROVE FlagsOK' /\ Watched'
  BY <1>6, CallTimers DEF Reconnection
<1>7. ASSUME NEW e \in Side, ControlTraffic(e) PROVE FlagsOK' /\ Watched'
  BY <1>4, <1>7, CallTimers, TimerTimers, ReceiveTimers DEF ControlTraffic, Receive
<1>8. ASSUME NEW e \in Side, WriterControl(e) PROVE FlagsOK' /\ Watched'
  BY <1>8, CallTimers, ReceiveTimers DEF WriterControl, Receive
<1>9. ASSUME NEW e \in Side, Shutdown(e) PROVE FlagsOK' /\ Watched'
  BY <1>9, CallTimers, ReceiveTimers DEF Shutdown, Receive
<1> QED
  BY <1>2, <1>3, <1>5, <1>6, <1>7, <1>8, <1>9 DEF Next

LEMMA InitTimers == Init => TimersInvariant
<1> SUFFICES ASSUME Init PROVE TimersInvariant
  OBVIOUS
<1>1. FlagsOK
  BY DEF Init, FlagsOK
<1>2. Watched
  BY DEF Init, Watched, OwedAckHasTimer, UnackedIsWatched, BufferedIsScheduled
<1> QED
  BY <1>1, <1>2, InitDelivery DEF TimersInvariant

\* Every variable keeps its type.
THEOREM TypeCorrect == Spec => []TypeOK
<1>1. Init => EventsOK
  BY SocketAssumption DEF Init, EventsOK
<1>2. Delivery /\ EventsOK /\ [Next]_vars => EventsOK'
  <2> SUFFICES ASSUME Delivery, EventsOK, [Next]_vars PROVE EventsOK'
    OBVIOUS
  <2>1. ASSUME UNCHANGED <<opened, controlMessage>> PROVE EventsOK'
    BY <2>1 DEF EventsOK
  <2>2. ASSUME NEW e \in Side, Traffic(e) PROVE EventsOK'
    BY <2>1, <2>2 DEF Traffic, Send, WriteNow, ReceiveRegular, ReceiveAckOrKeepAlive,
       ReceiveReplayRequest, IncomingAckTimer, OutgoingAckTimer, ReplayWindowElapses,
       socketVars, eventVars
  <2>3. ASSUME NEW e \in Side, Reconnection(e) PROVE EventsOK'
    <3>1. ASSUME NEW s \in Socket, BeginAcceptReconnection(e, s) PROVE EventsOK'
      BY <3>1 DEF BeginAcceptReconnection, EventsOK
    <3>2. CASE EndAcceptReconnection(e)
      BY <2>1, <3>2 DEF EndAcceptReconnection, eventVars
    <3> QED
      BY <2>3, <3>1, <3>2 DEF Reconnection
  <2>4. ASSUME NEW e \in Side, ControlTraffic(e) PROVE EventsOK'
    <3>1. CASE SendKeepAlive(e) \/ \E d \in ControlData : SendControl(e, d)
      BY <2>1, <3>1 DEF SendKeepAlive, SendControl, socketVars, eventVars
    <3>2. CASE ReceiveControl(e)
      <4>1. PICK m \in Message :
               /\ m.type = "Control"
               /\ controlMessage' = [controlMessage EXCEPT ![e] = Append(@, m.data)]
               /\ UNCHANGED opened
        BY <3>2 DEF ReceiveControl, Arrives, socketVars
      <4>2. m.data \in ControlData
        BY <4>1 DEF Message
      <4> QED
        BY <4>1, <4>2 DEF EventsOK
    <3>3. CASE ReadControlMessage(e)
      BY <3>3 DEF ReadControlMessage, EventsOK, socketVars
    <3> QED
      BY <2>4, <3>1, <3>2, <3>3 DEF ControlTraffic
  <2>5. ASSUME NEW e \in Side, WriterControl(e) PROVE EventsOK'
    BY <2>1, <2>5 DEF WriterControl, SendPauseOrResume, ReceivePause, ReceiveResume,
       PauseSocketWriting, Flush, socketVars, eventVars
  <2>6. ASSUME NEW e \in Side, Shutdown(e) PROVE EventsOK'
    BY <2>1, <2>6 DEF Shutdown, SendDisconnect, ReceiveDisconnect, AcceptDisconnect,
       Dispose, socketVars
  <2>7. CASE Loss
    BY <2>1, <2>7 DEF Loss, Lose, socketVars, eventVars
  <2>8. CASE UNCHANGED vars
    BY <2>1, <2>8 DEF vars, socketVars, eventVars
  <2> QED
    BY <2>2, <2>3, <2>4, <2>5, <2>6, <2>7, <2>8 DEF Next
<1>3. TimersInvariant /\ EventsOK => TypeOK
  BY DEF TimersInvariant, Delivery, TypeOK
<1>4. TimersInvariant => Delivery
  BY DEF TimersInvariant
<1> QED
  BY <1>1, <1>2, <1>3, <1>4, InitTimers, NextTimers, PTL DEF Spec

LEMMA TimersHold == Spec => []TimersInvariant
  BY InitTimers, NextTimers, PTL DEF Spec

\* An ack that is owed has a check planned (_sendAckCheck), except while the protocol
\* reconnects, which acknowledges at its end, and once it is disposed.
THEOREM OwedAckTheorem == Spec => []OwedAckHasTimer
<1>1. TimersInvariant => OwedAckHasTimer
  BY DEF TimersInvariant, Watched
<1> QED
  BY <1>1, TimersHold, PTL

\* Messages that are unacknowledged are watched (_recvAckCheck), or the owner was told.
THEOREM UnackedTheorem == Spec => []UnackedIsWatched
<1>1. TimersInvariant => UnackedIsWatched
  BY DEF TimersInvariant, Watched
<1> QED
  BY <1>1, TimersHold, PTL

\* What the ProtocolWriter has buffered is about to be written.
THEOREM BufferedTheorem == Spec => []BufferedIsScheduled
<1>1. TimersInvariant => BufferedIsScheduled
  BY DEF TimersInvariant, Watched
<1> QED
  BY <1>1, TimersHold, PTL
=============================================================================
