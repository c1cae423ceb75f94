----------------------------- MODULE StorageProofs -----------------------------
(* The safety invariants of Storage, and that the application storage           *)
(* implements DurableItems, for any windows, keys and values, and any           *)
(* interleaving of changes, flushes, answers, echoes, failures and ends.        *)
EXTENDS Storage, TLAPS

-----------------------------------------------------------------------------
(* The inductive invariant *)

States == {"none", "loading", "open", "closing", "closed"}
Values == Value \cup {Absent}
Counts == [Key -> Nat]

Types ==
    /\ state \in [Node -> States]
    /\ cache \in [Node -> [Key -> Values]]
    /\ pending \in [Node -> Request] /\ active \in [Node -> Request]
    /\ timer \in [Node -> BOOLEAN] /\ queued \in [Node -> BOOLEAN]
    /\ toMain \in [Window -> Seq(MainMessage)]
    /\ toWindow \in [Window -> Seq(WindowMessage)]
    /\ changed \in SUBSET Key /\ disk \in [Key -> Values] /\ erroneous \in BOOLEAN
    /\ recovery \in {"no", "unlinked", "failed"}
    /\ stamp \in [Node -> Counts] /\ stored \in [Node -> Counts]
    /\ owed \in [Node -> Counts] /\ owedLater \in [Node -> Counts] /\ promised \in [Node -> Counts]

HasKind(q, kind) == \E i \in DOMAIN q : q[i].kind = kind
One(q, kind) == \A i, j \in DOMAIN q : q[i].kind = kind /\ q[j].kind = kind => i = j

\* The update under way that its database does not have yet.
Underway(n) ==
    IF n = Main THEN active[Main]
    ELSE IF HasKind(toMain[n], "update") THEN active[n] ELSE NoRequest

\* No change waits for a flush that nobody runs.
Watched(n) == HasPending(n) => timer[n] \/ queued[n]
Ended(n) == state[n] \in {"none", "closed"} => ~timer[n] /\ active[n] = NoRequest /\ ~HasPending(n)
QueuedBehind(n) == queued[n] => active[n] # NoRequest

\* The last change of a key is pending, under way or stored, and what is stored is older
\* than what is under way.
Handed(n) == \A k \in Key :
    /\ pending[n][k] # NoChange => pending[n][k].stamp = stamp[n][k]
    /\ pending[n][k] = NoChange /\ Underway(n)[k] # NoChange => Underway(n)[k].stamp = stamp[n][k]
    /\ pending[n][k] = NoChange /\ Underway(n)[k] = NoChange => stored[n][k] = stamp[n][k]
    /\ stored[n][k] <= stamp[n][k]
    /\ Underway(n)[k] # NoChange =>
          stored[n][k] <= Underway(n)[k].stamp /\ Underway(n)[k].stamp <= stamp[n][k]

\* What the callers wait for is under way or stored.
Owed(n) == \A k \in Key :
    /\ active[n] # NoRequest =>
          owed[n][k] <= IF Underway(n)[k] # NoChange THEN Underway(n)[k].stamp ELSE stored[n][k]
    /\ queued[n] => owedLater[n][k] <= stamp[n][k]
    /\ promised[n][k] <= stored[n][k]

Sound(n) == n = Main => ~erroneous
NodeInv(n) == Watched(n) /\ Ended(n) /\ QueuedBehind(n) /\ (Sound(n) => Handed(n) /\ Owed(n))

\* One update at a time, and one answer to it.
Traffic(w) ==
    /\ One(toMain[w], "update") /\ One(toWindow[w], "ack")
    /\ ~(HasKind(toMain[w], "update") /\ HasKind(toWindow[w], "ack"))
    /\ active[w] # NoRequest <=> HasKind(toMain[w], "update") \/ HasKind(toWindow[w], "ack")
    /\ \A i \in DOMAIN toMain[w] : toMain[w][i].kind = "update" => toMain[w][i].items = active[w]

\* The items are asked for once, and only while the window loads.
Loads(w) ==
    /\ One(toMain[w], "get") /\ One(toWindow[w], "items")
    /\ ~(HasKind(toMain[w], "get") /\ HasKind(toWindow[w], "items"))
    /\ HasKind(toMain[w], "get") \/ HasKind(toWindow[w], "items") => state[w] = "loading"
    /\ state[w] = "none" => toWindow[w] = <<>>

\* The main process is there before the first window has loaded, and closes after the last.
Early(w) == state[Main] = "none" =>
    /\ state[w] \in {"none", "loading"} /\ toWindow[w] = <<>>
    /\ state[w] = "loading" => HasKind(toMain[w], "get")
Late(w) == state[Main] \in {"closing", "closed"} => state[w] \in {"none", "closed"}

\* The last news of k on its way to a window.
Mentions(m, k) == m.kind \in {"items", "changed"} /\ k \in DOMAIN m.items
LastIs(q, k, v) == \E i \in DOMAIN q :
    /\ Mentions(q[i], k) /\ q[i].items[k] = v
    /\ \A j \in DOMAIN q : j > i => ~Mentions(q[j], k)
Silent(q, k) == \A i \in DOMAIN q : ~Mentions(q[i], k)

\* A window that differs from the main process has a change of its own to tell, or is
\* about to be told.
Own(w, k) ==
    \/ cache[w][k] = cache[Main][k]
    \/ pending[w][k] # NoChange /\ pending[w][k].value = cache[w][k]
    \/ pending[w][k] = NoChange /\ Underway(w)[k] # NoChange /\ Underway(w)[k].value = cache[w][k]
Told(w, k) ==
    \/ k \in changed
    \/ LastIs(toWindow[w], k, cache[Main][k])
    \/ Silent(toWindow[w], k) /\ Own(w, k)
Follows(w) == Listens(w) /\ ~HasKind(toMain[w], "get") => \A k \in Key : Told(w, k)

WindowInv(w) == Traffic(w) /\ Loads(w) /\ Early(w) /\ Late(w) /\ Follows(w)

\* The database of the main process has its cache, but for what is pending or under way.
Current(k) ==
    /\ pending[Main][k] # NoChange => pending[Main][k].value = cache[Main][k]
    /\ pending[Main][k] = NoChange /\ active[Main][k] # NoChange => active[Main][k].value = cache[Main][k]
    /\ pending[Main][k] = NoChange /\ active[Main][k] = NoChange => disk[k] = cache[Main][k]
DiskInv == state[Main] # "none" /\ ~erroneous => \A k \in Key : Current(k)
RecoveryInv ==
    /\ state[Main] # "loading"
    /\ state[Main] = "none" => ~erroneous /\ changed = {}
    /\ recovery = "unlinked" => Flushed(Main) /\ erroneous
    /\ state[Main] = "closed" /\ recovery # "failed" => disk = cache[Main]
MainInv == DiskInv /\ RecoveryInv

StorageInv == Types /\ MainInv /\ (\A n \in Node : NodeInv(n)) /\ (\A w \in Window : WindowInv(w))

-----------------------------------------------------------------------------
(* Queues *)

LEMMA KindAppend ==
    ASSUME NEW M, NEW q \in Seq(M), NEW m \in M
    PROVE  /\ Append(q, m) \in Seq(M)
           /\ \A kind : HasKind(Append(q, m), kind) <=> HasKind(q, kind) \/ m.kind = kind
           /\ \A kind : One(q, kind) /\ (m.kind = kind => ~HasKind(q, kind)) => One(Append(q, m), kind)
<1>1. /\ DOMAIN q = 1..Len(q) /\ Len(q) \in Nat
      /\ Append(q, m) \in Seq(M) /\ DOMAIN Append(q, m) = 1..(Len(q) + 1)
      /\ \A i \in 1..Len(q) : Append(q, m)[i] = q[i]
      /\ Append(q, m)[Len(q) + 1] = m
  OBVIOUS
<1>2. \A i \in DOMAIN Append(q, m) : i \in DOMAIN q \/ i = Len(q) + 1
  BY <1>1
<1>3. \A i \in DOMAIN q : i \in DOMAIN Append(q, m)
  BY <1>1
<1>4. ASSUME NEW kind PROVE HasKind(Append(q, m), kind) <=> HasKind(q, kind) \/ m.kind = kind
  BY <1>1, <1>2, <1>3 DEF HasKind
<1>5. ASSUME NEW kind, One(q, kind), m.kind = kind => ~HasKind(q, kind) PROVE One(Append(q, m), kind)
  BY <1>1, <1>2, <1>5 DEF HasKind, One
<1> QED
  BY <1>1, <1>4, <1>5

LEMMA KindTail ==
    ASSUME NEW M, NEW q \in Seq(M), q # <<>>
    PROVE  /\ Tail(q) \in Seq(M) /\ Head(q) \in M /\ HasKind(q, Head(q).kind)
           /\ 1 \in DOMAIN q /\ Head(q) = q[1]
           /\ \A i \in DOMAIN Tail(q) : i + 1 \in DOMAIN q /\ Tail(q)[i] = q[i + 1]
           /\ \A kind : HasKind(q, kind) <=> HasKind(Tail(q), kind) \/ Head(q).kind = kind
           /\ \A kind : One(q, kind) => One(Tail(q), kind) /\ (Head(q).kind = kind => ~HasKind(Tail(q), kind))
<1>1. /\ DOMAIN q = 1..Len(q) /\ Len(q) \in Nat \ {0} /\ Head(q) = q[1] /\ Head(q) \in M
      /\ Tail(q) \in Seq(M)
      /\ DOMAIN Tail(q) = 1..(Len(q) - 1)
      /\ \A i \in 1..(Len(q) - 1) : Tail(q)[i] = q[i + 1]
  OBVIOUS
<1>2. 1 \in DOMAIN q /\ HasKind(q, Head(q).kind)
  BY <1>1 DEF HasKind
<1>3. \A i \in DOMAIN Tail(q) : i \in Nat \ {0} /\ i + 1 \in DOMAIN q /\ Tail(q)[i] = q[i + 1]
  BY <1>1
<1>4. ASSUME NEW i \in DOMAIN q PROVE i = 1 \/ (i - 1 \in DOMAIN Tail(q) /\ Tail(q)[i - 1] = q[i])
  <2>1. i \in 1..Len(q) /\ (i # 1 => i - 1 \in 1..(Len(q) - 1))
    BY <1>1
  <2>2. CASE i # 1
    <3>1. i - 1 \in 1..(Len(q) - 1) /\ (i - 1) + 1 = i
      BY <2>1, <2>2
    <3>2. Tail(q)[i - 1] = q[(i - 1) + 1]
      BY <1>1, <3>1
    <3> QED
      BY <1>1, <3>1, <3>2
  <2> QED
    BY <2>2
<1>5. ASSUME NEW kind PROVE HasKind(q, kind) <=> HasKind(Tail(q), kind) \/ Head(q).kind = kind
  <2>1. HasKind(Tail(q), kind) => HasKind(q, kind)
    BY <1>3 DEF HasKind
  <2>2. HasKind(q, kind) => HasKind(Tail(q), kind) \/ Head(q).kind = kind
    BY <1>1, <1>4 DEF HasKind
  <2> QED
    BY <1>2, <2>1, <2>2
<1>6. ASSUME NEW kind, One(q, kind) PROVE One(Tail(q), kind)
  <2> SUFFICES ASSUME NEW i \in DOMAIN Tail(q), NEW j \in DOMAIN Tail(q),
                      Tail(q)[i].kind = kind, Tail(q)[j].kind = kind
               PROVE  i = j
    BY DEF One
  <2>1. i + 1 = j + 1
    BY <1>3, <1>6 DEF One
  <2> QED
    BY <1>3, <2>1
<1>7. ASSUME NEW kind, One(q, kind), Head(q).kind = kind, HasKind(Tail(q), kind) PROVE FALSE
  <2>1. PICK i \in DOMAIN Tail(q) : Tail(q)[i].kind = kind
    BY <1>7 DEF HasKind
  <2>2. i + 1 = 1
    BY <1>1, <1>2, <1>3, <1>7, <2>1 DEF One
  <2> QED
    BY <1>3, <2>2
<1> QED
  BY <1>1, <1>2, <1>3, <1>5, <1>6, <1>7

LEMMA KindEmpty == \A kind : ~HasKind(<<>>, kind) /\ One(<<>>, kind)
  BY DEF HasKind, One

\* A message that does not mention k is no news of k, and one that does is the last.
LEMMA NewsAppend ==
    ASSUME NEW M, NEW q \in Seq(M), NEW m \in M, NEW k
    PROVE  /\ Mentions(m, k) => LastIs(Append(q, m), k, m.items[k])
           /\ ~Mentions(m, k) =>
                /\ Silent(q, k) => Silent(Append(q, m), k)
                /\ \A v : LastIs(q, k, v) => LastIs(Append(q, m), k, v)
<1>1. /\ DOMAIN q = 1..Len(q) /\ Len(q) \in Nat
      /\ DOMAIN Append(q, m) = 1..(Len(q) + 1)
      /\ \A i \in 1..Len(q) : Append(q, m)[i] = q[i]
      /\ Append(q, m)[Len(q) + 1] = m
  OBVIOUS
<1>2. \A i \in DOMAIN Append(q, m) : i \in DOMAIN q \/ i = Len(q) + 1
  BY <1>1
<1>3. Mentions(m, k) => LastIs(Append(q, m), k, m.items[k])
  <2>1. Len(q) + 1 \in DOMAIN Append(q, m) /\ \A j \in DOMAIN Append(q, m) : ~(j > Len(q) + 1)
    BY <1>1
  <2> QED
    BY <1>1, <2>1 DEF LastIs
<1>4. ASSUME ~Mentions(m, k), Silent(q, k) PROVE Silent(Append(q, m), k)
  BY <1>1, <1>2, <1>4 DEF Silent
<1>5. ASSUME ~Mentions(m, k), NEW v, LastIs(q, k, v) PROVE LastIs(Append(q, m), k, v)
  <2>1. PICK i \in DOMAIN q :
          /\ Mentions(q[i], k) /\ q[i].items[k] = v
          /\ \A j \in DOMAIN q : j > i => ~Mentions(q[j], k)
    BY <1>5 DEF LastIs
  <2>2. i \in DOMAIN Append(q, m) /\ Append(q, m)[i] = q[i]
    BY <1>1
  <2>3. \A j \in DOMAIN Append(q, m) : j > i => ~Mentions(Append(q, m)[j], k)
    BY <1>1, <1>2, <1>5, <2>1
  <2> QED
    BY <2>1, <2>2, <2>3 DEF LastIs
<1> QED
  BY <1>3, <1>4, <1>5

LEMMA NewsTail ==
    ASSUME NEW M, NEW q \in Seq(M), q # <<>>, NEW k
    PROVE  /\ Silent(q, k) => Silent(Tail(q), k) /\ ~Mentions(Head(q), k)
           /\ \A v : LastIs(q, k, v) =>
                 LastIs(Tail(q), k, v) \/ (Silent(Tail(q), k) /\ Mentions(Head(q), k) /\ Head(q).items[k] = v)
<1>1. /\ DOMAIN q = 1..Len(q) /\ Len(q) \in Nat \ {0} /\ Head(q) = q[1]
      /\ DOMAIN Tail(q) = 1..(Len(q) - 1)
      /\ \A i \in 1..(Len(q) - 1) : Tail(q)[i] = q[i + 1]
  OBVIOUS
<1>2. \A i \in DOMAIN Tail(q) : i \in Nat \ {0} /\ i + 1 \in DOMAIN q /\ Tail(q)[i] = q[i + 1] /\ i + 1 > 1
  BY <1>1
<1>3. ASSUME Silent(q, k) PROVE Silent(Tail(q), k) /\ ~Mentions(Head(q), k)
  <2>1. 1 \in DOMAIN q
    BY <1>1
  <2> QED
    BY <1>1, <1>2, <1>3, <2>1 DEF Silent
<1>4. ASSUME NEW v, LastIs(q, k, v)
      PROVE  LastIs(Tail(q), k, v) \/ (Silent(Tail(q), k) /\ Mentions(Head(q), k) /\ Head(q).items[k] = v)
  <2>1. PICK i \in DOMAIN q :
          /\ Mentions(q[i], k) /\ q[i].items[k] = v
          /\ \A j \in DOMAIN q : j > i => ~Mentions(q[j], k)
    BY <1>4 DEF LastIs
  <2>2. CASE i = 1
    BY <1>1, <1>2, <2>1, <2>2 DEF Silent
  <2>3. CASE i # 1
    <3>1. i - 1 \in 1..(Len(q) - 1) /\ (i - 1) + 1 = i
      BY <1>1, <2>3
    <3>2. i - 1 \in DOMAIN Tail(q) /\ Tail(q)[i - 1] = q[i]
      BY <1>1, <3>1
    <3>3. \A j \in DOMAIN Tail(q) : j > i - 1 => ~Mentions(Tail(q)[j], k)
      <4> SUFFICES ASSUME NEW j \in DOMAIN Tail(q), j > i - 1 PROVE ~Mentions(Tail(q)[j], k)
        OBVIOUS
      <4>1. j + 1 \in DOMAIN q /\ Tail(q)[j] = q[j + 1] /\ j + 1 > i
        BY <1>1, <1>2
      <4> QED
        BY <2>1, <4>1
    <3> QED
      BY <2>1, <3>2, <3>3 DEF LastIs
  <2> QED
    BY <2>2, <2>3
<1> QED
  BY <1>3, <1>4

LEMMA SilentEmpty == \A k : Silent(<<>>, k)
  BY DEF Silent

-----------------------------------------------------------------------------
(* What a step must show *)

LocalOf(n) == <<state[n], cache[n], pending[n], timer[n], active[n], queued[n], stamp[n], stored[n],
                owed[n], owedLater[n], promised[n]>>

\* A task may be delayed, and the storage goes on.
LEMMA NodeGoesOn ==
    ASSUME NEW n \in Node, NodeInv(n), Ended(n)', timer[n] => timer'[n],
           UNCHANGED <<pending[n], active[n], queued[n], stamp[n], stored[n], owed[n], owedLater[n],
                       promised[n]>>,
           Underway(n)' = Underway(n), Sound(n)' => Sound(n)
    PROVE  NodeInv(n)'
<1>1. Watched(n)' /\ QueuedBehind(n)'
  BY DEF NodeInv, Watched, QueuedBehind, HasPending
<1>2. Handed(n) => Handed(n)'
  BY DEF Handed
<1>3. Owed(n) => Owed(n)'
  BY DEF Owed
<1> QED
  BY <1>1, <1>2, <1>3 DEF NodeInv

LEMMA NodeKept ==
    ASSUME NEW n \in Node, NodeInv(n), UNCHANGED LocalOf(n), Underway(n)' = Underway(n),
           Sound(n)' => Sound(n)
    PROVE  NodeInv(n)'
<1>1. UNCHANGED <<state[n], pending[n], timer[n], active[n], queued[n], stamp[n], stored[n],
                  owed[n], owedLater[n], promised[n]>>
  BY DEF LocalOf
<1>2. Ended(n)'
  BY <1>1 DEF NodeInv, Ended, HasPending
<1> QED
  BY <1>1, <1>2, NodeGoesOn

\* The main process may change its items, if it will tell.
LEMMA WindowKept ==
    ASSUME NEW w \in Window, WindowInv(w), UNCHANGED <<LocalOf(w), toMain[w], toWindow[w]>>,
           changed \subseteq changed',
           \A k \in Key : cache'[Main][k] = cache[Main][k] \/ k \in changed',
           state'[Main] = "none" => state[Main] = "none", Late(w)'
    PROVE  WindowInv(w)'
<1>1. UNCHANGED <<state[w], cache[w], pending[w], active[w]>>
  BY DEF LocalOf
<1>2. Traffic(w)' /\ Loads(w)' /\ Early(w)'
  BY <1>1 DEF WindowInv, Traffic, Loads, Early, HasKind, One
<1>3. Underway(w)' = Underway(w)
  BY <1>1, MainAssumption DEF Underway, HasKind
<1>4. Follows(w)'
  <2> SUFFICES ASSUME Listens(w)', ~HasKind(toMain[w], "get")', NEW k \in Key PROVE Told(w, k)'
    BY DEF Follows
  <2>1. Told(w, k)
    BY <1>1 DEF WindowInv, Follows, Listens, HasKind
  <2>2. CASE k \in changed'
    BY <2>2 DEF Told
  <2>3. CASE k \notin changed'
    <3>1. cache'[Main][k] = cache[Main][k] /\ k \notin changed
      BY <2>3
    <3>2. LastIs(toWindow[w], k, cache[Main][k]) => LastIs(toWindow'[w], k, cache'[Main][k])
      BY <3>1 DEF LastIs, Mentions
    <3>3. Silent(toWindow[w], k) => Silent(toWindow'[w], k)
      OBVIOUS
    <3>4. Own(w, k) => Own(w, k)'
      BY <1>1, <1>3, <3>1 DEF Own
    <3> QED
      BY <2>1, <3>1, <3>2, <3>3, <3>4 DEF Told
  <2> QED
    BY <2>2, <2>3
<1> QED
  BY <1>2, <1>4 DEF WindowInv

LEMMA MainKept ==
    ASSUME MainInv, UNCHANGED <<LocalOf(Main), disk, erroneous, recovery>>,
           state[Main] = "none" => changed' = {}
    PROVE  MainInv'
<1>1. UNCHANGED <<state[Main], cache[Main], pending[Main], active[Main], timer[Main]>>
  BY DEF LocalOf
<1>2. DiskInv'
  BY <1>1 DEF MainInv, DiskInv, Current
<1>3. RecoveryInv'
  BY <1>1 DEF MainInv, RecoveryInv, Flushed
<1> QED
  BY <1>2, <1>3 DEF MainInv

\* A step of one window.
LEMMA WindowStep ==
    ASSUME StorageInv, NEW w \in Window, Types',
           UNCHANGED <<changed, disk, erroneous, recovery>>,
           \A n \in Node : n # w => UNCHANGED LocalOf(n),
           \A v \in Window : v # w => UNCHANGED <<toMain[v], toWindow[v]>>,
           NodeInv(w)', WindowInv(w)'
    PROVE  StorageInv'
<1>1. Main \in Node /\ Main # w /\ w \in Node
  BY MainAssumption DEF Node
<1>2. UNCHANGED <<LocalOf(Main), state[Main], cache[Main]>>
  BY <1>1 DEF LocalOf
<1>3. MainInv'
  BY <1>2, MainKept DEF StorageInv, MainInv, RecoveryInv
<1>4. ASSUME NEW n \in Node, n # w PROVE NodeInv(n)'
  <2>1. UNCHANGED LocalOf(n) /\ UNCHANGED active[n]
    BY <1>4 DEF LocalOf
  <2>2. Underway(n)' = Underway(n)
    BY <1>2, <1>4, <2>1 DEF Underway, Node, LocalOf
  <2> QED
    BY <2>1, <2>2, NodeKept DEF StorageInv, Sound
<1>5. ASSUME NEW v \in Window, v # w PROVE WindowInv(v)'
  <2>1. UNCHANGED LocalOf(v) /\ UNCHANGED state[v] /\ UNCHANGED toMain[v] /\ UNCHANGED toWindow[v]
    BY <1>5 DEF LocalOf, Node
  <2>2. WindowInv(v)
    BY DEF StorageInv
  <2>3. Late(v)'
    BY <1>2, <2>1, <2>2 DEF WindowInv, Late
  <2> QED
    BY <1>2, <2>1, <2>2, <2>3, WindowKept
<1> QED
  BY <1>3, <1>4, <1>5 DEF StorageInv

\* A step of the main process alone.
LEMMA MainStep ==
    ASSUME StorageInv, Types', UNCHANGED <<toMain, toWindow>>,
           \A w \in Window : UNCHANGED LocalOf(w),
           changed \subseteq changed',
           \A k \in Key : cache'[Main][k] = cache[Main][k] \/ k \in changed',
           state'[Main] = "none" => state[Main] = "none",
           \A w \in Window : Late(w)',
           NodeInv(Main)', MainInv'
    PROVE  StorageInv'
<1>1. ASSUME NEW n \in Node PROVE NodeInv(n)'
  <2>1. CASE n \in Window
    <3>1. UNCHANGED LocalOf(n) /\ UNCHANGED active[n] /\ n # Main
      BY <2>1, MainAssumption DEF LocalOf
    <3>2. Underway(n)' = Underway(n)
      BY <3>1 DEF Underway
    <3> QED
      BY <3>1, <3>2, NodeKept DEF StorageInv, Sound
  <2> QED
    BY <2>1 DEF Node
<1>2. ASSUME NEW w \in Window PROVE WindowInv(w)'
  <2>1. UNCHANGED LocalOf(w) /\ UNCHANGED toMain[w] /\ UNCHANGED toWindow[w] /\ WindowInv(w)
    BY DEF StorageInv
  <2> QED
    BY <2>1, WindowKept
<1> QED
  BY <1>1, <1>2 DEF StorageInv

-----------------------------------------------------------------------------
(* What the operators of the model change *)

LEMMA NoChangeIs ==
    /\ NoChange \notin Change
    /\ \A c \in Change : c # NoChange /\ c.value \in Values /\ c.stamp \in Nat
    /\ NoRequest \in Request /\ \A k \in Key : NoRequest[k] = NoChange
  BY ValueAssumption DEF NoChange, Change, NoRequest, Request, Values, Absent

\* A request is one if it changes a key.
LEMMA SomeChange ==
    ASSUME NEW r \in Request
    PROVE  r = NoRequest <=> \A k \in Key : r[k] = NoChange
  BY DEF Request, NoRequest

LEMMA RecordIs ==
    ASSUME Types, NEW n \in Node, NEW changes, DOMAIN changes \subseteq Key,
           \A k \in DOMAIN changes : changes[k] \in Values, Record(n, changes)
    PROVE  /\ cache' \in [Node -> [Key -> Values]] /\ pending' \in [Node -> Request]
           /\ timer' \in [Node -> BOOLEAN] /\ stamp' \in [Node -> Counts]
           /\ \A d \in Node : d # n => UNCHANGED <<cache[d], pending[d], timer[d], stamp[d]>>
           /\ timer'[n] <=> timer[n] \/ DOMAIN changes # {}
           /\ \A k \in Key : IF k \in DOMAIN changes
                THEN /\ cache'[n][k] = changes[k] /\ stamp'[n][k] = stamp[n][k] + 1
                     /\ pending'[n][k] \in Change /\ pending'[n][k].value = changes[k]
                     /\ pending'[n][k].stamp = stamp[n][k] + 1
                ELSE UNCHANGED <<cache[n][k], pending[n][k], stamp[n][k]>>
<1> DEFINE c == [k \in Key |-> IF k \in DOMAIN changes THEN changes[k] ELSE cache[n][k]]
           s == [k \in Key |-> IF k \in DOMAIN changes THEN stamp[n][k] + 1 ELSE stamp[n][k]]
           p == [k \in Key |-> IF k \in DOMAIN changes
                   THEN [value |-> changes[k], stamp |-> stamp[n][k] + 1] ELSE pending[n][k]]
<1>1. /\ cache \in [Node -> [Key -> Values]] /\ pending \in [Node -> Request]
      /\ timer \in [Node -> BOOLEAN] /\ stamp \in [Node -> Counts]
  BY DEF Types
<1>2. /\ cache' = [cache EXCEPT ![n] = c] /\ stamp' = [stamp EXCEPT ![n] = s]
      /\ pending' = [pending EXCEPT ![n] = p]
      /\ timer' = [timer EXCEPT ![n] = timer[n] \/ DOMAIN changes # {}]
  BY DEF Record, Triggers
<1>3. c \in [Key -> Values]
  BY <1>1
<1>4. s \in Counts
  BY <1>1 DEF Counts
<1>5. \A k \in Key : k \in DOMAIN changes =>
         /\ p[k] \in Change /\ p[k].value = changes[k] /\ p[k].stamp = stamp[n][k] + 1
  <2> SUFFICES ASSUME NEW k \in Key, k \in DOMAIN changes
               PROVE  p[k] \in Change /\ p[k].value = changes[k] /\ p[k].stamp = stamp[n][k] + 1
    OBVIOUS
  <2>1. stamp[n][k] + 1 \in Nat \ {0} /\ changes[k] \in Value \cup {Absent}
    BY <1>1 DEF Counts, Values
  <2>2. p[k] = [value |-> changes[k], stamp |-> stamp[n][k] + 1]
    OBVIOUS
  <2> HIDE DEF p
  <2> QED
    BY <2>1, <2>2 DEF Change
<1>6. \A k \in Key : k \notin DOMAIN changes => p[k] = pending[n][k] /\ c[k] = cache[n][k] /\ s[k] = stamp[n][k]
  OBVIOUS
<1>7. p \in Request
  BY <1>1, <1>5 DEF Request
<1>8. \A k \in Key : k \in DOMAIN changes => c[k] = changes[k] /\ s[k] = stamp[n][k] + 1
  OBVIOUS
<1> HIDE DEF c, s, p
<1>9. timer' \in [Node -> BOOLEAN] /\ (timer'[n] <=> timer[n] \/ DOMAIN changes # {})
  BY <1>1, <1>2
<1>10. /\ cache' \in [Node -> [Key -> Values]] /\ cache'[n] = c
       /\ stamp' \in [Node -> Counts] /\ stamp'[n] = s
       /\ pending' \in [Node -> Request] /\ pending'[n] = p
  BY <1>1, <1>2, <1>3, <1>4, <1>7
<1>11. \A d \in Node : d # n => UNCHANGED <<cache[d], pending[d], timer[d], stamp[d]>>
  BY <1>1, <1>2
<1> QED
  BY <1>5, <1>6, <1>8, <1>9, <1>10, <1>11

\* A change is pending, and a flush is triggered for it.
LEMMA RecordKeeps ==
    ASSUME StorageInv, NEW n \in Node, NEW changes, DOMAIN changes \subseteq Key,
           \A k \in DOMAIN changes : changes[k] \in Values, Record(n, changes),
           state[n] \notin {"none", "closed"},
           UNCHANGED <<state[n], active[n], queued[n], stored[n], owed[n], owedLater[n], promised[n],
                       erroneous>>,
           Underway(n)' = Underway(n)
    PROVE  NodeInv(n)'
<1>1. /\ pending'[n] \in Request /\ pending[n] \in Request
      /\ timer'[n] <=> timer[n] \/ DOMAIN changes # {}
      /\ \A k \in Key : IF k \in DOMAIN changes
            THEN /\ stamp'[n][k] = stamp[n][k] + 1 /\ pending'[n][k] \in Change
                 /\ pending'[n][k].stamp = stamp[n][k] + 1
            ELSE UNCHANGED <<pending[n][k], stamp[n][k]>>
  <2>1. Types /\ pending \in [Node -> Request]
    BY DEF StorageInv, Types
  <2>2. /\ pending' \in [Node -> Request]
        /\ timer'[n] <=> timer[n] \/ DOMAIN changes # {}
        /\ \A k \in Key : IF k \in DOMAIN changes
              THEN /\ stamp'[n][k] = stamp[n][k] + 1 /\ pending'[n][k] \in Change
                   /\ pending'[n][k].stamp = stamp[n][k] + 1
              ELSE UNCHANGED <<pending[n][k], stamp[n][k]>>
    BY <2>1, RecordIs
  <2> QED
    BY <2>1, <2>2
<1>2. NodeInv(n)
  BY DEF StorageInv
<1>3. /\ stamp[n] \in Counts /\ stored[n] \in Counts /\ owedLater[n] \in Counts
      /\ \A k \in Key : Underway(n)[k] # NoChange => Underway(n)[k].stamp \in Nat
  <2>1. stamp[n] \in Counts /\ stored[n] \in Counts /\ owedLater[n] \in Counts
    BY DEF StorageInv, Types
  <2>2. Underway(n) \in Request
    BY NoChangeIs DEF StorageInv, Types, Underway, Node
  <2>3. \A k \in Key : Underway(n)[k] \in Change \cup {NoChange}
    BY <2>2 DEF Request
  <2> QED
    BY <2>1, <2>3, NoChangeIs
<1>4. Watched(n)'
  <2>1. CASE DOMAIN changes # {}
    BY <1>1, <2>1 DEF Watched
  <2>2. CASE DOMAIN changes = {}
    <3>1. \A k \in Key : pending'[n][k] = pending[n][k]
      BY <1>1, <2>2
    <3>2. pending'[n] = NoRequest <=> pending[n] = NoRequest
      BY <1>1, <3>1, SomeChange
    <3> QED
      BY <1>1, <1>2, <3>2 DEF NodeInv, Watched, HasPending
  <2> QED
    BY <2>1, <2>2
<1>5. Ended(n)' /\ QueuedBehind(n)'
  BY <1>2 DEF NodeInv, Ended, QueuedBehind
<1>6. ASSUME Handed(n) PROVE Handed(n)'
  <2> SUFFICES ASSUME NEW k \in Key
               PROVE /\ pending'[n][k] # NoChange => pending'[n][k].stamp = stamp'[n][k]
                     /\ pending'[n][k] = NoChange /\ Underway(n)[k] # NoChange => Underway(n)[k].stamp = stamp'[n][k]
                     /\ pending'[n][k] = NoChange /\ Underway(n)[k] = NoChange => stored[n][k] = stamp'[n][k]
                     /\ stored[n][k] <= stamp'[n][k]
                     /\ Underway(n)[k] # NoChange =>
                          stored[n][k] <= Underway(n)[k].stamp /\ Underway(n)[k].stamp <= stamp'[n][k]
    BY DEF Handed
  <2>1. stamp[n][k] \in Nat /\ stored[n][k] \in Nat
    BY <1>3 DEF Counts
  <2>2. CASE k \in DOMAIN changes
    <3>1. stamp'[n][k] = stamp[n][k] + 1 /\ pending'[n][k] # NoChange /\ pending'[n][k].stamp = stamp[n][k] + 1
      BY <1>1, <2>2, NoChangeIs
    <3> QED
      BY <1>3, <1>6, <2>1, <3>1 DEF Handed
  <2>3. CASE k \notin DOMAIN changes
    <3>1. stamp'[n][k] = stamp[n][k] /\ pending'[n][k] = pending[n][k]
      BY <1>1, <2>3
    <3> QED
      BY <1>6, <3>1 DEF Handed
  <2> QED
    BY <2>2, <2>3
<1>7. ASSUME Owed(n) PROVE Owed(n)'
  <2> SUFFICES ASSUME NEW k \in Key
               PROVE /\ active[n] # NoRequest =>
                           owed[n][k] <= IF Underway(n)[k] # NoChange THEN Underway(n)[k].stamp ELSE stored[n][k]
                     /\ queued[n] => owedLater[n][k] <= stamp'[n][k]
                     /\ promised[n][k] <= stored[n][k]
    BY DEF Owed
  <2>1. stamp[n][k] \in Nat /\ owedLater[n][k] \in Nat /\ stamp'[n][k] \in {stamp[n][k], stamp[n][k] + 1}
    BY <1>1, <1>3 DEF Counts
  <2> QED
    BY <1>7, <2>1 DEF Owed
<1> QED
  BY <1>2, <1>4, <1>5, <1>6, <1>7 DEF NodeInv, Sound

LEMMA AppendUpdate ==
    ASSUME Types, NEW w \in Window, NEW r \in Request, NEW q,
           q = [toMain EXCEPT ![w] = Append(@, Message("update", r))]
    PROVE  /\ q \in [Window -> Seq(MainMessage)] /\ q[w] = Append(toMain[w], Message("update", r))
           /\ \A v \in Window : v # w => q[v] = toMain[v]
<1>1. Message("update", r) \in MainMessage
  BY DEF Message, MainMessage
<1> DEFINE p == Append(toMain[w], Message("update", r))
<1>2. toMain \in [Window -> Seq(MainMessage)] /\ q = [toMain EXCEPT ![w] = p]
  BY DEF Types
<1>3. p \in Seq(MainMessage)
  BY <1>1, <1>2
<1> HIDE DEF p
<1>4. q \in [Window -> Seq(MainMessage)] /\ q[w] = p /\ \A v \in Window : v # w => q[v] = toMain[v]
  BY <1>2, <1>3
<1> QED
  BY <1>4 DEF p

\* The task runs, or is queued.
LEMMA TimerFiresIs ==
    ASSUME Types, NEW n \in Node, TimerFires(n)
    PROVE  /\ Types' /\ \A d \in Node : d # n => UNCHANGED LocalOf(d)
           /\ UNCHANGED <<state, cache, toWindow, changed, disk, erroneous, recovery, stamp, stored>>
           /\ ~timer'[n]
           /\ \/ /\ active[n] = NoRequest /\ pending'[n] = NoRequest /\ active'[n] = pending[n]
                 /\ UNCHANGED <<queued[n], owedLater[n]>>
                 /\ \/ /\ HasPending(n) /\ owed'[n] = stamp[n] /\ UNCHANGED promised[n]
                       /\ toMain' = IF n = Main THEN toMain
                                    ELSE [toMain EXCEPT ![n] = Append(@, Message("update", pending[n]))]
                    \/ /\ ~HasPending(n) /\ promised'[n] = stamp[n] /\ UNCHANGED <<owed[n], toMain>>
              \/ /\ active[n] # NoRequest /\ queued'[n] /\ owedLater'[n] = stamp[n]
                 /\ UNCHANGED <<pending[n], active[n], owed[n], promised[n], toMain>>
<1>1. /\ timer' = [timer EXCEPT ![n] = FALSE]
      /\ UNCHANGED <<state, cache, toWindow, changed, disk, erroneous, recovery, stamp, stored>>
  BY DEF TimerFires, diskVars
<1>2. CASE active[n] = NoRequest
  <2>1. /\ pending' = [pending EXCEPT ![n] = NoRequest] /\ active' = [active EXCEPT ![n] = pending[n]]
        /\ UNCHANGED <<queued, owedLater>>
    BY <1>2 DEF TimerFires, FlushPending
  <2>2. CASE HasPending(n)
    <3>1. /\ owed' = [owed EXCEPT ![n] = stamp[n]] /\ UNCHANGED promised
          /\ toMain' = IF n = Main THEN toMain
                       ELSE [toMain EXCEPT ![n] = Append(@, Message("update", pending[n]))]
      BY <1>2, <2>2 DEF TimerFires, FlushPending
    <3>2. toMain' \in [Window -> Seq(MainMessage)]
      <4>1. CASE n = Main
        BY <3>1, <4>1 DEF Types
      <4>2. CASE n # Main
        <5>1. n \in Window /\ pending[n] \in Request
          BY <4>2 DEF Node, Types
        <5> QED
          BY <3>1, <4>2, <5>1, AppendUpdate
      <4> QED
        BY <4>1, <4>2
    <3>3. Types'
      BY <1>1, <2>1, <3>1, <3>2, NoChangeIs DEF Types
    <3>4. \A d \in Node : d # n => UNCHANGED LocalOf(d)
      BY <1>1, <2>1, <3>1 DEF Types, LocalOf
    <3>5. /\ pending'[n] = NoRequest /\ active'[n] = pending[n] /\ owed'[n] = stamp[n] /\ ~timer'[n]
      BY <1>1, <2>1, <3>1 DEF Types
    <3> QED
      BY <1>1, <1>2, <2>1, <2>2, <3>1, <3>3, <3>4, <3>5
  <2>3. CASE ~HasPending(n)
    <3>1. /\ promised' = [promised EXCEPT ![n] = stamp[n]] /\ UNCHANGED <<toMain, owed>>
      BY <1>2, <2>3 DEF TimerFires, FlushPending
    <3>2. Types'
      BY <1>1, <2>1, <3>1, NoChangeIs DEF Types
    <3>3. \A d \in Node : d # n => UNCHANGED LocalOf(d)
      BY <1>1, <2>1, <3>1 DEF Types, LocalOf
    <3>4. /\ pending'[n] = NoRequest /\ active'[n] = pending[n] /\ promised'[n] = stamp[n] /\ ~timer'[n]
      BY <1>1, <2>1, <3>1 DEF Types
    <3> QED
      BY <1>1, <1>2, <2>1, <2>3, <3>1, <3>2, <3>3, <3>4
  <2> QED
    BY <2>2, <2>3
<1>3. CASE active[n] # NoRequest
  <2>1. /\ queued' = [queued EXCEPT ![n] = TRUE] /\ owedLater' = [owedLater EXCEPT ![n] = stamp[n]]
        /\ UNCHANGED <<pending, active, toMain, owed, promised>>
    BY <1>3 DEF TimerFires
  <2>2. Types'
    BY <1>1, <2>1 DEF Types
  <2>3. \A d \in Node : d # n => UNCHANGED LocalOf(d)
    BY <1>1, <2>1 DEF Types, LocalOf
  <2>4. queued'[n] /\ owedLater'[n] = stamp[n] /\ ~timer'[n]
    BY <1>1, <2>1 DEF Types
  <2> QED
    BY <1>1, <1>3, <2>1, <2>2, <2>3, <2>4
<1> QED
  BY <1>2, <1>3

LEMMA UnderwayIs ==
    ASSUME NEW n \in Node
    PROVE  Underway(n) \in {active[n], NoRequest}
  BY DEF Underway

LEMMA TimerKeeps ==
    ASSUME StorageInv, NEW n \in Node, TimerFires(n),
           Underway(n)' = IF active[n] = NoRequest THEN pending[n] ELSE Underway(n)
    PROVE  NodeInv(n)'
<1>1. Types /\ NodeInv(n)
  BY DEF StorageInv
<1>2. UNCHANGED <<state, stamp, stored, erroneous>> /\ ~timer'[n] /\ timer[n]
  BY <1>1, TimerFiresIs DEF TimerFires
<1>3. \A k \in Key : stamp[n][k] \in Nat /\ stored[n][k] \in Nat
  BY <1>1 DEF Types, Counts
<1>4. CASE /\ active[n] = NoRequest /\ pending'[n] = NoRequest /\ active'[n] = pending[n]
           /\ UNCHANGED <<queued[n], owedLater[n]>>
           /\ \/ HasPending(n) /\ owed'[n] = stamp[n] /\ UNCHANGED promised[n]
              \/ ~HasPending(n) /\ promised'[n] = stamp[n] /\ UNCHANGED <<owed[n], toMain>>
  <2>1. Watched(n)' /\ QueuedBehind(n)' /\ ~queued[n]
    BY <1>1, <1>4 DEF NodeInv, Watched, QueuedBehind, HasPending
  <2>2. Ended(n)'
    BY <1>1, <1>2, <1>4 DEF NodeInv, Ended
  <2>3. /\ \A k \in Key : pending'[n][k] = NoChange /\ Underway(n)[k] = NoChange
        /\ Underway(n)' = pending[n]
        /\ ~HasPending(n) => \A k \in Key : pending[n][k] = NoChange
    BY <1>4, UnderwayIs, NoChangeIs DEF HasPending
  <2>4. ASSUME Handed(n) PROVE Handed(n)'
    BY <1>2, <1>3, <2>3, <2>4 DEF Handed
  <2>5. ASSUME Handed(n), Owed(n) PROVE Owed(n)'
    <3>1. CASE HasPending(n)
      BY <1>2, <1>3, <1>4, <2>1, <2>3, <2>5, <3>1 DEF Handed, Owed
    <3>2. CASE ~HasPending(n)
      <4>1. active'[n] = NoRequest
        BY <1>4, <3>2 DEF HasPending
      <4>2. \A k \in Key : promised'[n][k] <= stored'[n][k]
        BY <1>2, <1>3, <1>4, <2>3, <2>5, <3>2 DEF Handed
      <4> QED
        BY <1>4, <2>1, <4>1, <4>2 DEF Owed
    <3> QED
      BY <3>1, <3>2
  <2> QED
    BY <1>1, <1>2, <2>1, <2>2, <2>4, <2>5 DEF NodeInv, Sound
<1>5. CASE /\ active[n] # NoRequest /\ queued'[n] /\ owedLater'[n] = stamp[n]
           /\ UNCHANGED <<pending[n], active[n], owed[n], promised[n]>>
  <2>1. Watched(n)' /\ QueuedBehind(n)'
    BY <1>5 DEF Watched, QueuedBehind
  <2>2. Ended(n)'
    BY <1>1, <1>2, <1>5 DEF NodeInv, Ended
  <2>3. Underway(n)' = Underway(n)
    BY <1>5
  <2>4. ASSUME Handed(n) PROVE Handed(n)'
    BY <1>2, <1>5, <2>3, <2>4 DEF Handed
  <2>5. ASSUME Owed(n) PROVE Owed(n)'
    BY <1>2, <1>3, <1>5, <2>3, <2>5 DEF Owed
  <2> QED
    BY <1>1, <1>2, <2>1, <2>2, <2>4, <2>5 DEF NodeInv, Sound
<1> QED
  BY <1>1, <1>4, <1>5, TimerFiresIs

\* The update under way ends, and a queued flush takes its place.
LEMMA UpdateEndsIs ==
    ASSUME Types, NEW n \in Node, NEW ok \in BOOLEAN, UpdateEnds(n, ok)
    PROVE  /\ pending' \in [Node -> Request] /\ active' \in [Node -> Request]
           /\ queued' \in [Node -> BOOLEAN] /\ toMain' \in [Window -> Seq(MainMessage)]
           /\ owed' \in [Node -> Counts] /\ promised' \in [Node -> Counts]
           /\ \A d \in Node : d # n => UNCHANGED <<pending[d], active[d], queued[d], owed[d], promised[d]>>
           /\ ~queued'[n]
           /\ \/ /\ queued[n] /\ active'[n] = pending[n] /\ pending'[n] = NoRequest /\ owed'[n] = owedLater[n]
                 /\ toMain' = IF n = Main \/ ~HasPending(n) THEN toMain
                              ELSE [toMain EXCEPT ![n] = Append(@, Message("update", pending[n]))]
                 /\ ~HasPending(n) => promised'[n] = owedLater[n]
                 /\ HasPending(n) => promised'[n] = IF ok THEN owed[n] ELSE promised[n]
              \/ /\ ~queued[n] /\ active'[n] = NoRequest /\ UNCHANGED <<pending[n], toMain>>
                 /\ promised'[n] = IF ok THEN owed[n] ELSE promised[n]
<1> DEFINE kept == IF ok THEN owed[n] ELSE promised[n]
<1>1. queued' = [queued EXCEPT ![n] = FALSE]
  BY DEF UpdateEnds
<1>2. kept \in Counts
  BY DEF Types
<1>3. CASE queued[n]
  <2>1. /\ pending' = [pending EXCEPT ![n] = NoRequest] /\ active' = [active EXCEPT ![n] = pending[n]]
        /\ toMain' = IF n = Main \/ ~HasPending(n) THEN toMain
                     ELSE [toMain EXCEPT ![n] = Append(@, Message("update", pending[n]))]
        /\ owed' = [owed EXCEPT ![n] = owedLater[n]]
        /\ promised' = [promised EXCEPT ![n] = IF HasPending(n) THEN kept ELSE owedLater[n]]
    BY <1>3 DEF UpdateEnds
  <2> HIDE DEF kept
  <2>2. toMain' \in [Window -> Seq(MainMessage)]
    <3>1. CASE n = Main \/ ~HasPending(n)
      BY <2>1, <3>1 DEF Types
    <3>2. CASE n # Main /\ HasPending(n)
      <4>1. n \in Window /\ pending[n] \in Request
        BY <3>2 DEF Node, Types
      <4> QED
        BY <2>1, <3>2, <4>1, AppendUpdate
    <3> QED
      BY <3>1, <3>2
  <2>3. /\ pending' \in [Node -> Request] /\ active' \in [Node -> Request]
        /\ queued' \in [Node -> BOOLEAN] /\ owed' \in [Node -> Counts] /\ promised' \in [Node -> Counts]
    BY <1>1, <1>2, <2>1, NoChangeIs DEF Types
  <2>4. \A d \in Node : d # n => UNCHANGED <<pending[d], active[d], queued[d], owed[d], promised[d]>>
    BY <1>1, <2>1 DEF Types
  <2>5. /\ ~queued'[n] /\ active'[n] = pending[n] /\ pending'[n] = NoRequest /\ owed'[n] = owedLater[n]
        /\ ~HasPending(n) => promised'[n] = owedLater[n]
        /\ HasPending(n) => promised'[n] = kept
    BY <1>1, <2>1 DEF Types
  <2> QED
    BY <1>3, <2>1, <2>2, <2>3, <2>4, <2>5 DEF kept
<1>4. CASE ~queued[n]
  <2>1. /\ active' = [active EXCEPT ![n] = NoRequest] /\ promised' = [promised EXCEPT ![n] = kept]
        /\ UNCHANGED <<pending, toMain, owed>>
    BY <1>4 DEF UpdateEnds
  <2> HIDE DEF kept
  <2>2. /\ pending' \in [Node -> Request] /\ active' \in [Node -> Request]
        /\ queued' \in [Node -> BOOLEAN] /\ toMain' \in [Window -> Seq(MainMessage)]
        /\ owed' \in [Node -> Counts] /\ promised' \in [Node -> Counts]
    BY <1>1, <1>2, <2>1, NoChangeIs DEF Types
  <2>3. \A d \in Node : d # n => UNCHANGED <<pending[d], active[d], queued[d], owed[d], promised[d]>>
    BY <1>1, <2>1 DEF Types
  <2>4. ~queued'[n] /\ active'[n] = NoRequest /\ promised'[n] = kept
    BY <1>1, <2>1 DEF Types
  <2> QED
    BY <1>4, <2>1, <2>2, <2>3, <2>4 DEF kept
<1> QED
  BY <1>3, <1>4

\* Stored is what was under way: the promises that waited for it end well.
LEMMA EndsKeeps ==
    ASSUME StorageInv, NEW n \in Node, NEW ok \in BOOLEAN, UpdateEnds(n, ok), active[n] # NoRequest,
           UNCHANGED <<state[n], timer[n], stamp[n], owedLater[n]>>, Underway(n)' = active'[n],
           Sound(n)' => ok /\ Sound(n),
           Sound(n)' => \A k \in Key :
              stored'[n][k] = IF Underway(n)[k] # NoChange THEN Underway(n)[k].stamp ELSE stored[n][k]
    PROVE  NodeInv(n)'
<1>1. Types /\ NodeInv(n)
  BY DEF StorageInv
<1>2. \A k \in Key : stamp[n][k] \in Nat /\ stored[n][k] \in Nat
  BY <1>1 DEF Types, Counts
<1>3. /\ ~queued'[n]
      /\ \/ /\ queued[n] /\ active'[n] = pending[n] /\ pending'[n] = NoRequest /\ owed'[n] = owedLater[n]
            /\ ~HasPending(n) => promised'[n] = owedLater[n]
            /\ HasPending(n) => promised'[n] = IF ok THEN owed[n] ELSE promised[n]
         \/ /\ ~queued[n] /\ active'[n] = NoRequest /\ UNCHANGED pending[n]
            /\ promised'[n] = IF ok THEN owed[n] ELSE promised[n]
  BY <1>1, UpdateEndsIs
<1>4. Watched(n)' /\ QueuedBehind(n)'
  BY <1>1, <1>3 DEF NodeInv, Watched, QueuedBehind, HasPending
<1>5. Ended(n)'
  BY <1>1 DEF NodeInv, Ended
<1>6. ASSUME Sound(n)' PROVE Handed(n)' /\ Owed(n)'
  <2>1. /\ ok /\ Handed(n) /\ Owed(n)
        /\ \A k \in Key : stored'[n][k] = IF Underway(n)[k] # NoChange THEN Underway(n)[k].stamp ELSE stored[n][k]
    BY <1>1, <1>6 DEF NodeInv
  <2>2. \A k \in Key : NoRequest[k] = NoChange
    BY NoChangeIs
  <2>3. \A k \in Key : /\ stored'[n][k] <= stamp[n][k]
                       /\ pending[n][k] = NoChange => stored'[n][k] = stamp[n][k]
                       /\ pending[n][k] # NoChange => pending[n][k].stamp = stamp[n][k]
                       /\ owed[n][k] <= stored'[n][k]
                       /\ queued[n] => owedLater[n][k] <= stamp[n][k]
    BY <1>2, <2>1 DEF Handed, Owed
  <2>4. CASE queued[n]
    <3>1. /\ active'[n] = pending[n] /\ pending'[n] = NoRequest /\ owed'[n] = owedLater[n]
          /\ Underway(n)' = pending[n]
          /\ ~HasPending(n) => promised'[n] = owedLater[n]
          /\ HasPending(n) => promised'[n] = owed[n]
      BY <1>3, <2>1, <2>4
    <3>2. Handed(n)'
      BY <1>2, <2>2, <2>3, <3>1 DEF Handed
    <3>3. \A k \in Key : promised'[n][k] <= stored'[n][k]
      <4>1. ~HasPending(n) => \A k \in Key : pending[n][k] = NoChange
        BY <2>2 DEF HasPending
      <4> QED
        BY <2>3, <2>4, <3>1, <4>1
    <3>4. Owed(n)'
      BY <1>3, <2>3, <2>4, <3>1, <3>3 DEF Owed
    <3> QED
      BY <3>2, <3>4
  <2>5. CASE ~queued[n]
    <3>1. active'[n] = NoRequest /\ UNCHANGED pending[n] /\ promised'[n] = owed[n] /\ Underway(n)' = NoRequest
      BY <1>3, <2>1, <2>5
    <3>2. Handed(n)'
      BY <2>2, <2>3, <3>1 DEF Handed
    <3>3. Owed(n)'
      BY <1>3, <2>3, <3>1 DEF Owed
    <3> QED
      BY <3>2, <3>3
  <2> QED
    BY <2>4, <2>5
<1> QED
  BY <1>4, <1>5, <1>6 DEF NodeInv

-----------------------------------------------------------------------------
(* set and delete *)

LEMMA SetWindowStep ==
    ASSUME StorageInv, NEW w \in Window, NEW key \in Key, NEW v \in Values, Set(w, key, v)
    PROVE  StorageInv'
<1> DEFINE change == [j \in {key} |-> v]
<1>1. Types /\ w \in Node /\ w # Main /\ Main \in Node /\ NodeInv(w) /\ WindowInv(w)
  BY MainAssumption DEF StorageInv, Node
<1>2. /\ DOMAIN change \subseteq Key /\ \A k \in DOMAIN change : change[k] \in Values
      /\ DOMAIN change = {key} /\ change[key] = v
  OBVIOUS
<1>3. /\ Record(w, change) /\ state[w] \in {"loading", "open"} /\ UNCHANGED changed
      /\ UNCHANGED <<state, active, queued, toMain, toWindow, disk, erroneous, recovery, stored, owed,
                     owedLater, promised>>
  BY <1>1 DEF Set, Accepts, diskVars
<1> HIDE DEF change
<1>4. /\ cache' \in [Node -> [Key -> Values]] /\ pending' \in [Node -> Request]
      /\ timer' \in [Node -> BOOLEAN] /\ stamp' \in [Node -> Counts]
      /\ \A d \in Node : d # w => UNCHANGED <<cache[d], pending[d], timer[d], stamp[d]>>
      /\ \A k \in Key : IF k \in DOMAIN change
           THEN /\ cache'[w][k] = change[k] /\ pending'[w][k] \in Change /\ pending'[w][k].value = change[k]
           ELSE UNCHANGED <<cache[w][k], pending[w][k]>>
  BY <1>1, <1>2, <1>3, RecordIs
<1>5. Types'
  BY <1>1, <1>3, <1>4 DEF Types
<1>6. \A n \in Node : n # w => UNCHANGED LocalOf(n)
  BY <1>3, <1>4 DEF LocalOf
<1>7. Underway(w)' = Underway(w)
  BY <1>1, <1>3 DEF Underway, HasKind
<1>8. NodeInv(w)'
  BY <1>1, <1>2, <1>3, <1>7, RecordKeeps
<1>9. Traffic(w)' /\ Loads(w)' /\ Early(w)' /\ Late(w)'
  BY <1>1, <1>3 DEF WindowInv, Traffic, Loads, Early, Late, HasKind, One
<1>10. Follows(w)'
  <2> SUFFICES ASSUME ~HasKind(toMain[w], "get"), NEW k \in Key PROVE Told(w, k)'
    BY <1>3 DEF Follows, HasKind
  <2>1. Told(w, k)
    BY <1>1, <1>3 DEF WindowInv, Follows, Listens
  <2>2. Own(w, k) => Own(w, k)'
    <3>1. UNCHANGED cache[Main]
      BY <1>1, <1>4
    <3>2. CASE k \in DOMAIN change
      BY <1>4, <3>2, NoChangeIs DEF Own
    <3>3. CASE k \notin DOMAIN change
      <4>1. UNCHANGED <<cache[w][k], pending[w][k]>>
        BY <1>4, <3>3
      <4> QED
        BY <1>7, <3>1, <4>1 DEF Own
    <3> QED
      BY <3>2, <3>3
  <2>3. UNCHANGED <<changed, toWindow, cache[Main]>>
    BY <1>1, <1>3, <1>4
  <2>4. LastIs(toWindow[w], k, cache[Main][k])' <=> LastIs(toWindow[w], k, cache[Main][k])
    BY <2>3 DEF LastIs, Mentions
  <2>5. Silent(toWindow[w], k)' <=> Silent(toWindow[w], k)
    BY <2>3 DEF Silent, Mentions
  <2> QED
    BY <2>1, <2>2, <2>3, <2>4, <2>5 DEF Told
<1> QED
  BY <1>3, <1>5, <1>6, <1>8, <1>9, <1>10, WindowStep DEF WindowInv

\* The main process's own items, and what it will tell of them.
LEMMA RecordMain ==
    ASSUME StorageInv, NEW changes, DOMAIN changes \subseteq Key,
           \A k \in DOMAIN changes : changes[k] \in Values, Record(Main, changes), state[Main] = "open",
           Emits(changes), UNCHANGED <<state[Main], active[Main], disk, erroneous, recovery>>
    PROVE  /\ MainInv'
           /\ changed' \in SUBSET Key /\ changed \subseteq changed'
           /\ \A k \in Key : cache'[Main][k] = cache[Main][k] \/ k \in changed'
<1>1. Types /\ Main \in Node /\ MainInv
  BY DEF StorageInv, Node
<1>2. \A k \in Key : IF k \in DOMAIN changes
           THEN /\ cache'[Main][k] = changes[k]
                /\ pending'[Main][k] \in Change /\ pending'[Main][k].value = changes[k]
           ELSE UNCHANGED <<cache[Main][k], pending[Main][k]>>
  BY <1>1, RecordIs
<1>3. changed' = changed \cup DOMAIN changes
  BY DEF Emits
<1>4. ASSUME NEW k \in Key, Current(k) PROVE Current(k)'
  <2>1. CASE k \in DOMAIN changes
    BY <1>2, <2>1, NoChangeIs DEF Current
  <2>2. CASE k \notin DOMAIN changes
    <3>1. UNCHANGED <<cache[Main][k], pending[Main][k]>>
      BY <1>2, <2>2
    <3> QED
      BY <1>4, <3>1 DEF Current
  <2> QED
    BY <2>1, <2>2
<1>5. DiskInv'
  BY <1>1, <1>4 DEF MainInv, DiskInv
<1>6. RecoveryInv'
  BY <1>1 DEF MainInv, RecoveryInv, Flushed
<1>7. \A k \in Key : cache'[Main][k] = cache[Main][k] \/ k \in changed'
  BY <1>2, <1>3
<1> QED
  BY <1>1, <1>3, <1>5, <1>6, <1>7 DEF MainInv, Types

LEMMA SetMainStep ==
    ASSUME StorageInv, NEW key \in Key, NEW v \in Values, Set(Main, key, v)
    PROVE  StorageInv'
<1> DEFINE change == [j \in {key} |-> v]
<1>1. Types /\ Main \in Node /\ \A w \in Window : w \in Node /\ w # Main
  BY MainAssumption DEF StorageInv, Node
<1>2. DOMAIN change \subseteq Key /\ \A k \in DOMAIN change : change[k] \in Values
  OBVIOUS
<1>3. /\ Record(Main, change) /\ state[Main] = "open" /\ Emits(change)
      /\ UNCHANGED <<state, active, queued, toMain, toWindow, disk, erroneous, recovery, stored, owed,
                     owedLater, promised>>
  BY <1>1 DEF Set, diskVars
<1> HIDE DEF change
<1>4. /\ cache' \in [Node -> [Key -> Values]] /\ pending' \in [Node -> Request]
      /\ timer' \in [Node -> BOOLEAN] /\ stamp' \in [Node -> Counts]
      /\ \A d \in Node : d # Main => UNCHANGED <<cache[d], pending[d], timer[d], stamp[d]>>
  BY <1>1, <1>2, <1>3, RecordIs
<1>5. /\ MainInv' /\ changed' \in SUBSET Key /\ changed \subseteq changed'
      /\ \A k \in Key : cache'[Main][k] = cache[Main][k] \/ k \in changed'
  BY <1>2, <1>3, RecordMain
<1>6. Types'
  BY <1>1, <1>3, <1>4, <1>5 DEF Types
<1>7. \A w \in Window : UNCHANGED LocalOf(w)
  BY <1>1, <1>3, <1>4 DEF LocalOf
<1>8. Underway(Main)' = Underway(Main)
  BY <1>3 DEF Underway
<1>9. NodeInv(Main)'
  BY <1>1, <1>2, <1>3, <1>8, RecordKeeps
<1>10. \A w \in Window : Late(w)'
  BY <1>3 DEF Late
<1> QED
  BY <1>3, <1>5, <1>6, <1>7, <1>9, <1>10, MainStep

-----------------------------------------------------------------------------
(* Flushes *)

\* News that are on their way, and the main process's items, are as they were.
LEMMA SameNews ==
    ASSUME NEW w \in Window, NEW k, UNCHANGED <<changed, toWindow[w], cache[Main]>>,
           Own(w, k) => Own(w, k)', Told(w, k)
    PROVE  Told(w, k)'
<1>1. LastIs(toWindow[w], k, cache[Main][k])' <=> LastIs(toWindow[w], k, cache[Main][k])
  BY DEF LastIs, Mentions
<1>2. Silent(toWindow[w], k)' <=> Silent(toWindow[w], k)
  BY DEF Silent, Mentions
<1> QED
  BY <1>1, <1>2 DEF Told

\* An update is sent.
LEMMA SendKeeps ==
    ASSUME Types, NEW w \in Window, Traffic(w), Loads(w), NEW r \in Request, r # NoRequest,
           ~HasKind(toMain[w], "update"), ~HasKind(toWindow'[w], "ack"), One(toWindow'[w], "ack"),
           toMain' = [toMain EXCEPT ![w] = Append(@, Message("update", r))], active'[w] = r
    PROVE  /\ Traffic(w)' /\ HasKind(toMain'[w], "update")
           /\ HasKind(toMain'[w], "get") <=> HasKind(toMain[w], "get")
           /\ One(toMain'[w], "get")
           /\ \A v \in Window : v # w => toMain'[v] = toMain[v]
<1>1. toMain[w] \in Seq(MainMessage) /\ Message("update", r) \in MainMessage
  BY DEF Types, Message, MainMessage
<1>2. toMain'[w] = Append(toMain[w], Message("update", r)) /\ \A v \in Window : v # w => toMain'[v] = toMain[v]
  BY DEF Types
<1>3. Message("update", r).kind = "update" /\ Message("update", r).items = r
  BY DEF Message
<1>4. /\ HasKind(toMain'[w], "update") /\ One(toMain'[w], "update") /\ One(toMain'[w], "get")
      /\ HasKind(toMain'[w], "get") <=> HasKind(toMain[w], "get")
  BY <1>1, <1>2, <1>3, KindAppend DEF Traffic, Loads
<1>5. \A i \in DOMAIN toMain'[w] : toMain'[w][i].kind = "update" => toMain'[w][i].items = active'[w]
  <2>1. /\ DOMAIN toMain[w] = 1..Len(toMain[w]) /\ Len(toMain[w]) \in Nat
        /\ DOMAIN toMain'[w] = 1..(Len(toMain[w]) + 1)
        /\ \A i \in 1..Len(toMain[w]) : toMain'[w][i] = toMain[w][i]
        /\ toMain'[w][Len(toMain[w]) + 1] = Message("update", r)
    BY <1>1, <1>2
  <2>2. \A i \in DOMAIN toMain'[w] : i \in DOMAIN toMain[w] \/ i = Len(toMain[w]) + 1
    BY <2>1
  <2>3. \A i \in DOMAIN toMain[w] : toMain[w][i].kind # "update"
    BY DEF HasKind
  <2> QED
    BY <1>3, <2>1, <2>2, <2>3
<1>6. Traffic(w)'
  BY <1>4, <1>5 DEF Traffic
<1> QED
  BY <1>2, <1>4, <1>6

LEMMA TimerWindowStep ==
    ASSUME StorageInv, NEW w \in Window, TimerFires(w)
    PROVE  StorageInv'
<1>1. Types /\ w \in Node /\ w # Main /\ Main \in Node /\ NodeInv(w) /\ WindowInv(w)
  BY MainAssumption DEF StorageInv, Node
<1>2. /\ Types' /\ \A d \in Node : d # w => UNCHANGED LocalOf(d)
      /\ UNCHANGED <<state, cache, toWindow, changed, disk, erroneous, recovery, stamp, stored>>
  BY <1>1, TimerFiresIs
<1>3. CASE /\ active[w] = NoRequest /\ pending'[w] = NoRequest /\ active'[w] = pending[w] /\ HasPending(w)
           /\ toMain' = [toMain EXCEPT ![w] = Append(@, Message("update", pending[w]))]
  <2>1. ~HasKind(toMain[w], "update") /\ ~HasKind(toWindow[w], "ack") /\ One(toWindow[w], "ack")
    BY <1>1, <1>3 DEF WindowInv, Traffic
  <2>2. pending[w] \in Request /\ pending[w] # NoRequest
    BY <1>1, <1>3 DEF Types, HasPending
  <2>3. /\ Traffic(w)' /\ HasKind(toMain'[w], "update")
        /\ HasKind(toMain'[w], "get") <=> HasKind(toMain[w], "get")
        /\ One(toMain'[w], "get") /\ \A v \in Window : v # w => toMain'[v] = toMain[v]
    BY <1>1, <1>2, <1>3, <2>1, <2>2, SendKeeps DEF WindowInv
  <2>4. Underway(w)' = pending[w] /\ Underway(w) = NoRequest
    BY <1>1, <1>3, <2>1, <2>3 DEF Underway
  <2>5. NodeInv(w)'
    BY <1>1, <1>3, <2>4, TimerKeeps
  <2>6. Loads(w)' /\ Early(w)' /\ Late(w)'
    BY <1>1, <1>2, <2>3 DEF WindowInv, Loads, Early, Late
  <2>7. \A k \in Key : Own(w, k) => Own(w, k)'
    BY <1>2, <1>3, <2>4, NoChangeIs DEF Own
  <2>8. Follows(w)'
    BY <1>1, <1>2, <2>3, <2>7, SameNews DEF WindowInv, Follows, Listens
  <2> QED
    BY <1>2, <2>3, <2>5, <2>6, <2>8, WindowStep DEF WindowInv
<1>4. CASE /\ UNCHANGED <<pending[w], active[w], toMain>>
           /\ active[w] = NoRequest => ~HasPending(w)
  <2>1. Traffic(w)' /\ Loads(w)' /\ Early(w)' /\ Late(w)'
    BY <1>1, <1>2, <1>4 DEF WindowInv, Traffic, Loads, Early, Late, HasKind, One
  <2>2. Underway(w)' = Underway(w)
    BY <1>1, <1>4 DEF Underway, HasKind
  <2>3. NodeInv(w)'
    BY <1>1, <1>4, <2>2, TimerKeeps, UnderwayIs DEF HasPending
  <2>4. \A k \in Key : Own(w, k) => Own(w, k)'
    BY <1>2, <1>4, <2>2 DEF Own
  <2>5. Follows(w)'
    BY <1>1, <1>2, <1>4, <2>4, SameNews DEF WindowInv, Follows, Listens, HasKind
  <2> QED
    BY <1>2, <1>4, <2>1, <2>3, <2>5, WindowStep DEF WindowInv
<1>5. \/ /\ active[w] = NoRequest /\ pending'[w] = NoRequest /\ active'[w] = pending[w]
         /\ \/ /\ HasPending(w)
               /\ toMain' = [toMain EXCEPT ![w] = Append(@, Message("update", pending[w]))]
            \/ ~HasPending(w) /\ UNCHANGED toMain
      \/ active[w] # NoRequest /\ UNCHANGED <<pending[w], active[w], toMain>>
  BY <1>1, TimerFiresIs
<1> QED
  BY <1>3, <1>4, <1>5 DEF HasPending

LEMMA TimerMainStep ==
    ASSUME StorageInv, TimerFires(Main)
    PROVE  StorageInv'
<1>1. Types /\ Main \in Node /\ NodeInv(Main) /\ MainInv /\ \A w \in Window : w \in Node /\ w # Main
  BY MainAssumption DEF StorageInv, Node
<1>2. /\ Types' /\ \A w \in Window : UNCHANGED LocalOf(w)
      /\ UNCHANGED <<state, cache, toMain, toWindow, changed, disk, erroneous, recovery, stamp, stored>>
      /\ ~timer'[Main]
      /\ \/ active[Main] = NoRequest /\ pending'[Main] = NoRequest /\ active'[Main] = pending[Main]
         \/ active[Main] # NoRequest /\ UNCHANGED <<pending[Main], active[Main]>>
  BY <1>1, TimerFiresIs
<1>3. Underway(Main)' = IF active[Main] = NoRequest THEN pending[Main] ELSE Underway(Main)
  BY <1>2 DEF Underway
<1>4. NodeInv(Main)'
  BY <1>1, <1>3, TimerKeeps
<1>5. DiskInv'
  <2>1. \A k \in Key : Current(k) => Current(k)'
    BY <1>2, NoChangeIs DEF Current
  <2> QED
    BY <1>1, <1>2, <2>1 DEF MainInv, DiskInv
<1>6. RecoveryInv'
  <2>1. timer[Main]
    BY DEF TimerFires
  <2> QED
    BY <1>1, <1>2, <2>1 DEF MainInv, RecoveryInv, Flushed
<1>7. \A w \in Window : Late(w)'
  BY <1>2 DEF StorageInv, WindowInv, Late
<1> QED
  BY <1>2, <1>4, <1>5, <1>6, <1>7, MainStep DEF MainInv

-----------------------------------------------------------------------------
(* A window and the main process *)

\* A call is handled: the first message to the main process is gone.
LEMMA CalledIs ==
    ASSUME StorageInv, NEW w \in Window, NEW kind \in {"get", "update"}, Called(w, kind)
    PROVE  /\ state[Main] # "none" /\ HasKind(toMain[w], kind) /\ ~HasKind(toMain'[w], kind)
           /\ toMain' \in [Window -> Seq(MainMessage)]
           /\ \A v \in Window : v # w => toMain'[v] = toMain[v]
           /\ \A k : k # kind => (HasKind(toMain'[w], k) <=> HasKind(toMain[w], k))
           /\ One(toMain'[w], "get") /\ One(toMain'[w], "update")
           /\ \A i \in DOMAIN toMain'[w] : toMain'[w][i].kind = "update" => toMain'[w][i].items = active[w]
           /\ kind = "update" => Head(toMain[w]).items = active[w]
<1>1. Types /\ Traffic(w) /\ Loads(w)
  BY DEF StorageInv, WindowInv
<1>2. /\ toMain[w] # <<>> /\ Head(toMain[w]).kind = kind /\ state[Main] # "none"
      /\ toMain' = [toMain EXCEPT ![w] = Tail(toMain[w])]
  BY DEF Called
<1>3. toMain[w] \in Seq(MainMessage) /\ toMain \in [Window -> Seq(MainMessage)]
  BY <1>1 DEF Types
<1>4. /\ Tail(toMain[w]) \in Seq(MainMessage) /\ HasKind(toMain[w], kind)
      /\ 1 \in DOMAIN toMain[w] /\ Head(toMain[w]) = toMain[w][1]
      /\ \A i \in DOMAIN Tail(toMain[w]) : i + 1 \in DOMAIN toMain[w] /\ Tail(toMain[w])[i] = toMain[w][i + 1]
      /\ \A k : HasKind(toMain[w], k) <=> HasKind(Tail(toMain[w]), k) \/ k = kind
      /\ \A k : One(toMain[w], k) => One(Tail(toMain[w]), k) /\ (k = kind => ~HasKind(Tail(toMain[w]), k))
  BY <1>2, <1>3, KindTail
<1>5. toMain'[w] = Tail(toMain[w]) /\ \A v \in Window : v # w => toMain'[v] = toMain[v]
  BY <1>2, <1>3
<1>6. toMain' \in [Window -> Seq(MainMessage)]
  BY <1>2, <1>3, <1>4
<1>7. One(toMain[w], "get") /\ One(toMain[w], "update")
  BY <1>1 DEF Traffic, Loads
<1>8. /\ kind = "update" => Head(toMain[w]).items = active[w]
      /\ \A i \in DOMAIN Tail(toMain[w]) : Tail(toMain[w])[i].kind = "update" => Tail(toMain[w])[i].items = active[w]
  BY <1>1, <1>2, <1>4 DEF Traffic
<1> QED
  BY <1>2, <1>4, <1>5, <1>6, <1>7, <1>8

\* An answer or a change is told: one more message to the window.
LEMMA TellIs ==
    ASSUME Types, NEW w \in Window, NEW m \in WindowMessage,
           toWindow' = [toWindow EXCEPT ![w] = Append(@, m)]
    PROVE  /\ toWindow' \in [Window -> Seq(WindowMessage)] /\ toWindow'[w] = Append(toWindow[w], m)
           /\ \A v \in Window : v # w => toWindow'[v] = toWindow[v]
           /\ \A kind : HasKind(toWindow'[w], kind) <=> HasKind(toWindow[w], kind) \/ m.kind = kind
           /\ \A kind : One(toWindow[w], kind) /\ (m.kind = kind => ~HasKind(toWindow[w], kind)) => One(toWindow'[w], kind)
<1> DEFINE p == Append(toWindow[w], m)
<1>1. toWindow \in [Window -> Seq(WindowMessage)] /\ toWindow' = [toWindow EXCEPT ![w] = p]
  BY DEF Types
<1>2. /\ p \in Seq(WindowMessage)
      /\ \A kind : HasKind(p, kind) <=> HasKind(toWindow[w], kind) \/ m.kind = kind
      /\ \A kind : One(toWindow[w], kind) /\ (m.kind = kind => ~HasKind(toWindow[w], kind)) => One(p, kind)
  BY <1>1, KindAppend
<1> HIDE DEF p
<1>3. toWindow' \in [Window -> Seq(WindowMessage)] /\ toWindow'[w] = p /\ \A v \in Window : v # w => toWindow'[v] = toWindow[v]
  BY <1>1, <1>2
<1> QED
  BY <1>2, <1>3 DEF p

\* A window reads its first message.
LEMMA ReceivedIs ==
    ASSUME StorageInv, NEW w \in Window, NEW kind, Received(w, kind)
    PROVE  /\ HasKind(toWindow[w], kind) /\ Head(toWindow[w]) \in WindowMessage
           /\ Head(toWindow[w]).kind = kind /\ state[Main] # "none"
           /\ toWindow' \in [Window -> Seq(WindowMessage)]
           /\ \A v \in Window : v # w => toWindow'[v] = toWindow[v]
           /\ \A k : HasKind(toWindow[w], k) <=> HasKind(toWindow'[w], k) \/ k = kind
           /\ kind \in {"ack", "items"} => ~HasKind(toWindow'[w], kind)
           /\ One(toWindow'[w], "ack") /\ One(toWindow'[w], "items")
           /\ \A k : Silent(toWindow[w], k) => Silent(toWindow'[w], k) /\ ~Mentions(Head(toWindow[w]), k)
           /\ \A k, v : LastIs(toWindow[w], k, v) =>
                 \/ LastIs(toWindow'[w], k, v)
                 \/ /\ Silent(toWindow'[w], k) /\ Mentions(Head(toWindow[w]), k)
                    /\ Head(toWindow[w]).items[k] = v
<1> DEFINE q == toWindow[w]
<1>1. Types /\ Traffic(w) /\ Loads(w) /\ Early(w)
  BY DEF StorageInv, WindowInv
<1>2. q # <<>> /\ Head(q).kind = kind /\ toWindow' = [toWindow EXCEPT ![w] = Tail(q)]
  BY DEF Received
<1>3. q \in Seq(WindowMessage) /\ toWindow \in [Window -> Seq(WindowMessage)]
  BY <1>1 DEF Types
<1>4. /\ Tail(q) \in Seq(WindowMessage) /\ HasKind(q, kind) /\ Head(q) \in WindowMessage
      /\ \A k : HasKind(q, k) <=> HasKind(Tail(q), k) \/ k = kind
      /\ \A k : One(q, k) => One(Tail(q), k) /\ (k = kind => ~HasKind(Tail(q), k))
  BY <1>2, <1>3, KindTail
<1>5. toWindow'[w] = Tail(q) /\ \A v \in Window : v # w => toWindow'[v] = toWindow[v]
  BY <1>2, <1>3
<1>6. toWindow' \in [Window -> Seq(WindowMessage)]
  BY <1>2, <1>3, <1>4
<1>7. One(q, "ack") /\ One(q, "items") /\ state[Main] # "none"
  BY <1>1, <1>2 DEF Traffic, Loads, Early
<1>8. ASSUME NEW k
      PROVE  /\ Silent(q, k) => Silent(Tail(q), k) /\ ~Mentions(Head(q), k)
             /\ \A v : LastIs(q, k, v) =>
                   LastIs(Tail(q), k, v) \/ (Silent(Tail(q), k) /\ Mentions(Head(q), k) /\ Head(q).items[k] = v)
  BY <1>2, <1>3, NewsTail
<1> QED
  BY <1>2, <1>4, <1>5, <1>6, <1>7, <1>8

LEMMA GetItemsStep ==
    ASSUME StorageInv, NEW w \in Window, GetItems(w)
    PROVE  StorageInv'
<1> DEFINE m == Message("items", cache[Main])
<1>1. Types /\ w \in Node /\ w # Main /\ Main \in Node /\ NodeInv(w) /\ WindowInv(w)
  BY MainAssumption DEF StorageInv, Node
<1>2. /\ Called(w, "get") /\ toWindow' = [toWindow EXCEPT ![w] = Append(@, m)]
      /\ UNCHANGED <<state, cache, pending, timer, active, queued, changed, disk, erroneous, recovery,
                     stamp, stored, owed, owedLater, promised>>
  BY DEF GetItems, storageVars, diskVars, historyVars
<1>3. /\ state[Main] # "none" /\ HasKind(toMain[w], "get") /\ ~HasKind(toMain'[w], "get")
      /\ toMain' \in [Window -> Seq(MainMessage)]
      /\ \A v \in Window : v # w => toMain'[v] = toMain[v]
      /\ HasKind(toMain'[w], "update") <=> HasKind(toMain[w], "update")
      /\ One(toMain'[w], "get") /\ One(toMain'[w], "update")
      /\ \A i \in DOMAIN toMain'[w] : toMain'[w][i].kind = "update" => toMain'[w][i].items = active[w]
  BY <1>2, CalledIs
<1>4. /\ m \in WindowMessage /\ m.kind = "items" /\ m.items = cache[Main]
      /\ \A k \in Key : Mentions(m, k)
  <2>1. cache[Main] \in [Key -> Value \cup {Absent}]
    BY <1>1 DEF Types, Values
  <2> QED
    BY <2>1 DEF Message, WindowMessage, Mentions
<1> HIDE DEF m
<1>5. /\ toWindow' \in [Window -> Seq(WindowMessage)] /\ toWindow'[w] = Append(toWindow[w], m)
      /\ \A v \in Window : v # w => toWindow'[v] = toWindow[v]
      /\ HasKind(toWindow'[w], "ack") <=> HasKind(toWindow[w], "ack")
      /\ One(toWindow[w], "ack") => One(toWindow'[w], "ack")
      /\ HasKind(toWindow'[w], "items")
      /\ One(toWindow[w], "items") /\ ~HasKind(toWindow[w], "items") => One(toWindow'[w], "items")
  <2>1. /\ toWindow' \in [Window -> Seq(WindowMessage)] /\ toWindow'[w] = Append(toWindow[w], m)
        /\ \A v \in Window : v # w => toWindow'[v] = toWindow[v]
        /\ \A kind : HasKind(toWindow'[w], kind) <=> HasKind(toWindow[w], kind) \/ m.kind = kind
        /\ \A kind : One(toWindow[w], kind) /\ (m.kind = kind => ~HasKind(toWindow[w], kind))
              => One(toWindow'[w], kind)
    BY <1>1, <1>2, <1>4, TellIs
  <2>2. m.kind = "items"
    BY <1>4
  <2>3. /\ HasKind(toWindow'[w], "ack") <=> HasKind(toWindow[w], "ack")
        /\ HasKind(toWindow'[w], "items")
    BY <2>1, <2>2
  <2>4. One(toWindow[w], "ack") => One(toWindow'[w], "ack")
    BY <2>1, <2>2
  <2>5. One(toWindow[w], "items") /\ ~HasKind(toWindow[w], "items") => One(toWindow'[w], "items")
    BY <2>1, <2>2
  <2> QED
    BY <2>1, <2>3, <2>4, <2>5
<1>6. Types'
  BY <1>1, <1>2, <1>3, <1>5 DEF Types
<1>7. Underway(w)' = Underway(w)
  BY <1>1, <1>2, <1>3 DEF Underway
<1>8. UNCHANGED LocalOf(w) /\ \A n \in Node : UNCHANGED LocalOf(n)
  BY <1>2 DEF LocalOf
<1>9. NodeInv(w)'
  BY <1>1, <1>2, <1>7, <1>8, NodeKept DEF Sound
<1>10. Traffic(w)'
  BY <1>1, <1>2, <1>3, <1>5 DEF WindowInv, Traffic
<1>11. Loads(w)' /\ Early(w)' /\ Late(w)'
  BY <1>1, <1>2, <1>3, <1>5 DEF WindowInv, Loads, Early, Late
<1>12. Follows(w)'
  <2> SUFFICES ASSUME NEW k \in Key PROVE LastIs(toWindow'[w], k, cache[Main][k])
    BY <1>2 DEF Follows, Told
  <2>1. toWindow[w] \in Seq(WindowMessage)
    BY <1>1 DEF Types
  <2> QED
    BY <1>4, <1>5, <2>1, NewsAppend
<1> QED
  BY <1>2, <1>3, <1>5, <1>6, <1>8, <1>9, <1>10, <1>11, <1>12, WindowStep DEF WindowInv

\* The items are news of every key.
LEMMA ReceiveItemsStep ==
    ASSUME StorageInv, NEW w \in Window, ReceiveItems(w)
    PROVE  StorageInv'
<1> DEFINE m == Head(toWindow[w])
<1>1. Types /\ w \in Node /\ w # Main /\ Main \in Node /\ NodeInv(w) /\ WindowInv(w)
  BY MainAssumption DEF StorageInv, Node
<1>2. /\ Received(w, "items")
      /\ state' = [state EXCEPT ![w] = IF @ = "loading" THEN "open" ELSE @]
      /\ cache' = [cache EXCEPT ![w] = m.items]
      /\ UNCHANGED <<pending, timer, active, queued, toMain, changed, disk, erroneous, recovery,
                     stamp, stored, owed, owedLater, promised>>
  BY DEF ReceiveItems, diskVars, historyVars
<1>3. /\ HasKind(toWindow[w], "items") /\ m \in WindowMessage
      /\ m.kind = "items" /\ state[Main] # "none"
      /\ toWindow' \in [Window -> Seq(WindowMessage)]
      /\ \A v \in Window : v # w => toWindow'[v] = toWindow[v]
      /\ HasKind(toWindow[w], "ack") <=> HasKind(toWindow'[w], "ack")
      /\ ~HasKind(toWindow'[w], "items")
      /\ One(toWindow'[w], "ack") /\ One(toWindow'[w], "items")
      /\ \A k : Silent(toWindow[w], k) => ~Mentions(m, k)
      /\ \A k, v : LastIs(toWindow[w], k, v) =>
            LastIs(toWindow'[w], k, v) \/ (Silent(toWindow'[w], k) /\ m.items[k] = v)
  BY <1>2, ReceivedIs
<1>4. m.items \in [Key -> Values]
  BY <1>3 DEF WindowMessage, Values
<1> HIDE DEF m
<1>5. state[w] = "loading" /\ ~HasKind(toMain[w], "get")
  BY <1>1, <1>3 DEF WindowInv, Loads
<1>6. /\ state' \in [Node -> States] /\ state'[w] = "open"
      /\ cache' \in [Node -> [Key -> Values]] /\ cache'[w] = m.items
      /\ \A n \in Node : n # w => state'[n] = state[n] /\ cache'[n] = cache[n]
  BY <1>1, <1>2, <1>4, <1>5 DEF Types, States
<1>7. Types'
  BY <1>1, <1>2, <1>3, <1>6 DEF Types
<1>8. \A n \in Node : n # w => UNCHANGED LocalOf(n)
  BY <1>2, <1>6 DEF LocalOf
<1>9. Underway(w)' = Underway(w)
  BY <1>1, <1>2 DEF Underway, HasKind
<1>10. NodeInv(w)'
  <2>1. Ended(w)'
    BY <1>6 DEF Ended
  <2> QED
    BY <1>1, <1>2, <1>9, <2>1, NodeGoesOn DEF Sound
<1>11. Traffic(w)'
  BY <1>1, <1>2, <1>3 DEF WindowInv, Traffic, One, HasKind
<1>12. Loads(w)' /\ Early(w)' /\ Late(w)'
  <2>1. ~HasKind(toMain'[w], "get") /\ One(toMain'[w], "get")
    BY <1>1, <1>2, <1>5 DEF WindowInv, Loads, HasKind, One
  <2>2. state'[Main] = state[Main]
    BY <1>1, <1>6
  <2> QED
    BY <1>1, <1>3, <1>5, <1>6, <2>1, <2>2 DEF WindowInv, Loads, Early, Late
<1>13. Follows(w)'
  <2> SUFFICES ASSUME NEW k \in Key PROVE Told(w, k)'
    BY DEF Follows
  <2>1. Told(w, k)
    BY <1>1, <1>5 DEF WindowInv, Follows, Listens
  <2>2. cache'[Main] = cache[Main] /\ cache'[w][k] = m.items[k]
    BY <1>1, <1>6
  <2>3. Mentions(m, k)
    BY <1>3, <1>4 DEF Mentions
  <2>4. CASE k \in changed
    BY <1>2, <2>4 DEF Told
  <2>5. CASE LastIs(toWindow[w], k, cache[Main][k])
    <3>1. CASE LastIs(toWindow'[w], k, cache[Main][k])
      BY <2>2, <3>1 DEF Told
    <3>2. CASE Silent(toWindow'[w], k) /\ m.items[k] = cache[Main][k]
      BY <2>2, <3>2 DEF Told, Own
    <3> QED
      BY <1>3, <2>5, <3>1, <3>2
  <2> QED
    BY <1>3, <2>1, <2>3, <2>4, <2>5 DEF Told
<1> QED
  BY <1>2, <1>3, <1>7, <1>8, <1>10, <1>11, <1>12, <1>13, WindowStep DEF WindowInv

\* A change that is told is taken over, also one that is older than a change of its own.
LEMMA ReceiveChangedStep ==
    ASSUME StorageInv, NEW w \in Window, ReceiveChanged(w)
    PROVE  StorageInv'
<1> DEFINE m == Head(toWindow[w])
           c == [k \in Key |-> IF k \in DOMAIN m.items THEN m.items[k] ELSE cache[w][k]]
<1>1. Types /\ w \in Node /\ w # Main /\ Main \in Node /\ NodeInv(w) /\ WindowInv(w)
  BY MainAssumption DEF StorageInv, Node
<1>2. /\ Received(w, "changed")
      /\ cache' = IF Accepts(w) THEN [cache EXCEPT ![w] = c] ELSE cache
      /\ UNCHANGED <<state, pending, timer, active, queued, toMain, changed, disk, erroneous, recovery,
                     stamp, stored, owed, owedLater, promised>>
  BY DEF ReceiveChanged, diskVars, historyVars
<1>3. /\ m \in WindowMessage /\ m.kind = "changed" /\ state[Main] # "none"
      /\ toWindow' \in [Window -> Seq(WindowMessage)]
      /\ \A v \in Window : v # w => toWindow'[v] = toWindow[v]
      /\ HasKind(toWindow[w], "ack") <=> HasKind(toWindow'[w], "ack")
      /\ HasKind(toWindow[w], "items") <=> HasKind(toWindow'[w], "items")
      /\ One(toWindow'[w], "ack") /\ One(toWindow'[w], "items")
      /\ \A k : Silent(toWindow[w], k) => Silent(toWindow'[w], k) /\ ~Mentions(m, k)
      /\ \A k, v : LastIs(toWindow[w], k, v) =>
            \/ LastIs(toWindow'[w], k, v)
            \/ Silent(toWindow'[w], k) /\ Mentions(m, k) /\ m.items[k] = v
  BY <1>2, ReceivedIs
<1>4. PICK K \in SUBSET Key : m.items \in [K -> Values]
  BY <1>3 DEF WindowMessage, Values
<1> HIDE DEF m
<1>5. /\ c \in [Key -> Values]
      /\ \A k \in Key : c[k] = IF Mentions(m, k) THEN m.items[k] ELSE cache[w][k]
  BY <1>1, <1>3, <1>4 DEF Types, Mentions
<1> HIDE DEF c
<1>6. /\ cache' \in [Node -> [Key -> Values]]
      /\ Accepts(w) => cache'[w] = c
      /\ \A n \in Node : n # w => cache'[n] = cache[n]
  BY <1>1, <1>2, <1>5 DEF Types
<1>7. Types'
  BY <1>1, <1>2, <1>3, <1>6 DEF Types
<1>8. \A n \in Node : n # w => UNCHANGED LocalOf(n)
  BY <1>2, <1>6 DEF LocalOf
<1>9. Underway(w)' = Underway(w)
  BY <1>1, <1>2 DEF Underway, HasKind
<1>10. NodeInv(w)'
  <2>1. Ended(w)'
    BY <1>1, <1>2 DEF NodeInv, Ended, HasPending
  <2> QED
    BY <1>1, <1>2, <1>9, <2>1, NodeGoesOn DEF Sound
<1>11. Traffic(w)'
  BY <1>1, <1>2, <1>3 DEF WindowInv, Traffic, One, HasKind
<1>12. Loads(w)' /\ Early(w)' /\ Late(w)'
  <2>1. /\ HasKind(toMain'[w], "get") <=> HasKind(toMain[w], "get")
        /\ One(toMain'[w], "get")
    BY <1>1, <1>2 DEF WindowInv, Loads, HasKind, One
  <2>2. state[w] # "none"
    BY <1>1, <1>2 DEF WindowInv, Loads, Received
  <2> QED
    BY <1>1, <1>2, <1>3, <2>1, <2>2 DEF WindowInv, Loads, Early, Late
<1>13. Follows(w)'
  <2> SUFFICES ASSUME Listens(w)', ~HasKind(toMain[w], "get")', NEW k \in Key PROVE Told(w, k)'
    BY DEF Follows
  <2>1. Told(w, k) /\ Accepts(w)
    BY <1>1, <1>2 DEF WindowInv, Follows, Listens, Accepts, HasKind
  <2>2. cache'[Main] = cache[Main] /\ cache'[w][k] = IF Mentions(m, k) THEN m.items[k] ELSE cache[w][k]
    BY <1>1, <1>5, <1>6, <2>1
  <2>3. CASE k \in changed
    BY <1>2, <2>3 DEF Told
  <2>4. CASE LastIs(toWindow[w], k, cache[Main][k])
    <3>1. CASE LastIs(toWindow'[w], k, cache[Main][k])
      BY <2>2, <3>1 DEF Told
    <3>2. CASE Silent(toWindow'[w], k) /\ Mentions(m, k) /\ m.items[k] = cache[Main][k]
      BY <2>2, <3>2 DEF Told, Own
    <3> QED
      BY <1>3, <2>4, <3>1, <3>2
  <2>5. CASE Silent(toWindow[w], k) /\ Own(w, k)
    <3>1. Silent(toWindow'[w], k) /\ cache'[w][k] = cache[w][k]
      BY <1>3, <2>2, <2>5
    <3>2. Own(w, k)'
      BY <1>2, <1>9, <2>2, <2>5, <3>1 DEF Own
    <3> QED
      BY <3>1, <3>2 DEF Told
  <2> QED
    BY <2>1, <2>3, <2>4, <2>5 DEF Told
<1> QED
  BY <1>2, <1>3, <1>7, <1>8, <1>10, <1>11, <1>12, <1>13, WindowStep DEF WindowInv

\* The answer to an update: its promises end, and a queued update is sent.
LEMMA ReceiveAckStep ==
    ASSUME StorageInv, NEW w \in Window, ReceiveAck(w)
    PROVE  StorageInv'
<1>1. Types /\ w \in Node /\ w # Main /\ Main \in Node /\ NodeInv(w) /\ WindowInv(w)
  BY MainAssumption DEF StorageInv, Node
<1>2. /\ Received(w, "ack") /\ UpdateEnds(w, TRUE)
      /\ UNCHANGED <<state, cache, timer, changed, disk, erroneous, recovery, stamp, stored, owedLater>>
  BY DEF ReceiveAck, diskVars
<1>3. /\ HasKind(toWindow[w], "ack") /\ state[Main] # "none" /\ Head(toWindow[w]).kind = "ack"
      /\ toWindow' \in [Window -> Seq(WindowMessage)]
      /\ \A v \in Window : v # w => toWindow'[v] = toWindow[v]
      /\ HasKind(toWindow[w], "items") <=> HasKind(toWindow'[w], "items")
      /\ ~HasKind(toWindow'[w], "ack")
      /\ One(toWindow'[w], "ack") /\ One(toWindow'[w], "items")
      /\ \A k : Silent(toWindow[w], k) => Silent(toWindow'[w], k)
      /\ \A k, v : LastIs(toWindow[w], k, v) =>
            LastIs(toWindow'[w], k, v) \/ Mentions(Head(toWindow[w]), k)
  BY <1>2, ReceivedIs
<1>4. \A k, v : LastIs(toWindow[w], k, v) => LastIs(toWindow'[w], k, v)
  BY <1>3 DEF Mentions
<1>5. ~HasKind(toMain[w], "update") /\ active[w] # NoRequest
  BY <1>1, <1>3 DEF WindowInv, Traffic
<1>6. /\ pending' \in [Node -> Request] /\ active' \in [Node -> Request]
      /\ queued' \in [Node -> BOOLEAN] /\ toMain' \in [Window -> Seq(MainMessage)]
      /\ owed' \in [Node -> Counts] /\ promised' \in [Node -> Counts]
      /\ \A d \in Node : d # w => UNCHANGED <<pending[d], active[d], queued[d], owed[d], promised[d]>>
      /\ \/ /\ active'[w] = pending[w] /\ pending'[w] = NoRequest
            /\ toMain' = IF w = Main \/ ~HasPending(w) THEN toMain
                         ELSE [toMain EXCEPT ![w] = Append(@, Message("update", pending[w]))]
         \/ active'[w] = NoRequest /\ UNCHANGED <<pending[w], toMain>>
  BY <1>1, <1>2, UpdateEndsIs
<1>7. Types'
  BY <1>1, <1>2, <1>3, <1>6 DEF Types
<1>8. \A n \in Node : n # w => UNCHANGED LocalOf(n)
  BY <1>2, <1>6 DEF LocalOf
<1>9. pending[w] \in Request
  BY <1>1 DEF Types
<1>10. /\ Traffic(w)' /\ Underway(w)' = active'[w] /\ \A v \in Window : v # w => toMain'[v] = toMain[v]
       /\ HasKind(toMain'[w], "get") <=> HasKind(toMain[w], "get")
       /\ One(toMain'[w], "get")
  <2>1. CASE /\ active'[w] = pending[w] /\ HasPending(w)
             /\ toMain' = [toMain EXCEPT ![w] = Append(@, Message("update", pending[w]))]
    <3>1. /\ Traffic(w)' /\ HasKind(toMain'[w], "update")
          /\ HasKind(toMain'[w], "get") <=> HasKind(toMain[w], "get")
          /\ One(toMain'[w], "get") /\ \A v \in Window : v # w => toMain'[v] = toMain[v]
      BY <1>1, <1>3, <1>5, <1>9, <2>1, SendKeeps DEF WindowInv, HasPending
    <3> QED
      BY <1>1, <3>1 DEF Underway
  <2>2. CASE active'[w] = NoRequest /\ UNCHANGED toMain
    <3>1. Traffic(w)'
      BY <1>1, <1>3, <1>5, <2>2 DEF WindowInv, Traffic, HasKind, One
    <3> QED
      BY <1>1, <1>5, <2>2, <3>1 DEF Underway, WindowInv, Loads, HasKind, One
  <2> QED
    BY <1>1, <1>6, <2>1, <2>2 DEF HasPending
<1>11. Underway(w) = NoRequest /\ \A k \in Key : NoRequest[k] = NoChange
  BY <1>1, <1>5, NoChangeIs DEF Underway
<1>12. NodeInv(w)'
  BY <1>1, <1>2, <1>5, <1>10, <1>11, EndsKeeps DEF Sound
<1>13. Loads(w)' /\ Early(w)' /\ Late(w)'
  <2>1. state[w] # "none"
    BY <1>1, <1>2 DEF WindowInv, Loads, Received
  <2> QED
    BY <1>1, <1>2, <1>3, <1>10, <2>1 DEF WindowInv, Loads, Early, Late
<1>14. Follows(w)'
  <2> SUFFICES ASSUME Listens(w)', ~HasKind(toMain[w], "get"), NEW k \in Key PROVE Told(w, k)'
    BY <1>10 DEF Follows
  <2>1. Told(w, k)
    BY <1>1, <1>2 DEF WindowInv, Follows, Listens
  <2>2. Own(w, k) => Own(w, k)'
    BY <1>2, <1>6, <1>10, <1>11 DEF Own
  <2> QED
    BY <1>2, <1>3, <1>4, <2>1, <2>2 DEF Told
<1> QED
  BY <1>2, <1>3, <1>7, <1>8, <1>10, <1>12, <1>13, <1>14, WindowStep DEF WindowInv

-----------------------------------------------------------------------------
(* Windows open and close *)

LEMMA OpenWindowStep ==
    ASSUME StorageInv, NEW w \in Window, OpenWindow(w)
    PROVE  StorageInv'
<1> DEFINE m == Message("get", NoRequest)
<1>1. Types /\ w \in Node /\ w # Main /\ Main \in Node /\ NodeInv(w) /\ WindowInv(w)
  BY MainAssumption DEF StorageInv, Node
<1>2. /\ state[w] = "none" /\ state[Main] \in {"none", "open"}
      /\ state' = [state EXCEPT ![w] = "loading"]
      /\ toMain' = [toMain EXCEPT ![w] = Append(toMain[w], m)]
      /\ UNCHANGED <<cache, pending, timer, active, queued, toWindow, changed, disk, erroneous, recovery,
                     stamp, stored, owed, owedLater, promised>>
  BY DEF OpenWindow, diskVars, historyVars
<1>3. m \in MainMessage /\ m.kind = "get"
  BY NoChangeIs DEF Message, MainMessage
<1> HIDE DEF m
<1>4. toMain[w] \in Seq(MainMessage) /\ toMain \in [Window -> Seq(MainMessage)]
  BY <1>1 DEF Types
<1>5. /\ Append(toMain[w], m) \in Seq(MainMessage)
      /\ \A kind : HasKind(Append(toMain[w], m), kind) <=> HasKind(toMain[w], kind) \/ m.kind = kind
      /\ \A kind : One(toMain[w], kind) /\ (m.kind = kind => ~HasKind(toMain[w], kind))
            => One(Append(toMain[w], m), kind)
  BY <1>3, <1>4, KindAppend
<1>6. /\ toMain' \in [Window -> Seq(MainMessage)] /\ toMain'[w] = Append(toMain[w], m)
      /\ \A v \in Window : v # w => toMain'[v] = toMain[v]
  BY <1>2, <1>4, <1>5
<1>7. /\ state' \in [Node -> States] /\ state'[w] = "loading"
      /\ \A n \in Node : n # w => state'[n] = state[n]
  BY <1>1, <1>2 DEF Types, States
<1>8. Types'
  BY <1>1, <1>2, <1>6, <1>7 DEF Types
<1>9. \A n \in Node : n # w => UNCHANGED LocalOf(n)
  BY <1>2, <1>7 DEF LocalOf
<1>10. /\ active[w] = NoRequest /\ toWindow[w] = <<>> /\ ~HasKind(toMain[w], "get")
       /\ ~HasKind(toMain[w], "update")
  BY <1>1, <1>2 DEF NodeInv, Ended, WindowInv, Traffic, Loads
<1>11. /\ HasKind(toMain'[w], "get") /\ ~HasKind(toMain'[w], "update")
       /\ One(toMain'[w], "get") /\ One(toMain'[w], "update")
  <2>1. One(toMain[w], "get") /\ One(toMain[w], "update")
    BY <1>1 DEF WindowInv, Traffic, Loads
  <2> QED
    BY <1>3, <1>5, <1>6, <1>10, <2>1
<1>12. Underway(w)' = Underway(w)
  BY <1>1, <1>10, <1>11 DEF Underway
<1>13. NodeInv(w)'
  <2>1. Ended(w)'
    BY <1>7 DEF Ended
  <2> QED
    BY <1>1, <1>2, <1>12, <2>1, NodeGoesOn DEF Sound
<1>14. Traffic(w)'
  <2>1. \A i \in DOMAIN toMain'[w] : toMain'[w][i].kind # "update"
    BY <1>11 DEF HasKind
  <2> QED
    BY <1>1, <1>2, <1>10, <1>11, <2>1, KindEmpty DEF Traffic
<1>15. Loads(w)' /\ Early(w)' /\ Late(w)'
  BY <1>1, <1>2, <1>7, <1>10, <1>11, KindEmpty DEF Loads, Early, Late
<1>16. Follows(w)'
  BY <1>11 DEF Follows
<1> QED
  BY <1>2, <1>6, <1>8, <1>9, <1>13, <1>14, <1>15, <1>16, WindowStep DEF WindowInv

\* No more changes are told to it, and what it has is flushed.
LEMMA CloseWindowStep ==
    ASSUME StorageInv, NEW w \in Window, CloseWindow(w)
    PROVE  StorageInv'
<1>1. Types /\ w \in Node /\ w # Main /\ Main \in Node /\ NodeInv(w) /\ WindowInv(w)
  BY MainAssumption DEF StorageInv, Node
<1>2. /\ state[w] = "open" /\ state' = [state EXCEPT ![w] = "closing"]
      /\ timer' = [timer EXCEPT ![w] = TRUE]
      /\ UNCHANGED <<cache, pending, active, queued, toMain, toWindow, changed, disk, erroneous, recovery,
                     stamp, stored, owed, owedLater, promised>>
  BY DEF CloseWindow, Close, channelVars, diskVars, historyVars
<1>3. /\ state' \in [Node -> States] /\ timer' \in [Node -> BOOLEAN]
      /\ state'[w] = "closing" /\ timer'[w]
      /\ \A n \in Node : n # w => state'[n] = state[n] /\ timer'[n] = timer[n]
  BY <1>1, <1>2 DEF Types, States
<1>4. Types'
  BY <1>2, <1>3, <1>1 DEF Types
<1>5. \A n \in Node : n # w => UNCHANGED LocalOf(n)
  BY <1>2, <1>3 DEF LocalOf
<1>6. Underway(w)' = Underway(w)
  BY <1>1, <1>2 DEF Underway, HasKind
<1>7. NodeInv(w)'
  <2>1. Ended(w)'
    BY <1>3 DEF Ended
  <2> QED
    BY <1>1, <1>2, <1>3, <1>6, <2>1, NodeGoesOn DEF Sound
<1>8. Traffic(w)' /\ Loads(w)'
  BY <1>1, <1>2, <1>3 DEF WindowInv, Traffic, Loads, HasKind, One
<1>9. Early(w)' /\ Late(w)'
  BY <1>1, <1>2, <1>3 DEF WindowInv, Early, Late
<1>10. Follows(w)'
  BY <1>3 DEF Follows, Listens
<1> QED
  BY <1>2, <1>4, <1>5, <1>7, <1>8, <1>9, <1>10, WindowStep DEF WindowInv

\* Its flush has ended: nothing is left to hand over.
LEMMA WindowClosedStep ==
    ASSUME StorageInv, NEW w \in Window, WindowClosed(w)
    PROVE  StorageInv'
<1>1. Types /\ w \in Node /\ w # Main /\ Main \in Node /\ NodeInv(w) /\ WindowInv(w)
  BY MainAssumption DEF StorageInv, Node
<1>2. /\ state[w] = "closing" /\ ~timer[w] /\ active[w] = NoRequest
      /\ state' = [state EXCEPT ![w] = "closed"] /\ toWindow' = [toWindow EXCEPT ![w] = <<>>]
      /\ UNCHANGED <<cache, pending, timer, active, queued, toMain, changed, disk, erroneous, recovery,
                     stamp, stored, owed, owedLater, promised>>
  BY DEF WindowClosed, Flushed, diskVars, historyVars
<1>3. /\ state' \in [Node -> States] /\ state'[w] = "closed"
      /\ \A n \in Node : n # w => state'[n] = state[n]
  BY <1>1, <1>2 DEF Types, States
<1>4. <<>> \in Seq(WindowMessage)
  OBVIOUS
<1>5. /\ toWindow' \in [Window -> Seq(WindowMessage)] /\ toWindow'[w] = <<>>
      /\ \A v \in Window : v # w => toWindow'[v] = toWindow[v]
  BY <1>1, <1>2, <1>4 DEF Types
<1>6. Types'
  BY <1>1, <1>2, <1>3, <1>5 DEF Types
<1>7. \A n \in Node : n # w => UNCHANGED LocalOf(n)
  BY <1>2, <1>3 DEF LocalOf
<1>8. Underway(w)' = Underway(w)
  BY <1>1, <1>2 DEF Underway, HasKind
<1>9. NodeInv(w)'
  <2>1. ~HasPending(w)
    BY <1>1, <1>2 DEF NodeInv, Watched, QueuedBehind
  <2>2. Ended(w)'
    BY <1>2, <2>1 DEF Ended, HasPending
  <2> QED
    BY <1>1, <1>2, <1>8, <2>2, NodeGoesOn DEF Sound
<1>10. Traffic(w)'
  <2>1. ~HasKind(toMain[w], "update") /\ One(toMain[w], "update")
    BY <1>1, <1>2 DEF WindowInv, Traffic
  <2> QED
    BY <1>2, <1>5, <2>1, KindEmpty DEF Traffic, HasKind, One
<1>11. Loads(w)'
  <2>1. ~HasKind(toMain[w], "get") /\ One(toMain[w], "get")
    BY <1>1, <1>2 DEF WindowInv, Loads
  <2> QED
    BY <1>2, <1>3, <1>5, <2>1, KindEmpty DEF Loads, HasKind, One
<1>12. Early(w)' /\ Late(w)'
  BY <1>1, <1>2, <1>3 DEF WindowInv, Early, Late
<1>13. Follows(w)'
  BY <1>3 DEF Follows, Listens
<1> QED
  BY <1>2, <1>5, <1>6, <1>7, <1>9, <1>10, <1>11, <1>12, <1>13, WindowStep DEF WindowInv

-----------------------------------------------------------------------------
(* A window or the application is gone *)

\* Nothing is left of what has gone.
LEMMA GoneIs ==
    ASSUME Types, NEW N \in SUBSET Node, Gone(N)
    PROVE  /\ state' \in [Node -> States] /\ cache' \in [Node -> [Key -> Values]]
           /\ pending' \in [Node -> Request] /\ active' \in [Node -> Request]
           /\ timer' \in [Node -> BOOLEAN] /\ queued' \in [Node -> BOOLEAN]
           /\ toMain' \in [Window -> Seq(MainMessage)] /\ toWindow' \in [Window -> Seq(WindowMessage)]
           /\ disk' \in [Key -> Values] /\ UNCHANGED disk
           /\ stamp' \in [Node -> Counts] /\ stored' \in [Node -> Counts]
           /\ owed' \in [Node -> Counts] /\ owedLater' \in [Node -> Counts] /\ promised' \in [Node -> Counts]
           /\ \A n \in N : /\ state'[n] = "none" /\ cache'[n] = Nothing /\ pending'[n] = NoRequest
                           /\ ~timer'[n] /\ active'[n] = NoRequest /\ ~queued'[n]
                           /\ stamp'[n] = Never /\ stored'[n] = Never /\ promised'[n] = Never
           /\ \A n \in Node \ N : UNCHANGED LocalOf(n)
           /\ \A w \in Window \cap N : toMain'[w] = <<>> /\ toWindow'[w] = <<>>
           /\ \A w \in Window \ N : UNCHANGED <<toMain[w], toWindow[w]>>
<1>1. Nothing \in [Key -> Values] /\ Never \in Counts /\ NoRequest \in Request
  BY NoChangeIs DEF Nothing, Never, Values, Counts
<1>2. /\ state' = [n \in Node |-> IF n \in N THEN "none" ELSE state[n]]
      /\ cache' = [n \in Node |-> IF n \in N THEN Nothing ELSE cache[n]]
      /\ pending' = [n \in Node |-> IF n \in N THEN NoRequest ELSE pending[n]]
      /\ timer' = [n \in Node |-> n \notin N /\ timer[n]]
      /\ active' = [n \in Node |-> IF n \in N THEN NoRequest ELSE active[n]]
      /\ queued' = [n \in Node |-> n \notin N /\ queued[n]]
      /\ toMain' = [w \in Window |-> IF w \in N THEN <<>> ELSE toMain[w]]
      /\ toWindow' = [w \in Window |-> IF w \in N THEN <<>> ELSE toWindow[w]]
      /\ stamp' = [n \in Node |-> IF n \in N THEN Never ELSE stamp[n]]
      /\ stored' = [n \in Node |-> IF n \in N THEN Never ELSE stored[n]]
      /\ owed' = [n \in Node |-> IF n \in N THEN Never ELSE owed[n]]
      /\ owedLater' = [n \in Node |-> IF n \in N THEN Never ELSE owedLater[n]]
      /\ promised' = [n \in Node |-> IF n \in N THEN Never ELSE promised[n]]
      /\ disk' = disk
  BY DEF Gone
<1>3. /\ state' \in [Node -> States] /\ cache' \in [Node -> [Key -> Values]]
      /\ pending' \in [Node -> Request] /\ active' \in [Node -> Request]
  BY <1>1, <1>2 DEF Types, States
<1>4. timer' \in [Node -> BOOLEAN] /\ queued' \in [Node -> BOOLEAN] /\ disk' \in [Key -> Values]
  BY <1>2 DEF Types
<1>5. /\ stamp' \in [Node -> Counts] /\ stored' \in [Node -> Counts]
      /\ owed' \in [Node -> Counts] /\ owedLater' \in [Node -> Counts] /\ promised' \in [Node -> Counts]
  BY <1>1, <1>2 DEF Types
<1>6. toMain' \in [Window -> Seq(MainMessage)] /\ toWindow' \in [Window -> Seq(WindowMessage)]
  <2>1. <<>> \in Seq(MainMessage) /\ <<>> \in Seq(WindowMessage)
    OBVIOUS
  <2>2. toMain \in [Window -> Seq(MainMessage)] /\ toWindow \in [Window -> Seq(WindowMessage)]
    BY DEF Types
  <2> QED
    BY <1>2, <2>1, <2>2
<1>7. \A n \in N : /\ state'[n] = "none" /\ cache'[n] = Nothing /\ pending'[n] = NoRequest
                   /\ ~timer'[n] /\ active'[n] = NoRequest /\ ~queued'[n]
                   /\ stamp'[n] = Never /\ stored'[n] = Never /\ promised'[n] = Never
  BY <1>2
<1>8. ASSUME NEW n \in Node \ N PROVE UNCHANGED LocalOf(n)
  <2>1. UNCHANGED <<state[n], cache[n], pending[n], active[n], stamp[n], stored[n], owed[n],
                    owedLater[n], promised[n]>>
    BY <1>2
  <2>2. UNCHANGED <<timer[n], queued[n]>>
    BY <1>2 DEF Types
  <2> QED
    BY <2>1, <2>2 DEF LocalOf
<1>9. /\ \A w \in Window \cap N : toMain'[w] = <<>> /\ toWindow'[w] = <<>>
      /\ \A w \in Window \ N : UNCHANGED <<toMain[w], toWindow[w]>>
  BY <1>2
<1> QED
  BY <1>2, <1>3, <1>4, <1>5, <1>6, <1>7, <1>8, <1>9

\* A storage that is not there yet has no changes.
LEMMA FreshNode ==
    ASSUME NEW n \in Node, state'[n] = "none", pending'[n] = NoRequest, ~timer'[n],
           active'[n] = NoRequest, ~queued'[n], stamp'[n] = Never, stored'[n] = Never,
           promised'[n] = Never
    PROVE  NodeInv(n)'
<1>1. Watched(n)' /\ Ended(n)' /\ QueuedBehind(n)'
  BY DEF Watched, Ended, QueuedBehind, HasPending
<1>2. Underway(n)' = NoRequest
  BY DEF Underway
<1>3. \A k \in Key : NoRequest[k] = NoChange /\ Never[k] = 0
  BY NoChangeIs DEF Never
<1>4. Handed(n)' /\ Owed(n)'
  BY <1>2, <1>3 DEF Handed, Owed
<1> QED
  BY <1>1, <1>4 DEF NodeInv

LEMMA FreshWindow ==
    ASSUME NEW w \in Window, state'[w] = "none", active'[w] = NoRequest,
           toMain'[w] = <<>>, toWindow'[w] = <<>>
    PROVE  WindowInv(w)'
<1>1. \A kind : ~HasKind(<<>>, kind) /\ One(<<>>, kind)
  BY KindEmpty
<1>2. Traffic(w)' /\ Loads(w)'
  BY <1>1 DEF Traffic, Loads
<1>3. Early(w)' /\ Late(w)' /\ Follows(w)'
  BY <1>1 DEF Early, Late, Follows, Listens
<1> QED
  BY <1>2, <1>3 DEF WindowInv

LEMMA WindowGoneStep ==
    ASSUME StorageInv, NEW w \in Window, WindowGone(w)
    PROVE  StorageInv'
<1>1. Types /\ w \in Node /\ {w} \in SUBSET Node
  BY DEF StorageInv, Node
<1>2. Gone({w}) /\ UNCHANGED <<changed, erroneous, recovery>>
  BY DEF WindowGone
<1> DEFINE N == {w}
<1>3. /\ N \in SUBSET Node /\ w \in N /\ w \in Window \cap N
      /\ \A n \in Node : n # w => n \in Node \ N
      /\ \A v \in Window : v # w => v \in Window \ N
  BY <1>1
<1> HIDE DEF N
<1>4. Gone(N)
  BY <1>2 DEF N
<1>5. /\ state' \in [Node -> States] /\ cache' \in [Node -> [Key -> Values]]
      /\ pending' \in [Node -> Request] /\ active' \in [Node -> Request]
      /\ timer' \in [Node -> BOOLEAN] /\ queued' \in [Node -> BOOLEAN]
      /\ toMain' \in [Window -> Seq(MainMessage)] /\ toWindow' \in [Window -> Seq(WindowMessage)]
      /\ disk' \in [Key -> Values] /\ UNCHANGED disk
      /\ stamp' \in [Node -> Counts] /\ stored' \in [Node -> Counts]
      /\ owed' \in [Node -> Counts] /\ owedLater' \in [Node -> Counts] /\ promised' \in [Node -> Counts]
      /\ \A n \in N : /\ state'[n] = "none" /\ cache'[n] = Nothing /\ pending'[n] = NoRequest
                      /\ ~timer'[n] /\ active'[n] = NoRequest /\ ~queued'[n]
                      /\ stamp'[n] = Never /\ stored'[n] = Never /\ promised'[n] = Never
      /\ \A n \in Node \ N : UNCHANGED LocalOf(n)
      /\ \A v \in Window \cap N : toMain'[v] = <<>> /\ toWindow'[v] = <<>>
      /\ \A v \in Window \ N : UNCHANGED <<toMain[v], toWindow[v]>>
  BY <1>1, <1>3, <1>4, GoneIs
<1>6. Types'
  BY <1>1, <1>2, <1>5 DEF Types
<1>7. NodeInv(w)' /\ WindowInv(w)'
  BY <1>1, <1>3, <1>5, FreshNode, FreshWindow
<1>8. \A n \in Node : n # w => UNCHANGED LocalOf(n)
  BY <1>3, <1>5
<1>9. \A v \in Window : v # w => UNCHANGED <<toMain[v], toWindow[v]>>
  BY <1>3, <1>5
<1> QED
  BY <1>2, <1>5, <1>6, <1>7, <1>8, <1>9, WindowStep

LEMMA ApplicationGoneStep ==
    ASSUME StorageInv, ApplicationGone
    PROVE  StorageInv'
<1>1. Types /\ Node \in SUBSET Node /\ Main \in Node /\ \A w \in Window : w \in Node /\ w \in Window \cap Node
  BY DEF StorageInv, Node
<1>2. Gone(Node) /\ changed' = {} /\ erroneous' = FALSE /\ recovery' = "no"
  BY DEF ApplicationGone
<1>3. /\ state' \in [Node -> States] /\ cache' \in [Node -> [Key -> Values]]
      /\ pending' \in [Node -> Request] /\ active' \in [Node -> Request]
      /\ timer' \in [Node -> BOOLEAN] /\ queued' \in [Node -> BOOLEAN]
      /\ toMain' \in [Window -> Seq(MainMessage)] /\ toWindow' \in [Window -> Seq(WindowMessage)]
      /\ disk' \in [Key -> Values]
      /\ stamp' \in [Node -> Counts] /\ stored' \in [Node -> Counts]
      /\ owed' \in [Node -> Counts] /\ owedLater' \in [Node -> Counts] /\ promised' \in [Node -> Counts]
      /\ \A n \in Node : /\ state'[n] = "none" /\ cache'[n] = Nothing /\ pending'[n] = NoRequest
                         /\ ~timer'[n] /\ active'[n] = NoRequest /\ ~queued'[n]
                         /\ stamp'[n] = Never /\ stored'[n] = Never /\ promised'[n] = Never
      /\ \A w \in Window \cap Node : toMain'[w] = <<>> /\ toWindow'[w] = <<>>
  BY <1>1, <1>2, GoneIs
<1>4. Types'
  BY <1>2, <1>3 DEF Types
<1>5. \A n \in Node : NodeInv(n)'
  BY <1>3, FreshNode
<1>6. \A w \in Window : WindowInv(w)'
  BY <1>1, <1>3, FreshWindow
<1>7. MainInv'
  BY <1>1, <1>2, <1>3 DEF MainInv, DiskInv, RecoveryInv
<1> QED
  BY <1>4, <1>5, <1>6, <1>7 DEF StorageInv

-----------------------------------------------------------------------------
(* The main process *)

\* Its items are there before any window has asked for them.
LEMMA InitMainStep ==
    ASSUME StorageInv, InitMain
    PROVE  StorageInv'
<1>1. Types /\ MainInv /\ Main \in Node /\ NodeInv(Main) /\ \A w \in Window : w \in Node /\ w # Main
  BY MainAssumption DEF StorageInv, Node
<1>2. /\ state[Main] = "none" /\ state' = [state EXCEPT ![Main] = "open"]
      /\ cache' = [cache EXCEPT ![Main] = disk]
      /\ UNCHANGED <<pending, timer, active, queued, toMain, toWindow, changed, disk, erroneous, recovery,
                     stamp, stored, owed, owedLater, promised>>
  BY DEF InitMain, channelVars, diskVars, historyVars
<1>3. /\ state' \in [Node -> States] /\ state'[Main] = "open"
      /\ cache' \in [Node -> [Key -> Values]] /\ cache'[Main] = disk
      /\ \A w \in Window : UNCHANGED <<state[w], cache[w]>>
  BY <1>1, <1>2 DEF Types, States
<1>4. Types'
  BY <1>1, <1>2, <1>3 DEF Types
<1>5. \A w \in Window : UNCHANGED LocalOf(w)
  BY <1>2, <1>3 DEF LocalOf
<1>6. ASSUME NEW n \in Node PROVE NodeInv(n)'
  <2>1. Underway(n)' = Underway(n) /\ NodeInv(n) /\ (Sound(n)' => Sound(n))
    BY <1>2 DEF Underway, HasKind, StorageInv, Sound
  <2>2. CASE n = Main
    <3>1. Ended(n)'
      BY <1>3, <2>2 DEF Ended
    <3> QED
      BY <1>2, <2>1, <3>1, NodeGoesOn
  <2>3. CASE n # Main
    <3>1. UNCHANGED LocalOf(n)
      BY <1>5, <2>3 DEF Node
    <3> QED
      BY <2>1, <3>1, NodeKept
  <2> QED
    BY <2>2, <2>3
<1>7. ASSUME NEW w \in Window PROVE WindowInv(w)'
  <2>1. /\ Traffic(w) /\ Loads(w) /\ Early(w)
        /\ UNCHANGED <<state[w], toMain[w], toWindow[w], active[w]>>
    BY <1>2, <1>3 DEF StorageInv, WindowInv
  <2>2. Traffic(w)' /\ Loads(w)'
    BY <2>1 DEF Traffic, Loads, HasKind, One
  <2>3. Early(w)' /\ Late(w)'
    BY <1>3 DEF Early, Late
  <2>4. Listens(w) => HasKind(toMain[w], "get")
    BY <1>2, <2>1 DEF Early, Listens
  <2>5. Follows(w)'
    BY <2>1, <2>4 DEF Follows, Listens, HasKind
  <2> QED
    BY <2>2, <2>3, <2>5 DEF WindowInv
<1>8. MainInv'
  <2>1. active[Main] = NoRequest /\ pending[Main] = NoRequest /\ \A k \in Key : NoRequest[k] = NoChange
    BY <1>1, <1>2, NoChangeIs DEF NodeInv, Ended, HasPending
  <2>2. DiskInv'
    BY <1>2, <1>3, <2>1 DEF DiskInv, Current
  <2>3. RecoveryInv'
    BY <1>1, <1>2, <1>3 DEF MainInv, RecoveryInv, Flushed
  <2> QED
    BY <2>2, <2>3 DEF MainInv
<1> QED
  BY <1>4, <1>6, <1>7, <1>8 DEF StorageInv

\* Every window that listens is told of the changed keys.
LEMMA BroadcastStep ==
    ASSUME StorageInv, Broadcast
    PROVE  StorageInv'
<1> DEFINE m == Message("changed", [k \in changed |-> cache[Main][k]])
<1>1. Types /\ MainInv /\ Main \in Node /\ \A w \in Window : w \in Node /\ w # Main
  BY MainAssumption DEF StorageInv, Node
<1>2. /\ changed # {} /\ changed' = {}
      /\ toWindow' = [w \in Window |-> IF Listens(w) THEN Append(toWindow[w], m) ELSE toWindow[w]]
      /\ UNCHANGED <<state, cache, pending, timer, active, queued, toMain, disk, erroneous, recovery,
                     stamp, stored, owed, owedLater, promised>>
  BY DEF Broadcast, storageVars, diskVars, historyVars
<1>3. /\ m \in WindowMessage /\ m.kind = "changed"
      /\ \A k : Mentions(m, k) <=> k \in changed
      /\ \A k \in changed : m.items[k] = cache[Main][k]
  <2> DEFINE items == [k \in changed |-> cache[Main][k]]
  <2>1. changed \in SUBSET Key /\ cache[Main] \in [Key -> Value \cup {Absent}]
    BY <1>1 DEF Types, Values
  <2>2. items \in [changed -> Value \cup {Absent}] /\ DOMAIN items = changed
    BY <2>1
  <2>3. \A k \in changed : items[k] = cache[Main][k]
    OBVIOUS
  <2> HIDE DEF items
  <2>4. m = [kind |-> "changed", items |-> items]
    BY DEF Message, items
  <2>5. items \in UNION {[K -> Value \cup {Absent}] : K \in SUBSET Key}
    BY <2>1, <2>2
  <2> HIDE DEF m
  <2>6. m.kind = "changed" /\ m.items = items
    BY <2>4
  <2>7. m \in WindowMessage
    BY <2>4, <2>5 DEF WindowMessage
  <2> QED
    BY <2>2, <2>3, <2>6, <2>7 DEF Mentions
<1> HIDE DEF m
<1>4. ASSUME NEW w \in Window
      PROVE /\ Listens(w) => toWindow'[w] = Append(toWindow[w], m)
            /\ ~Listens(w) => toWindow'[w] = toWindow[w]
            /\ toWindow[w] \in Seq(WindowMessage) /\ toWindow'[w] \in Seq(WindowMessage)
  <2>1. toWindow[w] \in Seq(WindowMessage)
    BY <1>1 DEF Types
  <2>2. Append(toWindow[w], m) \in Seq(WindowMessage)
    BY <1>3, <2>1
  <2> QED
    BY <1>2, <2>1, <2>2
<1>5. toWindow' \in [Window -> Seq(WindowMessage)] /\ {} \in SUBSET Key
  BY <1>2, <1>4
<1>6. Types'
  BY <1>1, <1>2, <1>5 DEF Types
<1>7. \A n \in Node : UNCHANGED LocalOf(n)
  BY <1>2 DEF LocalOf
<1>8. ASSUME NEW n \in Node PROVE NodeInv(n)'
  <2>1. Underway(n)' = Underway(n) /\ NodeInv(n) /\ (Sound(n)' => Sound(n))
    BY <1>2 DEF Underway, HasKind, StorageInv, Sound
  <2> QED
    BY <1>7, <2>1, NodeKept
<1>9. MainInv'
  BY <1>1, <1>2, <1>7, MainKept
<1>10. state[Main] # "none"
  BY <1>1, <1>2 DEF MainInv, RecoveryInv
<1>11. ASSUME NEW w \in Window PROVE WindowInv(w)'
  <2>1. WindowInv(w)
    BY DEF StorageInv
  <2>2. /\ HasKind(toWindow'[w], "ack") <=> HasKind(toWindow[w], "ack")
        /\ HasKind(toWindow'[w], "items") <=> HasKind(toWindow[w], "items")
        /\ One(toWindow'[w], "ack") /\ One(toWindow'[w], "items")
    <3>1. One(toWindow[w], "ack") /\ One(toWindow[w], "items")
      BY <2>1 DEF WindowInv, Traffic, Loads
    <3>2. CASE Listens(w)
      <4>1. /\ \A kind : HasKind(Append(toWindow[w], m), kind) <=> HasKind(toWindow[w], kind) \/ m.kind = kind
            /\ \A kind : One(toWindow[w], kind) /\ (m.kind = kind => ~HasKind(toWindow[w], kind))
                  => One(Append(toWindow[w], m), kind)
        BY <1>3, <1>4, KindAppend
      <4> QED
        BY <1>3, <1>4, <3>1, <3>2, <4>1
    <3>3. CASE ~Listens(w)
      BY <1>4, <3>1, <3>3
    <3> QED
      BY <3>2, <3>3
  <2>3. Traffic(w)'
    BY <1>2, <2>1, <2>2 DEF WindowInv, Traffic, HasKind, One
  <2>4. Loads(w)'
    <3>1. /\ HasKind(toMain'[w], "get") <=> HasKind(toMain[w], "get")
          /\ One(toMain'[w], "get")
      BY <1>2, <2>1 DEF WindowInv, Loads, HasKind, One
    <3>2. state[w] = "none" => toWindow'[w] = <<>>
      BY <1>4, <2>1 DEF WindowInv, Loads, Listens
    <3> QED
      BY <1>2, <2>1, <2>2, <3>1, <3>2 DEF WindowInv, Loads
  <2>5. Early(w)' /\ Late(w)'
    BY <1>2, <1>10, <2>1 DEF WindowInv, Early, Late
  <2>6. Follows(w)'
    <3> SUFFICES ASSUME Listens(w), ~HasKind(toMain[w], "get"), NEW k \in Key PROVE Told(w, k)'
      BY <1>2 DEF Follows, Listens, HasKind
    <3>1. Told(w, k)
      BY <2>1 DEF WindowInv, Follows
    <3>2. /\ Mentions(m, k) => LastIs(toWindow'[w], k, m.items[k])
          /\ ~Mentions(m, k) =>
                /\ Silent(toWindow[w], k) => Silent(toWindow'[w], k)
                /\ \A v : LastIs(toWindow[w], k, v) => LastIs(toWindow'[w], k, v)
      BY <1>3, <1>4, NewsAppend
    <3>3. CASE k \in changed
      BY <1>2, <1>3, <3>2, <3>3 DEF Told
    <3>4. CASE k \notin changed
      <4>1. Own(w, k) => Own(w, k)'
        BY <1>2 DEF Own, Underway, HasKind
      <4> QED
        BY <1>2, <1>3, <3>1, <3>2, <3>4, <4>1 DEF Told
    <3> QED
      BY <3>3, <3>4
  <2> QED
    BY <2>3, <2>4, <2>5, <2>6 DEF WindowInv
<1> QED
  BY <1>6, <1>8, <1>9, <1>11 DEF StorageInv

\* An update of the database ends, well or not.
LEMMA DiskEnds ==
    ASSUME StorageInv, active[Main] # NoRequest, NEW ok \in BOOLEAN, UpdateEnds(Main, ok),
           UNCHANGED <<state, cache, timer, toWindow, changed, recovery, stamp, owedLater>>,
           disk' \in [Key -> Values], erroneous' \in BOOLEAN, stored' \in [Node -> Counts],
           \A w \in Window : UNCHANGED stored[w],
           ~erroneous' =>
              /\ ok /\ ~erroneous
              /\ disk' = Apply(disk, active[Main])
              /\ \A k \in Key : stored'[Main][k] =
                    IF active[Main][k] # NoChange THEN active[Main][k].stamp ELSE stored[Main][k]
    PROVE  StorageInv'
<1>1. Types /\ MainInv /\ Main \in Node /\ NodeInv(Main) /\ \A w \in Window : w \in Node /\ w # Main
  BY MainAssumption DEF StorageInv, Node
<1>2. /\ pending' \in [Node -> Request] /\ active' \in [Node -> Request]
      /\ queued' \in [Node -> BOOLEAN] /\ toMain' \in [Window -> Seq(MainMessage)]
      /\ owed' \in [Node -> Counts] /\ promised' \in [Node -> Counts]
      /\ \A d \in Node : d # Main => UNCHANGED <<pending[d], active[d], queued[d], owed[d], promised[d]>>
      /\ UNCHANGED toMain
      /\ \/ active'[Main] = pending[Main] /\ pending'[Main] = NoRequest
         \/ active'[Main] = NoRequest /\ UNCHANGED pending[Main]
  BY <1>1, UpdateEndsIs
<1>3. Types'
  BY <1>1, <1>2 DEF Types
<1>4. \A w \in Window : UNCHANGED LocalOf(w)
  BY <1>1, <1>2 DEF LocalOf
<1>5. Underway(Main) = active[Main] /\ Underway(Main)' = active'[Main]
  BY DEF Underway
<1>6. NodeInv(Main)'
  BY <1>1, <1>5, EndsKeeps DEF Sound
<1>7. state[Main] \notin {"none", "closed"}
  BY <1>1 DEF NodeInv, Ended
<1>8. DiskInv'
  <2> SUFFICES ASSUME ~erroneous', NEW k \in Key PROVE Current(k)'
    BY DEF DiskInv
  <2>1. Current(k) /\ NoRequest[k] = NoChange
    BY <1>1, <1>7, NoChangeIs DEF MainInv, DiskInv
  <2>2. disk'[k] = IF active[Main][k] = NoChange THEN disk[k] ELSE active[Main][k].value
    BY DEF Apply
  <2> QED
    BY <1>2, <2>1, <2>2 DEF Current
<1>9. RecoveryInv'
  BY <1>1, <1>7 DEF MainInv, RecoveryInv, Flushed
<1>10. \A w \in Window : Late(w)'
  BY DEF StorageInv, WindowInv, Late
<1> QED
  BY <1>3, <1>2, <1>4, <1>6, <1>7, <1>8, <1>9, <1>10, MainStep DEF MainInv

\* What a transaction changes.
LEMMA CommitIs ==
    ASSUME Types, NEW request \in Request, Commit(request)
    PROVE  /\ disk' \in [Key -> Values] /\ disk' = Apply(disk, request)
           /\ stored' \in [Node -> Counts] /\ \A w \in Window : UNCHANGED stored[w]
           /\ \A k \in Key : stored'[Main][k] =
                 IF request[k] # NoChange THEN request[k].stamp ELSE stored[Main][k]
<1> DEFINE s == [k \in Key |-> IF request[k] = NoChange THEN stored[Main][k] ELSE request[k].stamp]
<1>1. Main \in Node /\ \A w \in Window : w \in Node /\ w # Main
  BY MainAssumption DEF Node
<1>2. disk' = Apply(disk, request) /\ stored' = [stored EXCEPT ![Main] = s]
  BY DEF Commit
<1>3. \A k \in Key : request[k] # NoChange => request[k].value \in Values /\ request[k].stamp \in Nat
  <2>1. \A k \in Key : request[k] \in Change \cup {NoChange}
    BY DEF Request
  <2> QED
    BY <2>1, NoChangeIs
<1>4. disk' \in [Key -> Values]
  BY <1>2, <1>3 DEF Types, Apply
<1>5. s \in Counts
  BY <1>1, <1>3 DEF Types, Counts
<1>6. \A k \in Key : s[k] = IF request[k] # NoChange THEN request[k].stamp ELSE stored[Main][k]
  OBVIOUS
<1> HIDE DEF s
<1>7. stored' \in [Node -> Counts] /\ stored'[Main] = s /\ \A w \in Window : UNCHANGED stored[w]
  BY <1>1, <1>2, <1>5 DEF Types
<1> QED
  BY <1>2, <1>4, <1>6, <1>7

LEMMA UpdateDiskStep ==
    ASSUME StorageInv, UpdateDisk
    PROVE  StorageInv'
<1>1. Types /\ Main \in Node
  BY DEF StorageInv, Node
<1>2. /\ active[Main] # NoRequest /\ Commit(active[Main]) /\ UpdateEnds(Main, TRUE)
      /\ UNCHANGED <<state, cache, timer, toWindow, changed, erroneous, recovery, stamp, owedLater>>
  BY DEF UpdateDisk
<1>3. active[Main] \in Request /\ erroneous' \in BOOLEAN
  BY <1>1, <1>2 DEF Types
<1>4. /\ disk' \in [Key -> Values] /\ disk' = Apply(disk, active[Main])
      /\ stored' \in [Node -> Counts] /\ \A w \in Window : UNCHANGED stored[w]
      /\ \A k \in Key : stored'[Main][k] =
            IF active[Main][k] # NoChange THEN active[Main][k].stamp ELSE stored[Main][k]
  BY <1>1, <1>2, <1>3, CommitIs
<1> QED
  BY <1>2, <1>3, <1>4, DiskEnds

LEMMA UpdatePartlyStep ==
    ASSUME StorageInv, UpdatePartly
    PROVE  StorageInv'
<1>1. Types /\ Main \in Node
  BY DEF StorageInv, Node
<1>2. PICK K \in SUBSET Key : Commit([k \in Key |-> IF k \in K THEN active[Main][k] ELSE NoChange])
  BY DEF UpdatePartly
<1> DEFINE part == [k \in Key |-> IF k \in K THEN active[Main][k] ELSE NoChange]
<1>3. /\ active[Main] # NoRequest /\ erroneous' = TRUE /\ UpdateEnds(Main, TRUE)
      /\ UNCHANGED <<state, cache, timer, toWindow, changed, recovery, stamp, owedLater>>
  BY DEF UpdatePartly
<1>4. active[Main] \in Request
  BY <1>1 DEF Types
<1>5. part \in Request
  BY <1>4 DEF Request
<1>6. Commit(part)
  BY <1>2
<1> HIDE DEF part
<1>7. disk' \in [Key -> Values] /\ stored' \in [Node -> Counts] /\ \A w \in Window : UNCHANGED stored[w]
  BY <1>1, <1>5, <1>6, CommitIs
<1> QED
  BY <1>3, <1>7, DiskEnds

LEMMA UpdateFailsStep ==
    ASSUME StorageInv, UpdateFails
    PROVE  StorageInv'
<1>1. Types /\ Main \in Node /\ \A w \in Window : w \in Node
  BY DEF StorageInv, Node
<1>2. /\ active[Main] # NoRequest /\ erroneous' = TRUE /\ UpdateEnds(Main, FALSE)
      /\ UNCHANGED <<state, cache, timer, toWindow, changed, disk, recovery, stamp, stored, owedLater>>
  BY DEF UpdateFails
<1>3. disk' \in [Key -> Values] /\ stored' \in [Node -> Counts] /\ erroneous' \in BOOLEAN
  BY <1>1, <1>2 DEF Types
<1>4. FALSE \in BOOLEAN /\ \A w \in Window : UNCHANGED stored[w]
  BY <1>2
<1> QED
  BY <1>2, <1>3, <1>4, DiskEnds

LEMMA CloseMainStep ==
    ASSUME StorageInv, CloseMain
    PROVE  StorageInv'
<1>1. Types /\ MainInv /\ Main \in Node /\ NodeInv(Main) /\ \A w \in Window : w \in Node /\ w # Main
  BY MainAssumption DEF StorageInv, Node
<1>2. /\ state[Main] = "open" /\ \A w \in Window : state[w] \in {"none", "closed"}
      /\ state' = [state EXCEPT ![Main] = "closing"] /\ timer' = [timer EXCEPT ![Main] = TRUE]
      /\ UNCHANGED <<cache, pending, active, queued, toMain, toWindow, changed, disk, erroneous, recovery,
                     stamp, stored, owed, owedLater, promised>>
  BY DEF CloseMain, Close, channelVars, diskVars, historyVars
<1>3. /\ state' \in [Node -> States] /\ timer' \in [Node -> BOOLEAN]
      /\ state'[Main] = "closing" /\ timer'[Main]
      /\ \A w \in Window : UNCHANGED <<state[w], timer[w]>>
  BY <1>1, <1>2 DEF Types, States
<1>4. Types'
  BY <1>1, <1>2, <1>3 DEF Types
<1>5. \A w \in Window : UNCHANGED LocalOf(w)
  BY <1>2, <1>3 DEF LocalOf
<1>6. NodeInv(Main)'
  <2>1. Underway(Main)' = Underway(Main) /\ Ended(Main)'
    BY <1>2, <1>3 DEF Underway, Ended
  <2> QED
    BY <1>1, <1>2, <1>3, <2>1, NodeGoesOn DEF Sound
<1>7. DiskInv'
  BY <1>1, <1>2 DEF MainInv, DiskInv, Current
<1>8. RecoveryInv'
  BY <1>1, <1>2, <1>3 DEF MainInv, RecoveryInv, Flushed
<1>9. \A w \in Window : Late(w)'
  BY <1>2, <1>3 DEF Late
<1> QED
  BY <1>2, <1>3, <1>4, <1>5, <1>6, <1>7, <1>8, <1>9, MainStep DEF MainInv

\* What a storage has that has been flushed.
LEMMA FlushedIs ==
    ASSUME NEW n \in Node, NodeInv(n), Flushed(n)
    PROVE  ~timer[n] /\ ~HasPending(n) /\ active[n] = NoRequest
  BY DEF NodeInv, Watched, QueuedBehind, Flushed

\* It has closed; the recovery may have changed the database.
LEMMA MainCloses ==
    ASSUME StorageInv, Flushed(Main), state' = [state EXCEPT ![Main] = "closed"],
           UNCHANGED <<cache, pending, timer, active, queued, toMain, toWindow, changed, erroneous,
                       stamp, stored, owed, owedLater, promised>>,
           disk' \in [Key -> Values], recovery' \in {"no", "failed"},
           recovery' = "failed" \/ disk' = cache[Main], erroneous \/ UNCHANGED disk
    PROVE  StorageInv'
<1>1. Types /\ MainInv /\ Main \in Node /\ NodeInv(Main) /\ \A w \in Window : w \in Node /\ w # Main
  BY MainAssumption DEF StorageInv, Node
<1>2. /\ state' \in [Node -> States] /\ state'[Main] = "closed"
      /\ \A w \in Window : UNCHANGED state[w]
  BY <1>1 DEF Types, States
<1>3. Types'
  BY <1>1, <1>2 DEF Types
<1>4. \A w \in Window : UNCHANGED LocalOf(w)
  BY <1>2 DEF LocalOf
<1>5. NodeInv(Main)'
  <2>1. Underway(Main)' = Underway(Main)
    BY DEF Underway
  <2>2. Ended(Main)'
    BY <1>1, FlushedIs DEF Ended, HasPending
  <2> QED
    BY <1>1, <2>1, <2>2, NodeGoesOn DEF Sound
<1>6. state[Main] = "closing"
  BY DEF Flushed
<1>7. DiskInv'
  BY <1>1, <1>6 DEF MainInv, DiskInv, Current
<1>8. RecoveryInv'
  BY <1>2 DEF RecoveryInv
<1>9. \A w \in Window : Late(w)'
  BY <1>2, <1>6 DEF StorageInv, WindowInv, Late
<1> QED
  BY <1>2, <1>3, <1>4, <1>5, <1>7, <1>8, <1>9, MainStep DEF MainInv

LEMMA DatabaseClosesStep ==
    ASSUME StorageInv, DatabaseCloses
    PROVE  StorageInv'
<1>1. Types /\ MainInv /\ Main \in Node /\ NodeInv(Main)
  BY DEF StorageInv, Node
<1>2. /\ Flushed(Main) /\ ~erroneous /\ state' = [state EXCEPT ![Main] = "closed"]
      /\ UNCHANGED <<cache, pending, timer, active, queued, toMain, toWindow, changed, disk, erroneous,
                     recovery, stamp, stored, owed, owedLater, promised>>
  BY DEF DatabaseCloses, channelVars, diskVars, historyVars
<1>3. \A k \in Key : disk[k] = cache[Main][k]
  <2>1. active[Main] = NoRequest /\ pending[Main] = NoRequest /\ \A k \in Key : NoRequest[k] = NoChange
    BY <1>1, <1>2, FlushedIs, NoChangeIs DEF HasPending
  <2>2. \A k \in Key : Current(k)
    BY <1>1, <1>2 DEF MainInv, DiskInv, Flushed
  <2> QED
    BY <2>1, <2>2 DEF Current
<1>4. disk \in [Key -> Values] /\ cache[Main] \in [Key -> Values]
  BY <1>1 DEF Types
<1>5. disk = cache[Main]
  BY <1>3, <1>4
<1>6. recovery \in {"no", "failed"}
  BY <1>1, <1>2 DEF Types, MainInv, RecoveryInv
<1> QED
  BY <1>2, <1>4, <1>5, <1>6, MainCloses

LEMMA RecoverStep ==
    ASSUME StorageInv, Recover
    PROVE  StorageInv'
<1>1. Types /\ MainInv /\ Main \in Node
  BY DEF StorageInv, Node
<1>2. /\ recovery = "unlinked" /\ state' = [state EXCEPT ![Main] = "closed"]
      /\ \/ disk' = cache[Main] /\ recovery' = "no"
         \/ /\ recovery' = "failed"
            /\ \E K \in SUBSET Key : disk' = [k \in Key |-> IF k \in K THEN cache[Main][k] ELSE disk[k]]
      /\ UNCHANGED <<cache, pending, timer, active, queued, toMain, toWindow, changed, erroneous,
                     stamp, stored, owed, owedLater, promised>>
  BY DEF Recover, Recovered, channelVars, historyVars
<1>3. Flushed(Main) /\ erroneous
  BY <1>1, <1>2 DEF MainInv, RecoveryInv
<1>4. disk' \in [Key -> Values]
  <2>1. cache[Main] \in [Key -> Values] /\ disk \in [Key -> Values]
    BY <1>1 DEF Types
  <2> QED
    BY <1>2, <2>1
<1> QED
  BY <1>2, <1>3, <1>4, MainCloses

LEMMA UnlinkFailsStep ==
    ASSUME StorageInv, UnlinkFails
    PROVE  StorageInv'
<1>1. /\ Flushed(Main) /\ erroneous /\ recovery' = "failed" /\ state' = [state EXCEPT ![Main] = "closed"]
      /\ UNCHANGED <<cache, pending, timer, active, queued, toMain, toWindow, changed, disk, erroneous,
                     stamp, stored, owed, owedLater, promised>>
  BY DEF UnlinkFails, channelVars, historyVars
<1>2. disk' \in [Key -> Values]
  BY <1>1 DEF StorageInv, Types
<1> QED
  BY <1>1, <1>2, MainCloses

\* A database that did not close or was deleted is one with errors.
LEMMA BrokenStep ==
    ASSUME StorageInv, CloseFails \/ Unlink
    PROVE  StorageInv'
<1>1. Types /\ MainInv /\ Main \in Node /\ NodeInv(Main) /\ \A w \in Window : w \in Node /\ w # Main
  BY MainAssumption DEF StorageInv, Node
<1>2. /\ Flushed(Main) /\ erroneous' = TRUE /\ disk' \in {disk, Nothing}
      /\ \/ recovery' = "unlinked"
         \/ recovery' = recovery /\ ~erroneous
      /\ UNCHANGED <<state, cache, pending, timer, active, queued, toMain, toWindow, changed,
                     stamp, stored, owed, owedLater, promised>>
  BY <1>1 DEF CloseFails, Unlink, storageVars, channelVars, historyVars, Types
<1>3. Nothing \in [Key -> Values]
  BY DEF Nothing, Values
<1>4. Types'
  BY <1>1, <1>2, <1>3 DEF Types
<1>5. \A n \in Node : UNCHANGED LocalOf(n)
  BY <1>2 DEF LocalOf
<1>6. NodeInv(Main)'
  <2>1. Underway(Main)' = Underway(Main)
    BY <1>2 DEF Underway
  <2> QED
    BY <1>1, <1>2, <1>5, <2>1, NodeKept DEF Sound
<1>7. MainInv'
  BY <1>1, <1>2 DEF MainInv, DiskInv, RecoveryInv, Flushed
<1>8. \A w \in Window : Late(w)'
  BY <1>2 DEF StorageInv, WindowInv, Late
<1> QED
  BY <1>1, <1>2, <1>4, <1>5, <1>6, <1>7, <1>8, MainStep

-----------------------------------------------------------------------------
(* The main process takes over the changes of a window *)

\* What an update of a window changes.
Touched(items) == {k \in Key : items[k] # NoChange}
ChangesOf(items) ==
    [k \in {j \in Touched(items) : items[j].value # cache[Main][j]} |-> items[k].value]

LEMMA UpdateItemsIs ==
    ASSUME StorageInv, NEW w \in Window, UpdateItems(w)
    PROVE  LET items == active[w]
           IN  /\ DOMAIN ChangesOf(items) \subseteq Touched(items)
               /\ \A k \in DOMAIN ChangesOf(items) : ChangesOf(items)[k] \in Values
               /\ Record(Main, ChangesOf(items)) /\ Emits(ChangesOf(items))
               /\ \A k \in Touched(items) : k \notin DOMAIN ChangesOf(items) => items[k].value = cache[Main][k]
               /\ \A k \in Touched(items) : items[k].stamp \in Nat
               /\ stored' = [stored EXCEPT ![w] = [k \in Key |->
                                IF k \in Touched(items) THEN items[k].stamp ELSE @[k]]]
<1> DEFINE items == active[w]
<1>1. Head(toMain[w]).items = items
  <2>1. Called(w, "update")
    BY DEF UpdateItems
  <2> QED
    BY <2>1, CalledIs
<1>2. \A k \in Touched(items) : items[k].value \in Values /\ items[k].stamp \in Nat
  <2>1. items \in Request
    BY DEF StorageInv, Types, Node
  <2>2. \A k \in Touched(items) : items[k] \in Change
    BY <2>1 DEF Touched, Request
  <2> QED
    BY <2>2, NoChangeIs
<1>3. /\ Record(Main, ChangesOf(items)) /\ Emits(ChangesOf(items))
      /\ stored' = [stored EXCEPT ![w] = [k \in Key |->
                       IF k \in Touched(items) THEN items[k].stamp ELSE @[k]]]
  BY <1>1 DEF UpdateItems, ChangesOf, Touched
<1>4. /\ DOMAIN ChangesOf(items) = {k \in Touched(items) : items[k].value # cache[Main][k]}
      /\ \A k \in DOMAIN ChangesOf(items) : ChangesOf(items)[k] = items[k].value
  BY DEF ChangesOf
<1> QED
  BY <1>2, <1>3, <1>4

LEMMA UpdateItemsStep ==
    ASSUME StorageInv, NEW w \in Window, UpdateItems(w)
    PROVE  StorageInv'
<1> DEFINE items == active[w]
           changes == ChangesOf(items)
           m == Message("ack", Nothing)
           s == [k \in Key |-> IF k \in Touched(items) THEN items[k].stamp ELSE stored[w][k]]
<1>1. /\ Types /\ MainInv /\ w \in Node /\ w # Main /\ Main \in Node /\ NodeInv(w) /\ WindowInv(w)
      /\ \A v \in Window : v \in Node /\ v # Main
  BY MainAssumption DEF StorageInv, Node
<1>2. /\ Called(w, "update") /\ toWindow' = [toWindow EXCEPT ![w] = Append(@, m)]
      /\ UNCHANGED <<state, active, queued, disk, erroneous, recovery, owed, owedLater, promised>>
  BY DEF UpdateItems, diskVars
<1>3. /\ DOMAIN changes \subseteq Touched(items) /\ Touched(items) \subseteq Key
      /\ \A k \in DOMAIN changes : changes[k] \in Values
      /\ Record(Main, changes) /\ Emits(changes)
      /\ \A k \in Touched(items) : k \notin DOMAIN changes => items[k].value = cache[Main][k]
      /\ \A k \in Touched(items) : items[k].stamp \in Nat
      /\ stored' = [stored EXCEPT ![w] = s]
  BY UpdateItemsIs DEF Touched
<1> HIDE DEF changes
<1>4. /\ state[Main] # "none" /\ HasKind(toMain[w], "update") /\ ~HasKind(toMain'[w], "update")
      /\ toMain' \in [Window -> Seq(MainMessage)]
      /\ \A v \in Window : v # w => toMain'[v] = toMain[v]
      /\ HasKind(toMain'[w], "get") <=> HasKind(toMain[w], "get")
      /\ One(toMain'[w], "get") /\ One(toMain'[w], "update")
  BY <1>2, CalledIs
<1>5. m \in WindowMessage /\ m.kind = "ack" /\ \A k : ~Mentions(m, k)
  <2>1. Nothing \in [Key -> Value \cup {Absent}] /\ Key \in SUBSET Key
    BY DEF Nothing
  <2>2. Nothing \in UNION {[K -> Value \cup {Absent}] : K \in SUBSET Key}
    BY <2>1
  <2> QED
    BY <2>2 DEF Message, WindowMessage, Mentions
<1> HIDE DEF m
<1>6. /\ toWindow' \in [Window -> Seq(WindowMessage)] /\ toWindow'[w] = Append(toWindow[w], m)
      /\ \A v \in Window : v # w => toWindow'[v] = toWindow[v]
      /\ \A kind : HasKind(toWindow'[w], kind) <=> HasKind(toWindow[w], kind) \/ m.kind = kind
      /\ \A kind : One(toWindow[w], kind) /\ (m.kind = kind => ~HasKind(toWindow[w], kind))
            => One(toWindow'[w], kind)
  BY <1>1, <1>2, <1>5, TellIs
<1>7. active[w] # NoRequest /\ state[Main] = "open" /\ ~HasKind(toWindow[w], "ack")
      /\ One(toWindow[w], "ack") /\ One(toWindow[w], "items")
  <2>1. active[w] # NoRequest /\ ~HasKind(toWindow[w], "ack") /\ One(toWindow[w], "ack") /\ One(toWindow[w], "items")
    BY <1>1, <1>4 DEF WindowInv, Traffic, Loads
  <2>2. state[w] \notin {"none", "closed"}
    BY <1>1, <2>1 DEF NodeInv, Ended
  <2>3. state[Main] \in States
    BY <1>1 DEF Types
  <2> QED
    BY <1>1, <1>4, <2>1, <2>2, <2>3 DEF WindowInv, Late, MainInv, RecoveryInv, States
<1>8. /\ cache' \in [Node -> [Key -> Values]] /\ pending' \in [Node -> Request]
      /\ timer' \in [Node -> BOOLEAN] /\ stamp' \in [Node -> Counts]
      /\ \A d \in Node : d # Main => UNCHANGED <<cache[d], pending[d], timer[d], stamp[d]>>
  BY <1>1, <1>3, RecordIs
<1>9. /\ MainInv' /\ changed' \in SUBSET Key /\ changed \subseteq changed'
      /\ \A k \in Key : cache'[Main][k] = cache[Main][k] \/ k \in changed'
  BY <1>2, <1>3, <1>7, RecordMain
<1>10. s \in Counts
  BY <1>1, <1>3 DEF Types, Counts
<1>11. \A k \in Key : s[k] = IF items[k] # NoChange THEN items[k].stamp ELSE stored[w][k]
  BY DEF Touched
<1> HIDE DEF s
<1>12. stored' \in [Node -> Counts] /\ stored'[w] = s /\ \A n \in Node : n # w => UNCHANGED stored[n]
  BY <1>1, <1>3, <1>10 DEF Types
<1>13. Types'
  BY <1>1, <1>2, <1>4, <1>6, <1>8, <1>9, <1>12 DEF Types
<1>14. ASSUME NEW v \in Window, v # w PROVE NodeInv(v)' /\ WindowInv(v)'
  <2>1. UNCHANGED LocalOf(v) /\ UNCHANGED toMain[v] /\ UNCHANGED toWindow[v] /\ UNCHANGED active[v]
    BY <1>1, <1>2, <1>4, <1>6, <1>8, <1>12, <1>14 DEF LocalOf
  <2>2. NodeInv(v) /\ WindowInv(v) /\ v # Main /\ v \in Node
    BY <1>1 DEF StorageInv
  <2>3. Underway(v)' = Underway(v)
    BY <2>1, <2>2 DEF Underway
  <2>4. NodeInv(v)'
    BY <2>1, <2>2, <2>3, NodeKept DEF Sound
  <2>5. Late(v)' /\ (state'[Main] = "none" => state[Main] = "none")
    BY <1>2, <2>2 DEF WindowInv, Late
  <2>6. WindowInv(v)'
    BY <1>9, <2>1, <2>2, <2>5, WindowKept
  <2> QED
    BY <2>4, <2>6
<1>15. NodeInv(Main)'
  <2>1. Underway(Main)' = Underway(Main)
    BY <1>2 DEF Underway
  <2>2. UNCHANGED <<state[Main], active[Main], queued[Main], stored[Main], owed[Main], owedLater[Main],
                    promised[Main], erroneous>>
    BY <1>1, <1>2, <1>12
  <2> QED
    BY <1>1, <1>3, <1>7, <2>1, <2>2, RecordKeeps
<1>16. /\ Underway(w) = items /\ Underway(w)' = NoRequest
       /\ UNCHANGED <<state[w], cache[w], pending[w], timer[w], active[w], queued[w], stamp[w],
                      owed[w], owedLater[w], promised[w]>>
       /\ \A k \in Key : NoRequest[k] = NoChange
  BY <1>1, <1>2, <1>4, <1>8, NoChangeIs DEF Underway
<1>17. NodeInv(w)'
  <2>1. Watched(w)' /\ Ended(w)' /\ QueuedBehind(w)'
    BY <1>1, <1>16 DEF NodeInv, Watched, Ended, QueuedBehind, HasPending
  <2>2. Handed(w) /\ Owed(w)
    BY <1>1 DEF NodeInv, Sound
  <2>3. \A k \in Key : /\ stamp[w][k] \in Nat /\ stored[w][k] \in Nat /\ promised[w][k] \in Nat
                       /\ items[k] # NoChange => items[k].stamp \in Nat
    BY <1>1, <1>3 DEF Types, Counts, Touched
  <2>4. Handed(w)'
    BY <1>11, <1>12, <1>16, <2>2, <2>3 DEF Handed
  <2>5. Owed(w)'
    <3>1. \A k \in Key : stored[w][k] <= s[k] /\ promised[w][k] <= s[k]
      BY <1>11, <1>16, <2>2, <2>3 DEF Handed, Owed
    <3>2. \A k \in Key : owed[w][k] <= s[k]
      BY <1>7, <1>11, <1>16, <2>2 DEF Owed
    <3> QED
      BY <1>12, <1>16, <2>2, <3>1, <3>2 DEF Owed
  <2> QED
    BY <2>1, <2>4, <2>5 DEF NodeInv
<1>18. Traffic(w)'
  <2>1. HasKind(toWindow'[w], "ack") /\ One(toWindow'[w], "ack")
    BY <1>5, <1>6, <1>7
  <2>2. \A i \in DOMAIN toMain'[w] : toMain'[w][i].kind # "update"
    BY <1>4 DEF HasKind
  <2> QED
    BY <1>4, <1>7, <1>16, <2>1, <2>2 DEF Traffic
<1>19. Loads(w)' /\ Early(w)' /\ Late(w)'
  <2>1. (HasKind(toWindow'[w], "items") <=> HasKind(toWindow[w], "items")) /\ One(toWindow'[w], "items")
    BY <1>5, <1>6, <1>7
  <2>2. state[w] # "none"
    BY <1>1, <1>7 DEF NodeInv, Ended
  <2> QED
    BY <1>1, <1>2, <1>4, <1>16, <2>1, <2>2 DEF WindowInv, Loads, Early, Late
<1>20. Follows(w)'
  <2> SUFFICES ASSUME Listens(w), ~HasKind(toMain[w], "get"), NEW k \in Key, k \notin changed' PROVE Told(w, k)'
    BY <1>4, <1>16 DEF Follows, Told, Listens
  <2>1. Told(w, k) /\ k \notin changed /\ cache'[Main][k] = cache[Main][k]
    BY <1>1, <1>9 DEF WindowInv, Follows
  <2>2. k \notin DOMAIN changes
    BY <1>3 DEF Emits
  <2>3. /\ Silent(toWindow[w], k) => Silent(toWindow'[w], k)
        /\ \A v : LastIs(toWindow[w], k, v) => LastIs(toWindow'[w], k, v)
    <3>1. toWindow[w] \in Seq(WindowMessage)
      BY <1>1 DEF Types
    <3> QED
      BY <1>5, <1>6, <3>1, NewsAppend
  <2>4. Own(w, k) => Own(w, k)'
    <3>1. items[k] # NoChange => items[k].value = cache[Main][k]
      BY <1>3, <2>2 DEF Touched
    <3> QED
      BY <1>16, <2>1, <3>1 DEF Own
  <2> QED
    BY <2>1, <2>3, <2>4 DEF Told
<1>21. \A n \in Node : NodeInv(n)'
  BY <1>14, <1>15, <1>17 DEF Node
<1>22. \A v \in Window : WindowInv(v)'
  BY <1>14, <1>18, <1>19, <1>20 DEF WindowInv
<1> QED
  BY <1>9, <1>13, <1>21, <1>22 DEF StorageInv

-----------------------------------------------------------------------------
(* The invariant, and what follows from it *)

LEMMA InitStorage == Init => StorageInv
<1> SUFFICES ASSUME Init PROVE StorageInv
  OBVIOUS
<1>1. Nothing \in [Key -> Values] /\ Never \in Counts /\ NoRequest \in Request
  BY NoChangeIs DEF Nothing, Never, Values, Counts
<1>2. Types
  <2>1. <<>> \in Seq(MainMessage) /\ <<>> \in Seq(WindowMessage) /\ {} \in SUBSET Key
    OBVIOUS
  <2> QED
    BY <1>1, <2>1 DEF Init, Types, States
<1>3. MainInv
  BY DEF Init, MainInv, DiskInv, RecoveryInv, Node
<1>4. ASSUME NEW n \in Node PROVE NodeInv(n)
  <2>1. Watched(n) /\ Ended(n) /\ QueuedBehind(n)
    BY DEF Init, Watched, Ended, QueuedBehind, HasPending
  <2>2. Underway(n) = NoRequest
    BY UnderwayIs DEF Init
  <2>3. \A k \in Key : NoRequest[k] = NoChange /\ Never[k] = 0
    BY NoChangeIs DEF Never
  <2>4. Handed(n) /\ Owed(n)
    BY <2>2, <2>3 DEF Init, Handed, Owed
  <2> QED
    BY <2>1, <2>4 DEF NodeInv
<1>5. ASSUME NEW w \in Window PROVE WindowInv(w)
  <2>1. /\ w \in Node /\ state[w] = "none" /\ active[w] = NoRequest
        /\ toMain[w] = <<>> /\ toWindow[w] = <<>>
    BY DEF Init, Node
  <2>2. Traffic(w) /\ Loads(w)
    BY <2>1, KindEmpty DEF Traffic, Loads
  <2>3. Early(w) /\ Late(w) /\ Follows(w)
    BY <2>1 DEF Early, Late, Follows, Listens
  <2> QED
    BY <2>2, <2>3 DEF WindowInv
<1> QED
  BY <1>2, <1>3, <1>4, <1>5 DEF StorageInv

LEMMA StutterStorage == StorageInv /\ UNCHANGED vars => StorageInv'
<1> SUFFICES ASSUME StorageInv, UNCHANGED vars PROVE StorageInv'
  OBVIOUS
<1>1. UNCHANGED <<state, cache, pending, timer, active, queued, toMain, toWindow, changed, disk, erroneous,
                  recovery, stamp, stored, owed, owedLater, promised>>
  BY DEF vars, storageVars, channelVars, diskVars, historyVars
<1>2. Types' /\ \A n \in Node : UNCHANGED LocalOf(n)
  BY <1>1 DEF StorageInv, Types, LocalOf
<1>3. MainInv'
  <2>1. UNCHANGED LocalOf(Main) /\ MainInv
    BY <1>2 DEF Node, StorageInv
  <2>2. state[Main] = "none" => changed' = {}
    BY <1>1, <2>1 DEF MainInv, RecoveryInv
  <2> QED
    BY <1>1, <2>1, <2>2, MainKept
<1>4. ASSUME NEW n \in Node PROVE NodeInv(n)'
  <2>1. Underway(n)' = Underway(n)
    BY <1>1 DEF Underway, HasKind
  <2> QED
    BY <1>1, <1>2, <2>1, NodeKept DEF StorageInv, Sound
<1>5. ASSUME NEW w \in Window PROVE WindowInv(w)'
  <2>1. WindowInv(w) /\ Late(w)'
    BY <1>1 DEF StorageInv, WindowInv, Late
  <2>2. UNCHANGED LocalOf(w)
    BY <1>2 DEF Node
  <2> QED
    BY <1>1, <2>1, <2>2, WindowKept
<1> QED
  BY <1>2, <1>3, <1>4, <1>5 DEF StorageInv

LEMMA NextStorage == StorageInv /\ [Next]_vars => StorageInv'
<1> SUFFICES ASSUME StorageInv, [Next]_vars PROVE StorageInv'
  OBVIOUS
<1>1. ASSUME NEW n \in Node, NEW k \in Key, NEW v \in Value \cup {Absent}, Set(n, k, v) PROVE StorageInv'
  BY <1>1, SetWindowStep, SetMainStep DEF Node, Values
<1>2. ASSUME NEW n \in Node, TimerFires(n) PROVE StorageInv'
  BY <1>2, TimerWindowStep, TimerMainStep DEF Node
<1>3. ASSUME NEW w \in Window, Deliver(w) PROVE StorageInv'
  BY <1>3, GetItemsStep, UpdateItemsStep, ReceiveItemsStep, ReceiveAckStep, ReceiveChangedStep DEF Deliver
<1>4. ASSUME NEW w \in Window, OpenWindow(w) \/ CloseWindow(w) \/ WindowClosed(w) \/ WindowGone(w)
      PROVE  StorageInv'
  BY <1>4, OpenWindowStep, CloseWindowStep, WindowClosedStep, WindowGoneStep
<1>5. ASSUME InitMain \/ Broadcast \/ ApplicationGone PROVE StorageInv'
  BY <1>5, InitMainStep, BroadcastStep, ApplicationGoneStep
<1>6. ASSUME UpdateDisk \/ UpdatePartly \/ UpdateFails PROVE StorageInv'
  BY <1>6, UpdateDiskStep, UpdatePartlyStep, UpdateFailsStep
<1>7. ASSUME CloseMain \/ DatabaseCloses \/ CloseFails \/ Unlink \/ UnlinkFails \/ Recover
      PROVE  StorageInv'
  BY <1>7, CloseMainStep, DatabaseClosesStep, BrokenStep, UnlinkFailsStep, RecoverStep
<1>8. ASSUME UNCHANGED vars PROVE StorageInv'
  BY <1>8, StutterStorage
<1> QED
  BY <1>1, <1>2, <1>3, <1>4, <1>5, <1>6, <1>7, <1>8 DEF Next

LEMMA StorageInvariant == Spec => []StorageInv
  BY InitStorage, NextStorage, PTL DEF Spec

\* Every variable of the storages, the channels and the database has its type in every
\* state; an update of a window is under way exactly until its answer is read
\* (ApplicationStorageDatabaseClient.updateItems awaits it), and the Throttler queues a
\* flush only behind another.
THEOREM StorageTypes == Spec => []TypeOK
<1>1. StorageInv => TypeOK
  <2> SUFFICES ASSUME StorageInv PROVE TypeOK
    OBVIOUS
  <2>1. Types
    BY DEF StorageInv
  <2>2. /\ state \in [Node -> {"none", "loading", "open", "closing", "closed"}]
        /\ cache \in [Node -> [Key -> Value \cup {Absent}]]
        /\ pending \in [Node -> Request] /\ active \in [Node -> Request]
        /\ timer \in [Node -> BOOLEAN] /\ queued \in [Node -> BOOLEAN]
        /\ changed \subseteq Key /\ disk \in [Key -> Value \cup {Absent}] /\ erroneous \in BOOLEAN
        /\ recovery \in {"no", "unlinked", "failed"}
    BY <2>1 DEF Types, States, Values
  <2>3. toMain \in [Window -> Seq(MainMessage)] /\ toWindow \in [Window -> Seq(WindowMessage)]
    BY <2>1 DEF Types
  <2>4. {stamp, stored, owed, owedLater, promised} \subseteq [Node -> [Key -> Nat]]
    BY <2>1 DEF Types, Counts
  <2>5. \A w \in Window :
          active[w] # NoRequest <=>
                (\E i \in DOMAIN toMain[w] : toMain[w][i].kind = "update")
                    \/ (\E i \in DOMAIN toWindow[w] : toWindow[w][i].kind = "ack")
    BY DEF StorageInv, WindowInv, Traffic, HasKind
  <2>6. \A n \in Node : queued[n] => active[n] # NoRequest
    BY DEF StorageInv, NodeInv, QueuedBehind
  <2> QED
    BY <2>2, <2>3, <2>4, <2>5, <2>6 DEF TypeOK
<1> QED
  BY <1>1, StorageInvariant, PTL

\* The promise of a set or delete is fulfilled only when its database has the change or
\* a later one: the Throttler neither lets flushes overtake each other nor drops what
\* was changed while one ran (Storage.flushPending).
THEOREM PromisesKept == Spec => []SetIsWritten
<1>1. StorageInv => SetIsWritten
  BY DEF StorageInv, NodeInv, Sound, Owed, SetIsWritten
<1> QED
  BY <1>1, StorageInvariant, PTL

\* A window's storage that has closed has handed over every change it made, and the
\* main process's has them on disk, unless the recovery of a broken database failed too
\* (Storage.doClose, SQLiteStorageDatabase.doClose).
THEOREM ClosePersists == Spec => []CloseKeeps
<1>1. ASSUME StorageInv, NEW w \in Window, state[w] = "closed" PROVE stored[w] = stamp[w]
  <2>1. /\ w \in Node /\ w # Main /\ NodeInv(w) /\ stored[w] \in Counts /\ stamp[w] \in Counts
    BY <1>1, MainAssumption DEF StorageInv, Types, Node
  <2>2. active[w] = NoRequest /\ pending[w] = NoRequest /\ Handed(w)
    BY <1>1, <2>1 DEF NodeInv, Ended, HasPending, Sound
  <2>3. Underway(w) = NoRequest /\ \A k \in Key : NoRequest[k] = NoChange
    BY <2>1, <2>2, UnderwayIs, NoChangeIs
  <2>4. \A k \in Key : stored[w][k] = stamp[w][k]
    BY <2>2, <2>3 DEF Handed
  <2> QED
    BY <2>1, <2>4 DEF Counts
<1>2. StorageInv => CloseKeeps
  BY <1>1 DEF StorageInv, MainInv, RecoveryInv, CloseKeeps
<1> QED
  BY <1>2, StorageInvariant, PTL

\* Once nothing is under way, every open window has the items of the main process, and
\* so has the database if it had no errors, however the echoes of changes
\* (onDidChangeStorage, acceptExternal) crossed newer ones.
THEOREM StoragesConverge == Spec => []Converges
<1>1. StorageInv => Converges
  <2> SUFFICES ASSUME StorageInv, Quiet PROVE
        /\ \A w \in Window : state[w] = "open" => cache[w] = cache[Main]
        /\ state[Main] = "open" /\ ~erroneous => disk = cache[Main]
    BY DEF Converges
  <2>1. /\ Types /\ Main \in Node /\ MainInv /\ \A k \in Key : NoRequest[k] = NoChange
        /\ \A n \in Node : pending[n] = NoRequest /\ active[n] = NoRequest
    BY NoChangeIs DEF StorageInv, Node, Quiet, HasPending
  <2>2. ASSUME NEW w \in Window, state[w] = "open" PROVE cache[w] = cache[Main]
    <3>1. w \in Node /\ Follows(w) /\ toMain[w] = <<>> /\ toWindow[w] = <<>> /\ changed = {}
      BY DEF StorageInv, WindowInv, Node, Quiet
    <3>2. Underway(w) = NoRequest
      BY <2>1, <3>1, UnderwayIs
    <3>3. ASSUME NEW k \in Key PROVE cache[w][k] = cache[Main][k]
      <4>1. Told(w, k)
        BY <2>2, <3>1, KindEmpty DEF Follows, Listens
      <4>2. ~LastIs(toWindow[w], k, cache[Main][k])
        BY <3>1 DEF LastIs
      <4> QED
        BY <2>1, <3>1, <3>2, <4>1, <4>2 DEF Told, Own
    <3>4. cache[w] \in [Key -> Values] /\ cache[Main] \in [Key -> Values]
      BY <2>1, <3>1 DEF Types
    <3> QED
      BY <3>3, <3>4
  <2>3. ASSUME state[Main] = "open", ~erroneous PROVE disk = cache[Main]
    <3>1. \A k \in Key : disk[k] = cache[Main][k]
      BY <2>1, <2>3 DEF MainInv, DiskInv, Current
    <3>2. disk \in [Key -> Values] /\ cache[Main] \in [Key -> Values]
      BY <2>1 DEF Types
    <3> QED
      BY <3>1, <3>2
  <2> QED
    BY <2>2, <2>3
<1> QED
  BY <1>1, StorageInvariant, PTL

-----------------------------------------------------------------------------
(* The database as durable items *)

MainOf == <<state[Main], cache[Main], disk, active[Main], erroneous>>

\* With what is pending, the database has the items of the main process: what was
\* changed while an update was under way is in the next one.
LEMMA PendingCompletes ==
    ASSUME StorageInv, state[Main] # "none", ~erroneous
    PROVE  /\ active[Main] = NoRequest => Apply(disk, pending[Main]) = cache[Main]
           /\ Apply(Apply(disk, active[Main]), pending[Main]) = cache[Main]
           /\ active[Main] = NoRequest /\ pending[Main] = NoRequest => disk = cache[Main]
<1>1. /\ Types /\ Main \in Node /\ \A k \in Key : Current(k) /\ NoRequest[k] = NoChange
      /\ cache[Main] \in [Key -> Values] /\ disk \in [Key -> Values]
  BY NoChangeIs DEF StorageInv, MainInv, DiskInv, Types, Node
<1>2. ASSUME active[Main] = NoRequest PROVE Apply(disk, pending[Main]) = cache[Main]
  <2>1. \A k \in Key : cache[Main][k] = IF pending[Main][k] = NoChange THEN disk[k] ELSE pending[Main][k].value
    BY <1>1, <1>2 DEF Current
  <2> QED
    BY <1>1, <2>1 DEF Apply
<1>3. Apply(Apply(disk, active[Main]), pending[Main]) = cache[Main]
  <2> DEFINE new == Apply(disk, active[Main])
  <2>1. \A k \in Key : new[k] = IF active[Main][k] = NoChange THEN disk[k] ELSE active[Main][k].value
    BY DEF Apply
  <2> HIDE DEF new
  <2>2. \A k \in Key : cache[Main][k] = IF pending[Main][k] = NoChange THEN new[k] ELSE pending[Main][k].value
    BY <1>1, <2>1 DEF Current
  <2> QED
    BY <1>1, <2>2 DEF Apply, new
<1>4. ASSUME active[Main] = NoRequest, pending[Main] = NoRequest PROVE disk = cache[Main]
  <2>1. \A k \in Key : disk[k] = cache[Main][k]
    BY <1>1, <1>4 DEF Current
  <2> QED
    BY <1>1, <2>1
<1> QED
  BY <1>2, <1>3, <1>4

\* What a step does not touch is the same for the durable items.
LEMMA ItemsStutter ==
    ASSUME UNCHANGED MainOf
    PROVE  UNCHANGED Items!vars
<1>1. UNCHANGED <<state[Main], cache[Main], disk, active[Main], erroneous>>
  BY DEF MainOf
<1>2. UNCHANGED Writing
  BY <1>1 DEF Writing
<1> QED
  BY <1>1, <1>2 DEF Items!vars

LEMMA SetItems ==
    ASSUME StorageInv, NEW n \in Node, NEW k \in Key, NEW v \in Values, Set(n, k, v)
    PROVE  [Items!Next]_(Items!vars)
<1>1. Types /\ Main \in Node
  BY DEF StorageInv, Node
<1>2. UNCHANGED <<state, active, disk, erroneous>>
  BY DEF Set, diskVars
<1>3. UNCHANGED Writing
  BY <1>2 DEF Writing
<1>4. CASE n = Main
  <2>1. state[Main] = "open"
    BY <1>4 DEF Set
  <2>2. Items!Change
    BY <1>2, <1>3, <2>1 DEF Items!Change
  <2> QED
    BY <2>2 DEF Items!Next
<1>5. CASE n # Main
  <2>1. cache'[Main] = cache[Main]
    BY <1>1, <1>5 DEF Set, Record, Types
  <2> QED
    BY <1>2, <2>1, ItemsStutter DEF MainOf
<1> QED
  BY <1>4, <1>5

\* The flush of the main process begins a write, unless one is under way.
LEMMA TimerItems ==
    ASSUME StorageInv, NEW n \in Node, TimerFires(n)
    PROVE  [Items!Next]_(Items!vars)
<1>1. Types /\ Main \in Node /\ NodeInv(Main) /\ RecoveryInv /\ state[Main] \in States
  BY DEF StorageInv, Types, Node, MainInv
<1>2. UNCHANGED <<state, cache, disk, erroneous>> /\ (n # Main => UNCHANGED active[Main])
  BY <1>1, TimerFiresIs DEF LocalOf
<1>3. CASE active'[Main] = active[Main] \/ erroneous
  <2>1. UNCHANGED Writing
    BY <1>2, <1>3 DEF Writing
  <2> QED
    BY <1>2, <2>1 DEF Items!vars
<1>4. CASE active'[Main] # active[Main] /\ ~erroneous
  <2>1. n = Main /\ active[Main] = NoRequest /\ active'[Main] = pending[Main] /\ timer[Main]
    BY <1>1, <1>2, <1>4, TimerFiresIs DEF TimerFires
  <2>2. state[Main] \in {"open", "closing"}
    BY <1>1, <2>1 DEF NodeInv, Ended, RecoveryInv, States
  <2>3. Apply(disk, pending[Main]) = cache[Main]
    BY <1>4, <2>1, <2>2, PendingCompletes
  <2>4. Writing = {} /\ Writing' = {cache[Main]}
    BY <1>2, <1>4, <2>1, <2>3 DEF Writing
  <2>5. Items!BeginWrite
    BY <1>2, <1>4, <2>2, <2>4 DEF Items!BeginWrite, Items!Runs
  <2> QED
    BY <2>5 DEF Items!Next
<1> QED
  BY <1>3, <1>4

\* The update under way has ended; when another one follows it, that writes all items.
LEMMA UpdateEndsItems ==
    ASSUME StorageInv, UpdateDisk \/ UpdatePartly \/ UpdateFails
    PROVE  [Items!Next]_(Items!vars)
<1>1. /\ Types /\ Main \in Node /\ NodeInv(Main) /\ RecoveryInv /\ state[Main] \in States
      /\ active[Main] # NoRequest /\ UNCHANGED <<state, cache>>
  BY DEF StorageInv, Types, Node, MainInv, UpdateDisk, UpdatePartly, UpdateFails
<1>2. state[Main] \in {"open", "closing"}
  BY <1>1 DEF NodeInv, Ended, RecoveryInv, States
<1>3. active'[Main] \in {pending[Main], NoRequest}
  <2>1. TRUE \in BOOLEAN /\ FALSE \in BOOLEAN /\ (UpdateEnds(Main, TRUE) \/ UpdateEnds(Main, FALSE))
    BY DEF UpdateDisk, UpdatePartly, UpdateFails
  <2> QED
    BY <1>1, <2>1, UpdateEndsIs
<1>4. CASE UpdateDisk /\ ~erroneous
  <2>1. disk' = Apply(disk, active[Main]) /\ UNCHANGED erroneous
    BY <1>4 DEF UpdateDisk, Commit
  <2>2. disk' \in Writing
    BY <1>1, <1>4, <2>1 DEF Writing
  <2>3. Apply(disk', pending[Main]) = cache[Main]
    BY <1>2, <1>4, <2>1, PendingCompletes
  <2>4. Writing' \in {{}, {cache[Main]}}
    BY <1>3, <1>4, <2>1, <2>3 DEF Writing
  <2>5. Items!EndWrite
    BY <1>1, <1>2, <1>4, <2>1, <2>2, <2>4 DEF Items!EndWrite, Items!Runs
  <2> QED
    BY <2>5 DEF Items!Next
<1>5. CASE UpdateDisk /\ erroneous
  <2>1. erroneous' = erroneous
    BY <1>5 DEF UpdateDisk
  <2>2. UNCHANGED Writing
    BY <1>5, <2>1 DEF Writing
  <2>3. Items!WriteDamaged
    BY <1>1, <1>2, <1>5, <2>1, <2>2 DEF Items!WriteDamaged, Items!Runs
  <2> QED
    BY <2>3 DEF Items!Next
<1>6. CASE UpdateFails
  <2>1. erroneous' = TRUE /\ UNCHANGED disk
    BY <1>6 DEF UpdateFails
  <2>2. Writing' = {}
    BY <2>1 DEF Writing
  <2>3. Items!Fail
    BY <1>1, <1>2, <2>1, <2>2 DEF Items!Fail, Items!Runs
  <2> QED
    BY <2>3 DEF Items!Next
<1>7. CASE UpdatePartly
  <2>1. erroneous' = TRUE /\ Writing' = {}
    BY <1>7 DEF UpdatePartly, Writing
  <2>2. CASE erroneous
    <3>1. UNCHANGED <<erroneous, Writing>>
      BY <1>1, <2>1, <2>2 DEF Types, Writing
    <3>2. Items!WriteDamaged
      BY <1>1, <1>2, <2>2, <3>1 DEF Items!WriteDamaged, Items!Runs
    <3> QED
      BY <3>2 DEF Items!Next
  <2>3. CASE ~erroneous
    <3>1. Writing # {}
      BY <1>1, <2>3 DEF Writing
    <3>2. Items!Fail
      BY <1>1, <1>2, <2>1, <3>1 DEF Items!Fail, Items!Runs
    <3> QED
      BY <3>2 DEF Items!Next
  <2> QED
    BY <2>2, <2>3
<1> QED
  BY <1>4, <1>5, <1>6, <1>7

\* The main process takes over the changes of a window before it closes.
LEMMA DeliverItems ==
    ASSUME StorageInv, NEW w \in Window, Deliver(w)
    PROVE  [Items!Next]_(Items!vars)
<1>1. Types /\ MainInv /\ Main \in Node /\ w \in Node /\ w # Main /\ NodeInv(w) /\ WindowInv(w)
      /\ state[Main] \in States
  BY MainAssumption DEF StorageInv, Types, Node
<1>2. CASE UpdateItems(w)
  <2>1. UNCHANGED <<state, active, disk, erroneous>> /\ Called(w, "update")
    BY <1>2 DEF UpdateItems, diskVars
  <2>2. state[Main] # "none" /\ HasKind(toMain[w], "update")
    BY <2>1, CalledIs
  <2>3. state[w] \notin {"none", "closed"}
    BY <1>1, <2>2 DEF WindowInv, Traffic, NodeInv, Ended
  <2>4. state[Main] = "open"
    BY <1>1, <2>2, <2>3 DEF WindowInv, Late, MainInv, RecoveryInv, States
  <2>5. UNCHANGED Writing
    BY <2>1 DEF Writing
  <2>6. Items!Change
    BY <2>1, <2>4, <2>5 DEF Items!Change
  <2> QED
    BY <2>6 DEF Items!Next
<1>3. CASE GetItems(w)
  BY <1>3, ItemsStutter DEF GetItems, storageVars, diskVars, MainOf
<1>4. CASE ReceiveItems(w)
  <2>1. UNCHANGED <<active, disk, erroneous>> /\ UNCHANGED <<state[Main], cache[Main]>>
    BY <1>1, <1>4 DEF ReceiveItems, diskVars, Types
  <2> QED
    BY <2>1, ItemsStutter DEF MainOf
<1>5. CASE ReceiveAck(w)
  <2>1. UNCHANGED <<state, cache, disk, erroneous>> /\ UpdateEnds(w, TRUE)
    BY <1>5 DEF ReceiveAck, diskVars
  <2>2. UNCHANGED active[Main]
    BY <1>1, <2>1, UpdateEndsIs
  <2> QED
    BY <2>1, <2>2, ItemsStutter DEF MainOf
<1>6. CASE ReceiveChanged(w)
  <2>1. UNCHANGED <<state, active, disk, erroneous>> /\ UNCHANGED cache[Main]
    BY <1>1, <1>6 DEF ReceiveChanged, diskVars, Types
  <2> QED
    BY <2>1, ItemsStutter DEF MainOf
<1> QED
  BY <1>2, <1>3, <1>4, <1>5, <1>6 DEF Deliver

\* What a window does alone is not seen.
LEMMA WindowItems ==
    ASSUME StorageInv, NEW w \in Window,
           OpenWindow(w) \/ CloseWindow(w) \/ WindowClosed(w) \/ WindowGone(w)
    PROVE  [Items!Next]_(Items!vars)
<1>1. Types /\ Main \in Node /\ w \in Node /\ w # Main
  BY MainAssumption DEF StorageInv, Node
<1>2. CASE OpenWindow(w) \/ CloseWindow(w) \/ WindowClosed(w)
  <2>1. UNCHANGED <<cache, active, disk, erroneous>> /\ UNCHANGED state[Main]
    BY <1>1, <1>2 DEF OpenWindow, CloseWindow, Close, WindowClosed, diskVars, Types
  <2> QED
    BY <2>1, ItemsStutter DEF MainOf
<1>3. CASE WindowGone(w)
  <2>1. Gone({w}) /\ {w} \in SUBSET Node /\ UNCHANGED erroneous /\ Main \in Node \ {w}
    BY <1>1, <1>3 DEF WindowGone
  <2>2. UNCHANGED disk /\ UNCHANGED LocalOf(Main)
    BY <1>1, <2>1, GoneIs
  <2> QED
    BY <2>1, <2>2, ItemsStutter DEF MainOf, LocalOf
<1> QED
  BY <1>2, <1>3

\* The main process starts with what the database has, and loses the rest when it ends.
LEMMA LifeItems ==
    ASSUME StorageInv, InitMain \/ Broadcast \/ ApplicationGone
    PROVE  [Items!Next]_(Items!vars)
<1>1. Types /\ MainInv /\ Main \in Node /\ NodeInv(Main)
  BY DEF StorageInv, Node
<1>2. CASE InitMain
  <2>1. /\ state[Main] = "none" /\ state'[Main] = "open" /\ cache'[Main] = disk
        /\ UNCHANGED <<active, disk, erroneous>>
    BY <1>1, <1>2 DEF InitMain, diskVars, Types
  <2>2. UNCHANGED Writing
    BY <2>1 DEF Writing
  <2>3. Items!Start
    BY <2>1, <2>2 DEF Items!Start
  <2> QED
    BY <2>3 DEF Items!Next
<1>3. CASE Broadcast
  BY <1>3, ItemsStutter DEF Broadcast, storageVars, diskVars, MainOf
<1>4. CASE ApplicationGone
  <2>1. state[Main] # "none" /\ Gone(Node) /\ Node \in SUBSET Node /\ erroneous' = FALSE
    BY <1>4 DEF ApplicationGone
  <2>2. /\ state'[Main] = "none" /\ cache'[Main] = Nothing /\ active'[Main] = NoRequest
        /\ UNCHANGED disk
    BY <1>1, <2>1, GoneIs
  <2>3. Writing' = {}
    BY <2>2 DEF Writing
  <2>4. Items!End
    BY <2>1, <2>2, <2>3 DEF Items!End
  <2> QED
    BY <2>4 DEF Items!Next
<1> QED
  BY <1>2, <1>3, <1>4

\* A database without errors has all items when the main process has flushed.
LEMMA CloseItems ==
    ASSUME StorageInv,
           CloseMain \/ DatabaseCloses \/ CloseFails \/ Unlink \/ UnlinkFails \/ Recover
    PROVE  [Items!Next]_(Items!vars)
<1>1. Types /\ MainInv /\ Main \in Node /\ NodeInv(Main)
  BY DEF StorageInv, Node
<1>2. CASE CloseMain
  <2>1. state[Main] = "open" /\ state'[Main] = "closing" /\ UNCHANGED <<cache, active, disk, erroneous>>
    BY <1>1, <1>2 DEF CloseMain, Close, diskVars, Types
  <2>2. UNCHANGED Writing
    BY <2>1 DEF Writing
  <2>3. Items!StopChanges
    BY <2>1, <2>2 DEF Items!StopChanges
  <2> QED
    BY <2>3 DEF Items!Next
<1>3. CASE DatabaseCloses
  <2>1. /\ Flushed(Main) /\ ~erroneous /\ state'[Main] = "closed"
        /\ UNCHANGED <<cache, pending, active, queued, timer, disk, erroneous>>
    BY <1>1, <1>3 DEF DatabaseCloses, diskVars, Types
  <2>2. state[Main] = "closing" /\ active[Main] = NoRequest /\ pending[Main] = NoRequest
    BY <1>1, <2>1 DEF Flushed, NodeInv, Watched, QueuedBehind, HasPending
  <2>3. disk = cache[Main]
    BY <2>1, <2>2, PendingCompletes
  <2>4. Writing = {} /\ UNCHANGED Writing
    BY <2>1, <2>2 DEF Writing
  <2>5. Items!Close
    BY <2>1, <2>2, <2>3, <2>4 DEF Items!Close
  <2> QED
    BY <2>5 DEF Items!Next
<1>4. CASE CloseFails
  <2>1. Flushed(Main) /\ erroneous' = TRUE /\ UNCHANGED <<state, cache, disk>>
    BY <1>4 DEF CloseFails, storageVars
  <2>2. state[Main] = "closing" /\ Writing' = {}
    BY <2>1 DEF Flushed, Writing
  <2>3. Items!Fail
    BY <2>1, <2>2 DEF Items!Fail, Items!Runs
  <2> QED
    BY <2>3 DEF Items!Next
<1>5. CASE Unlink
  <2>1. Flushed(Main) /\ erroneous /\ UNCHANGED <<state, cache, erroneous>>
    BY <1>5 DEF Unlink, storageVars
  <2>2. state[Main] = "closing" /\ UNCHANGED Writing
    BY <2>1 DEF Flushed, Writing
  <2>3. Items!WriteDamaged
    BY <2>1, <2>2 DEF Items!WriteDamaged, Items!Runs
  <2> QED
    BY <2>3 DEF Items!Next
<1>6. CASE Recover
  <2>1. recovery = "unlinked" /\ state'[Main] = "closed" /\ UNCHANGED <<cache, erroneous>>
    BY <1>1, <1>6 DEF Recover, Types
  <2>2. erroneous /\ state[Main] = "closing" /\ Writing = {} /\ Writing' = {}
    BY <1>1, <2>1 DEF MainInv, RecoveryInv, Flushed, Writing
  <2>3. Items!Close
    BY <2>1, <2>2 DEF Items!Close
  <2> QED
    BY <2>3 DEF Items!Next
<1>7. CASE UnlinkFails
  <2>1. /\ Flushed(Main) /\ erroneous /\ state'[Main] = "closed"
        /\ UNCHANGED <<cache, disk, erroneous>>
    BY <1>1, <1>7 DEF UnlinkFails, Types
  <2>2. state[Main] = "closing" /\ Writing = {} /\ Writing' = {}
    BY <2>1 DEF Flushed, Writing
  <2>3. Items!Close
    BY <2>1, <2>2 DEF Items!Close
  <2> QED
    BY <2>3 DEF Items!Next
<1> QED
  BY <1>2, <1>3, <1>4, <1>5, <1>6, <1>7

\* The main process and its database implement the durable items: whatever happens
\* between flushPending, the transaction of doUpdateItems and close, the database has
\* the items of one instant, unless a write fails, a restart finds the last it was given,
\* and a clean close leaves all of them there, also those whose write had failed.
THEOREM StorageIsDurable == Spec => ImplementsDurableItems
<1>1. Init => Items!Init
  <2> SUFFICES ASSUME Init PROVE Items!Init
    OBVIOUS
  <2>1. /\ Main \in Node /\ state[Main] = "none" /\ cache[Main] = Nothing /\ active[Main] = NoRequest
        /\ disk = Nothing /\ erroneous = FALSE
    BY DEF Init, Node
  <2>2. Writing = {}
    BY <2>1 DEF Writing
  <2> QED
    BY <2>1, <2>2 DEF Items!Init
<1>2. StorageInv /\ [Next]_vars => [Items!Next]_(Items!vars)
  <2> SUFFICES ASSUME StorageInv, [Next]_vars PROVE [Items!Next]_(Items!vars)
    OBVIOUS
  <2>1. ASSUME NEW n \in Node, NEW k \in Key, NEW v \in Value \cup {Absent}, Set(n, k, v)
        PROVE  [Items!Next]_(Items!vars)
    BY <2>1, SetItems DEF Values
  <2>2. ASSUME NEW n \in Node, TimerFires(n) PROVE [Items!Next]_(Items!vars)
    BY <2>2, TimerItems
  <2>3. ASSUME NEW w \in Window, Deliver(w) PROVE [Items!Next]_(Items!vars)
    BY <2>3, DeliverItems
  <2>4. ASSUME NEW w \in Window, OpenWindow(w) \/ CloseWindow(w) \/ WindowClosed(w) \/ WindowGone(w)
        PROVE  [Items!Next]_(Items!vars)
    BY <2>4, WindowItems
  <2>5. CASE InitMain \/ Broadcast \/ ApplicationGone
    BY <2>5, LifeItems
  <2>6. CASE UpdateDisk \/ UpdatePartly \/ UpdateFails
    BY <2>6, UpdateEndsItems
  <2>7. CASE CloseMain \/ DatabaseCloses \/ CloseFails \/ Unlink \/ UnlinkFails \/ Recover
    BY <2>7, CloseItems
  <2>8. CASE UNCHANGED vars
    BY <2>8, ItemsStutter DEF vars, storageVars, diskVars, MainOf
  <2> QED
    BY <2>1, <2>2, <2>3, <2>4, <2>5, <2>6, <2>7, <2>8 DEF Next
<1> QED
  BY <1>1, <1>2, StorageInvariant, PTL DEF Spec, ImplementsDurableItems, Items!Spec
================================================================================
