------------------------------- MODULE Storage -------------------------------
(***************************************************************************)
(* The application storage: a Storage (base/parts/storage/common/storage.ts*)
(* with its ThrottledDelayer) in every window, whose database is the main  *)
(* process (platform/storage/common/storageIpc.ts), the Storage of the     *)
(* main process, which tells the windows of changes (electron-main/        *)
(* storageIpc.ts), and its SQLite database (base/parts/storage/node).      *)
(*                                                                         *)
(* Time is abstracted: a delay may end at any moment, so that a flush      *)
(* without a delay is one with a delay that ends at once.  A channel       *)
(* delivers in order.  Every change carries a stamp, which only the        *)
(* properties read: the number of changes its storage has made.            *)
(***************************************************************************)
EXTENDS Integers, Sequences

CONSTANTS
    Window, Main,   \* the processes with a Storage
    Key, Value,
    Fallible,       \* what may fail on the disk: "update", "close", "recover"
    MaxSet,         \* bound: calls of set and delete
    MaxSession      \* bound: windows opened, times the application starts

ASSUME MainAssumption == Main \notin Window
ASSUME ValueAssumption == Value \subseteq Nat \ {0}
ASSUME FallibleAssumption == Fallible \subseteq {"update", "close", "recover"}
ASSUME BoundAssumption == MaxSet \in Nat /\ MaxSession \in Nat

VARIABLES
    \* each Storage
    state,          \* "none" (not there), "loading", "open", "closing", "closed"
    cache,
    pending,        \* pendingInserts and pendingDeletes
    timer,          \* the Delayer has a task
    active,         \* the update under way, or NoRequest
    queued,         \* the Throttler has a queued factory
    \* between the windows and the main process
    toMain, toWindow,
    changed,        \* keys in the debouncer of StorageDatabaseChannel
    \* the database
    disk, erroneous,
    recovery,       \* "no", "unlinked" (between unlink and the new database), "failed"
    \* history
    stamp,          \* changes made of a key
    stored,         \* the last one its database has
    owed,           \* by the promises of set: that end with the active update,
    owedLater,      \* ... with the queued one,
    promised,       \* ... and those that ended well
    sets, sessions

storageVars == <<state, cache, pending, timer, active, queued>>
channelVars == <<toMain, toWindow, changed>>
diskVars == <<disk, erroneous, recovery>>
historyVars == <<stamp, stored, owed, owedLater, promised>>
vars == <<storageVars, channelVars, diskVars, historyVars, sets, sessions>>

Node == Window \cup {Main}
Absent == 0
NoChange == [value |-> -1, stamp |-> 0]
Change == [value : Value \cup {Absent}, stamp : Nat \ {0}]
Request == [Key -> Change \cup {NoChange}]
NoRequest == [k \in Key |-> NoChange]      \* nothing is under way

Nothing == [k \in Key |-> Absent]
Never == [k \in Key |-> 0]

MainMessage == [kind : {"get", "update"}, items : Request]
WindowMessage ==
    [kind : {"items"}, items : [Key -> Value \cup {Absent}]]
        \cup [kind : {"ack", "changed"}, items : UNION {[K -> Value \cup {Absent}] : K \in SUBSET Key}]
Message(kind, items) == [kind |-> kind, items |-> items]
HasPending(n) == pending[n] # NoRequest
Listens(w) == state[w] \in {"loading", "open"}

Init ==
    /\ state = [n \in Node |-> "none"]
    /\ cache = [n \in Node |-> Nothing]
    /\ pending = [n \in Node |-> NoRequest]
    /\ timer = [n \in Node |-> FALSE]
    /\ active = [n \in Node |-> NoRequest] /\ queued = [n \in Node |-> FALSE]
    /\ toMain = [w \in Window |-> <<>>] /\ toWindow = [w \in Window |-> <<>>]
    /\ changed = {}
    /\ disk = Nothing /\ erroneous = FALSE /\ recovery = "no"
    /\ stamp = [n \in Node |-> Never] /\ stored = [n \in Node |-> Never]
    /\ owed = [n \in Node |-> Never] /\ owedLater = [n \in Node |-> Never]
    /\ promised = [n \in Node |-> Never]
    /\ sets = 0 /\ sessions = 0

-----------------------------------------------------------------------------
(* Storage.set and delete *)

Accepts(n) == state[n] \in {"loading", "open"}


Triggers(n) == TRUE     \* doFlush: always

\* Each of these changes (a value, or Absent) in the cache and in what is pending;
\* a flush is triggered.
Record(n, changes) ==
    /\ cache' = [cache EXCEPT ![n] = [k \in Key |-> IF k \in DOMAIN changes THEN changes[k] ELSE @[k]]]
    /\ stamp' = [stamp EXCEPT ![n] = [k \in Key |-> IF k \in DOMAIN changes THEN @[k] + 1 ELSE @[k]]]
    /\ pending' = [pending EXCEPT ![n] = [k \in Key |->
            IF k \in DOMAIN changes THEN [value |-> changes[k], stamp |-> stamp[n][k] + 1] ELSE @[k]]]
    /\ timer' = [timer EXCEPT ![n] = @ \/ (DOMAIN changes # {} /\ Triggers(n))]

\* Faulty variant of Emits: a deletion is not told.
EmitsValues(changes) == changed' = changed \cup {k \in DOMAIN changes : changes[k] # Absent}

\* onDidChangeStorage of the main process, collected by the debouncer.
Emits(changes) == changed' = changed \cup DOMAIN changes

\* A call that changes nothing returns early, and is left out.
Set(n, k, v) ==
    /\ Accepts(n) /\ sets < MaxSet
    /\ n = Main => state[Main] = "open"
    /\ v # cache[n][k]
    /\ sets' = sets + 1
    /\ LET change == [j \in {k} |-> v]
       IN  /\ Record(n, change)
           /\ IF n = Main THEN Emits(change) ELSE UNCHANGED changed
    /\ UNCHANGED <<state, active, queued, toMain, toWindow, diskVars, stored, owed, owedLater,
                   promised, sessions>>

-----------------------------------------------------------------------------
(* The ThrottledDelayer and flushPending *)

\* flushPending: what is pending is handed to the database, if there is anything;
\* the promises that wait for it are those of `covers`.
FlushPending(n, covers) ==
    /\ pending' = [pending EXCEPT ![n] = NoRequest]
    /\ active' = [active EXCEPT ![n] = pending[n]]
    /\ IF HasPending(n)
       THEN /\ owed' = [owed EXCEPT ![n] = covers]
            /\ toMain' = IF n = Main THEN toMain
                         ELSE [toMain EXCEPT ![n] = Append(@, Message("update", pending[n]))]
            /\ UNCHANGED promised
       ELSE /\ promised' = [promised EXCEPT ![n] = covers]
            /\ UNCHANGED <<toMain, owed>>

\* Faulty variant of TimerFires: the task runs beside the one under way.
TimerOverlaps(n) ==
    /\ timer[n]
    /\ timer' = [timer EXCEPT ![n] = FALSE]
    /\ FlushPending(n, stamp[n])
    /\ UNCHANGED <<state, cache, queued, toWindow, changed, diskVars, stamp, stored, owedLater,
                   sets, sessions>>

\* Faulty variant of TimerFires: the callers join the flush under way.
TimerJoins(n) ==
    /\ timer[n]
    /\ timer' = [timer EXCEPT ![n] = FALSE]
    /\ IF active[n] = NoRequest
       THEN FlushPending(n, stamp[n]) /\ UNCHANGED <<queued, owedLater>>
       ELSE /\ owed' = [owed EXCEPT ![n] = stamp[n]]
            /\ UNCHANGED <<pending, active, toMain, queued, owedLater, promised>>
    /\ UNCHANGED <<state, cache, toWindow, changed, diskVars, stamp, stored, sets, sessions>>

\* The delay is over: the task runs, or is queued behind the one under way.
TimerFires(n) ==
    /\ timer[n]
    /\ timer' = [timer EXCEPT ![n] = FALSE]
    /\ IF active[n] = NoRequest
       THEN FlushPending(n, stamp[n]) /\ UNCHANGED <<queued, owedLater>>
       ELSE /\ queued' = [queued EXCEPT ![n] = TRUE]
            /\ owedLater' = [owedLater EXCEPT ![n] = stamp[n]]
            /\ UNCHANGED <<pending, active, toMain, owed, promised>>
    /\ UNCHANGED <<state, cache, toWindow, changed, diskVars, stamp, stored, sets, sessions>>

\* The update under way has ended; a queued flush runs at once.
UpdateEnds(n, ok) ==
    LET kept == IF ok THEN owed[n] ELSE promised[n]
    IN  /\ queued' = [queued EXCEPT ![n] = FALSE]
        /\ IF queued[n]
           THEN /\ pending' = [pending EXCEPT ![n] = NoRequest]
                /\ active' = [active EXCEPT ![n] = pending[n]]
                /\ toMain' = IF n = Main \/ ~HasPending(n) THEN toMain
                             ELSE [toMain EXCEPT ![n] = Append(@, Message("update", pending[n]))]
                /\ owed' = [owed EXCEPT ![n] = owedLater[n]]
                /\ promised' = [promised EXCEPT ![n] = IF HasPending(n) THEN kept ELSE owedLater[n]]
           ELSE /\ active' = [active EXCEPT ![n] = NoRequest]
                /\ promised' = [promised EXCEPT ![n] = kept]
                /\ UNCHANGED <<pending, toMain, owed>>

-----------------------------------------------------------------------------
(* A window and the main process *)

\* The database client listens for changes, and init asks for the items.
OpenWindow(w) ==
    /\ state[w] = "none" /\ state[Main] \in {"none", "open"} /\ sessions < MaxSession
    /\ state' = [state EXCEPT ![w] = "loading"]
    /\ toMain' = [toMain EXCEPT ![w] = Append(@, Message("get", NoRequest))]
    /\ sessions' = sessions + 1
    /\ UNCHANGED <<cache, pending, timer, active, queued, toWindow, changed, diskVars, historyVars,
                   sets>>

\* init of the main process, which every call and every change of its own waits for:
\* nothing happens to the database between its query and the answer.
InitMain ==
    /\ state[Main] = "none" /\ \E w \in Window : toMain[w] # <<>>
    /\ state' = [state EXCEPT ![Main] = "open"]
    /\ cache' = [cache EXCEPT ![Main] = disk]
    /\ UNCHANGED <<pending, timer, active, queued, channelVars, diskVars, historyVars, sets, sessions>>

Called(w, kind) ==
    /\ toMain[w] # <<>> /\ Head(toMain[w]).kind = kind /\ state[Main] # "none"
    /\ toMain' = [toMain EXCEPT ![w] = Tail(@)]

GetItems(w) ==
    /\ Called(w, "get")
    /\ toWindow' = [toWindow EXCEPT ![w] = Append(@, Message("items", cache[Main]))]
    /\ UNCHANGED <<storageVars, changed, diskVars, historyVars, sets, sessions>>

\* updateItems: set and delete of the main process's storage, key by key.
UpdateItems(w) ==
    /\ Called(w, "update")
    /\ LET items == Head(toMain[w]).items
           touched == {k \in Key : items[k] # NoChange}
           changes == [k \in {j \in touched : items[j].value # cache[Main][j]} |-> items[k].value]
       IN  /\ Record(Main, changes)
           /\ Emits(changes)
           /\ stored' = [stored EXCEPT ![w] = [k \in Key |->
                            IF k \in touched THEN items[k].stamp ELSE @[k]]]
    /\ toWindow' = [toWindow EXCEPT ![w] = Append(@, Message("ack", Nothing))]
    /\ UNCHANGED <<state, active, queued, diskVars, owed, owedLater, promised, sets, sessions>>

\* The debouncer fires: the changed keys with the values they have now.
Broadcast ==
    /\ changed # {}
    /\ changed' = {}
    /\ toWindow' = [w \in Window |->
            IF Listens(w)
            THEN Append(toWindow[w], Message("changed", [k \in changed |-> cache[Main][k]]))
            ELSE toWindow[w]]
    /\ UNCHANGED <<storageVars, toMain, diskVars, historyVars, sets, sessions>>

Received(w, kind) ==
    /\ toWindow[w] # <<>> /\ Head(toWindow[w]).kind = kind
    /\ toWindow' = [toWindow EXCEPT ![w] = Tail(@)]

\* init goes on: the items replace the cache.
ReceiveItems(w) ==
    /\ Received(w, "items")
    /\ state' = [state EXCEPT ![w] = IF @ = "loading" THEN "open" ELSE @]
    /\ cache' = [cache EXCEPT ![w] = Head(toWindow[w]).items]
    /\ UNCHANGED <<pending, timer, active, queued, toMain, changed, diskVars, historyVars, sets,
                   sessions>>

ReceiveAck(w) ==
    /\ Received(w, "ack")
    /\ UpdateEnds(w, TRUE)
    /\ UNCHANGED <<state, cache, timer, changed, diskVars, stamp, stored, owedLater, sets, sessions>>

\* acceptExternal, also of the window's own changes.
ReceiveChanged(w) ==
    /\ Received(w, "changed")
    /\ LET items == Head(toWindow[w]).items
       IN  cache' = IF Accepts(w)
                    THEN [cache EXCEPT ![w] = [k \in Key |-> IF k \in DOMAIN items THEN items[k] ELSE @[k]]]
                    ELSE cache
    /\ UNCHANGED <<state, pending, timer, active, queued, toMain, changed, diskVars, historyVars,
                   sets, sessions>>

-----------------------------------------------------------------------------
(* The database *)

\* Faulty variant of Apply: what is deleted stays.
ApplyInserts(old, request) ==
    [k \in Key |-> IF request[k].value \in Value THEN request[k].value ELSE old[k]]

\* The deletes and the inserts of one transaction.
Apply(old, request) ==
    [k \in Key |-> IF request[k] = NoChange THEN old[k] ELSE request[k].value]

Commit(request) ==
    /\ disk' = Apply(disk, request)
    /\ stored' = [stored EXCEPT ![Main] = [k \in Key |->
                    IF request[k] = NoChange THEN @[k] ELSE request[k].stamp]]

UpdateDisk ==
    /\ active[Main] # NoRequest
    /\ Commit(active[Main])
    /\ UpdateEnds(Main, TRUE)
    /\ UNCHANGED <<state, cache, timer, toWindow, changed, erroneous, recovery, stamp, owedLater,
                   sets, sessions>>

\* A statement fails, which only marks the database: the transaction is committed
\* with the other statements, and the update ends well.
UpdatePartly ==
    /\ "update" \in Fallible
    /\ active[Main] # NoRequest
    /\ \E K \in SUBSET Key :
          Commit([k \in Key |-> IF k \in K THEN active[Main][k] ELSE NoChange])
    /\ erroneous' = TRUE
    /\ UpdateEnds(Main, TRUE)
    /\ UNCHANGED <<state, cache, timer, toWindow, changed, recovery, stamp, owedLater, sets,
                   sessions>>

\* The transaction is rolled back.
UpdateFails ==
    /\ "update" \in Fallible
    /\ active[Main] # NoRequest
    /\ erroneous' = TRUE
    /\ UpdateEnds(Main, FALSE)
    /\ UNCHANGED <<state, cache, timer, toWindow, changed, disk, recovery, stamp, stored, owedLater,
                   sets, sessions>>

-----------------------------------------------------------------------------
(* close *)

\* doClose: no more changes, and a flush without a delay.
Close(n) ==
    /\ state' = [state EXCEPT ![n] = "closing"]
    /\ timer' = [timer EXCEPT ![n] = TRUE]

CloseWindow(w) ==
    /\ state[w] = "open"
    /\ Close(w)
    /\ UNCHANGED <<cache, pending, active, queued, channelVars, diskVars, historyVars, sets, sessions>>

\* The application quits when the windows have gone.
CloseMain ==
    /\ state[Main] = "open" /\ \A w \in Window : state[w] \in {"none", "closed"}
    /\ Close(Main)
    /\ UNCHANGED <<cache, pending, active, queued, channelVars, diskVars, historyVars, sets, sessions>>

\* Faulty variant of Flushed: an update that is under way is not waited for.
FlushedEarly(n) == state[n] = "closing" /\ ~timer[n]

\* The flush has ended, well or not.
Flushed(n) == state[n] = "closing" /\ ~timer[n] /\ active[n] = NoRequest

\* The client of a window only stops listening.
WindowClosed(w) ==
    /\ Flushed(w)
    /\ state' = [state EXCEPT ![w] = "closed"]
    /\ toWindow' = [toWindow EXCEPT ![w] = <<>>]
    /\ UNCHANGED <<cache, pending, timer, active, queued, toMain, changed, diskVars, historyVars,
                   sets, sessions>>

DatabaseCloses ==
    /\ Flushed(Main) /\ ~erroneous
    /\ state' = [state EXCEPT ![Main] = "closed"]
    /\ UNCHANGED <<cache, pending, timer, active, queued, channelVars, diskVars, historyVars, sets,
                   sessions>>

CloseFails ==
    /\ "close" \in Fallible
    /\ Flushed(Main) /\ ~erroneous
    /\ erroneous' = TRUE
    /\ UNCHANGED <<storageVars, channelVars, disk, recovery, historyVars, sets, sessions>>

\* recovery(): all the main process knows.
Recovered == cache[Main]

\* Recovery of a database with errors: the file is deleted ...
Unlink ==
    /\ Flushed(Main) /\ erroneous /\ recovery = "no"
    /\ recovery' = "unlinked"
    /\ disk' = Nothing
    /\ UNCHANGED <<storageVars, channelVars, erroneous, historyVars, sets, sessions>>

\* ... which may fail ...
UnlinkFails ==
    /\ "recover" \in Fallible
    /\ Flushed(Main) /\ erroneous /\ recovery = "no"
    /\ recovery' = "failed"
    /\ state' = [state EXCEPT ![Main] = "closed"]
    /\ UNCHANGED <<cache, pending, timer, active, queued, channelVars, disk, erroneous, historyVars,
                   sets, sessions>>

\* ... and written anew from the cache; if that fails, some of it may be there.
Recover ==
    /\ recovery = "unlinked"
    /\ \/ disk' = Recovered /\ recovery' = "no"
       \/ /\ "recover" \in Fallible
          /\ \E K \in SUBSET Key : disk' = [k \in Key |-> IF k \in K THEN Recovered[k] ELSE disk[k]]
          /\ recovery' = "failed"
    /\ state' = [state EXCEPT ![Main] = "closed"]
    /\ UNCHANGED <<cache, pending, timer, active, queued, channelVars, erroneous, historyVars, sets,
                   sessions>>

-----------------------------------------------------------------------------
(* A window or the application is gone *)

Gone(N) ==
    /\ state' = [n \in Node |-> IF n \in N THEN "none" ELSE state[n]]
    /\ cache' = [n \in Node |-> IF n \in N THEN Nothing ELSE cache[n]]
    /\ pending' = [n \in Node |-> IF n \in N THEN NoRequest ELSE pending[n]]
    /\ timer' = [n \in Node |-> n \notin N /\ timer[n]]
    /\ active' = [n \in Node |-> IF n \in N THEN NoRequest ELSE active[n]]
    /\ queued' = [n \in Node |-> n \notin N /\ queued[n]]
    /\ toMain' = [w \in Window |-> IF w \in N THEN <<>> ELSE toMain[w]]
    /\ toWindow' = [w \in Window |-> IF w \in N THEN <<>> ELSE toWindow[w]]
    /\ stamp' = [n \in Node |-> IF n \in N THEN Never ELSE stamp[n]]
    /\ stored' = [n \in Node |-> IF n \in N THEN Never ELSE stored[n]]
    /\ owed' = [n \in Node |-> IF n \in N THEN Never ELSE owed[n]]
    /\ owedLater' = [n \in Node |-> IF n \in N THEN Never ELSE owedLater[n]]
    /\ promised' = [n \in Node |-> IF n \in N THEN Never ELSE promised[n]]
    /\ UNCHANGED <<disk, sets, sessions>>

\* A window crashes, or is reloaded after it was closed.
WindowGone(w) ==
    /\ state[w] # "none"
    /\ Gone({w})
    /\ UNCHANGED <<changed, erroneous, recovery>>

\* The application crashes, or ends.
ApplicationGone ==
    /\ state[Main] # "none"
    /\ Gone(Node)
    /\ changed' = {} /\ erroneous' = FALSE /\ recovery' = "no"

-----------------------------------------------------------------------------
Deliver(w) ==
    \/ GetItems(w)
    \/ UpdateItems(w)
    \/ ReceiveItems(w)
    \/ ReceiveAck(w)
    \/ ReceiveChanged(w)

Next ==
    \/ \E n \in Node, k \in Key, v \in Value \cup {Absent} : Set(n, k, v)
    \/ \E n \in Node : TimerFires(n)
    \/ \E w \in Window : Deliver(w)
    \/ \E w \in Window : OpenWindow(w) \/ CloseWindow(w) \/ WindowClosed(w) \/ WindowGone(w)
    \/ InitMain
    \/ Broadcast
    \/ UpdateDisk
    \/ UpdatePartly
    \/ UpdateFails
    \/ CloseMain
    \/ DatabaseCloses
    \/ CloseFails
    \/ Unlink
    \/ UnlinkFails
    \/ Recover
    \/ ApplicationGone

Spec == Init /\ [][Next]_vars

-----------------------------------------------------------------------------
(* Properties *)

Quiet ==
    /\ changed = {}
    /\ \A w \in Window : toMain[w] = <<>> /\ toWindow[w] = <<>>
    /\ \A n \in Node : ~timer[n] /\ ~HasPending(n) /\ active[n] = NoRequest

\* The type of every variable; a window's update is under way exactly until its
\* answer is read; and a flush is queued only behind another.
TypeOK ==
    /\ state \in [Node -> {"none", "loading", "open", "closing", "closed"}]
    /\ cache \in [Node -> [Key -> Value \cup {Absent}]]
    /\ pending \in [Node -> Request] /\ active \in [Node -> Request]
    /\ timer \in [Node -> BOOLEAN] /\ queued \in [Node -> BOOLEAN]
    /\ toMain \in [Window -> Seq(MainMessage)]
    /\ toWindow \in [Window -> Seq(WindowMessage)]
    /\ \A w \in Window :
          active[w] # NoRequest <=>
                (\E i \in DOMAIN toMain[w] : toMain[w][i].kind = "update")
                    \/ (\E i \in DOMAIN toWindow[w] : toWindow[w][i].kind = "ack")
    /\ \A n \in Node : queued[n] => active[n] # NoRequest
    /\ changed \subseteq Key /\ disk \in [Key -> Value \cup {Absent}] /\ erroneous \in BOOLEAN
    /\ recovery \in {"no", "unlinked", "failed"}
    /\ {stamp, stored, owed, owedLater, promised} \subseteq [Node -> [Key -> Nat]]

\* Whatever the windows and the main process set and delete at the same time, and
\* however the echoes of their changes cross newer ones: once nothing is under way,
\* all have the same items, and so has the database if it had no errors.
Converges ==
    Quiet =>
        /\ \A w \in Window : state[w] = "open" => cache[w] = cache[Main]
        /\ state[Main] = "open" /\ ~erroneous => disk = cache[Main]

\* When the promise of a set or delete is fulfilled, its database has the change, or a
\* later one of the same storage: flushes neither overtake each other nor lose a
\* change made while another was written.  An update that fails is reported to the
\* callers it had, one that is made in part to nobody; for those after it nothing is
\* promised until the close has recovered the database.
SetIsWritten ==
    \A n \in Node : ~(n = Main /\ erroneous) => \A k \in Key : promised[n][k] <= stored[n][k]

\* close: "ensure data is persisted" (doClose).  A storage that has closed has handed
\* over every change it made; for the main process they are on disk, whichever
\* updates failed before, unless the recovery failed, too.
CloseKeeps ==
    /\ \A w \in Window : state[w] = "closed" => stored[w] = stamp[w]
    /\ state[Main] = "closed" /\ recovery # "failed" => disk = cache[Main]

\* The items the database will have when the update under way ends.
Writing == IF erroneous \/ active[Main] = NoRequest THEN {} ELSE {Apply(disk, active[Main])}

Items == INSTANCE DurableItems WITH
    phase <- state[Main], items <- cache[Main], saved <- disk, writing <- Writing, damaged <- erroneous

\* The main process and its database keep the promise of DurableItems: pending changes
\* are handed over all at once and written in one transaction (flushPending,
\* doUpdateItems), so that a crash between any two steps leaves the database with all
\* the items of one instant, and never with some keys of one and some of another; unless
\* a write fails, which is noted, and made good by the recovery of close.
ImplementsDurableItems == Items!Spec
=============================================================================
