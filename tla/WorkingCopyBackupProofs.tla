----------------------- MODULE WorkingCopyBackupProofs -----------------------
(***************************************************************************)
(* Proofs about WorkingCopyBackup, for every set of working copies and     *)
(* every number of edits and sessions.                                     *)
(*                                                                         *)
(* BackupInv needs no hypothesis: operations may fail and working copies   *)
(* may change at any time.  It gives the types, CleanIsDiscarded,          *)
(* ModelIsInStep and UntouchedIsKept.  ExitInv is about a shutdown during  *)
(* which no working copy changes but by the saves and reverts it waits for *)
(* (Interference = {}: an auto save whose wait the user cancels does not   *)
(* land later), and gives BackedUp and HotExitKeeps.  SavedInv is about    *)
(* copies that were saved, in all phases of such a shutdown.               *)
(* The three give the refinement of HotExit, for a window with a workspace *)
(* (EmptyWindow = FALSE).                                                  *)
(***************************************************************************)
EXTENDS WorkingCopyBackup, FiniteSetTheorems, SequenceTheorems, TLAPS

-----------------------------------------------------------------------------
(* Queues *)

\* What a queue q looks like while the tracker waits for p: the head alone runs, there
\* is one read at most and one operation of the shutdown at most, and behind what the
\* tracker waits for there is nothing but the read of an editor that opens.
Fits(q, p) ==
    /\ \A i \in DOMAIN q : q[i].begun => i = 1 /\ q[i].kind # "read"
    /\ \A i \in DOMAIN q : q[i].kind = "read" <=> q[i].owner = "copy"
    /\ \A i \in DOMAIN q : q[i].owner = "tracker" =>
          \/ q[i].kind = "write" /\ p = "backup"
          \/ q[i].kind = "delete" /\ p = "discard"
    /\ p \in {"backup", "discard"} => \E i \in DOMAIN q : q[i].owner = "tracker"
    /\ \A i, j \in DOMAIN q : q[i].owner = "tracker" /\ i < j => q[j].kind = "read"
    /\ \A i, j \in DOMAIN q : q[i].owner = "shutdown" /\ q[j].owner = "shutdown" => i = j
    /\ \A i, j \in DOMAIN q : q[i].kind = "read" /\ q[j].kind = "read" => i = j

Has1(q, kind, owner) == \E i \in DOMAIN q : q[i].kind = kind /\ q[i].owner = owner
HasKind(q, kind) == \E i \in DOMAIN q : q[i].kind = kind
Begun(q, kind) == q # <<>> /\ q[1].begun /\ q[1].kind = kind

-----------------------------------------------------------------------------
(* The invariant of every step *)

Phase == {"off", "begun", "autosave", "backup", "error", "confirm", "saving", "discarding",
          "acknowledged", "leaving"}
ShutdownType == [phase : Phase, copies : SUBSET Copy, saving : SUBSET Copy,
                 backups : SUBSET Copy, failed : BOOLEAN, count : Nat]

Types ==
    /\ file \in [Copy -> 0..MaxText] /\ disk \in [Copy -> Empty..MaxText]
    /\ open \in [Copy -> {"closed", "opening", "open"}]
    /\ text \in [Copy -> 0..MaxText] /\ modified \in [Copy -> BOOLEAN]
    /\ version \in [Copy -> 0..MaxText] /\ model \in [Copy -> Unknown..MaxText]
    /\ queue \in [Copy -> Seq(Task)]
    /\ pending \in [Copy -> {"none", "timer", "backup", "discard"}]
    /\ suspended \in BOOLEAN
    /\ unrestored \in SUBSET Copy /\ missed \in SUBSET Copy /\ stale \in SUBSET Copy
    /\ untouched \in SUBSET Copy /\ given \in SUBSET Copy
    /\ session \in {"down", "starting", "resolved", "ready"}
    /\ shutdown \in ShutdownType
    /\ edits \in 0..MaxText /\ sessions \in 1..MaxSession
    /\ \A c \in Copy : version[c] <= edits

QueueInv ==
    /\ \A c \in Copy : Fits(queue[c], pending[c])
    /\ \A c \in Copy : HasKind(queue[c], "read") => open[c] = "opening"
    /\ \A c \in Copy : Has1(queue[c], "write", "shutdown") => shutdown.phase = "backup"
    /\ \A c \in Copy : Has1(queue[c], "delete", "shutdown") => shutdown.phase = "discarding"
    /\ \A c \in Copy : modified[c] => open[c] = "open"

SessionInv ==
    /\ suspended <=> shutdown.phase \notin {"off", "acknowledged"}
    /\ suspended => \A c \in Copy : pending[c] = "none"
    /\ session \in {"down", "starting"} =>
          /\ \A c \in Copy : /\ queue[c] = <<>> /\ model[c] = Unknown /\ open[c] = "closed"
                             /\ pending[c] = "none"
          /\ shutdown.phase \in {"off", "begun", "acknowledged", "leaving"}
          /\ shutdown.copies = {}
    /\ session = "down" => untouched = {} /\ shutdown = NoShutdown

Early == shutdown.phase \notin {"discarding", "acknowledged", "leaving"}

StepInv ==
    session \in {"resolved", "ready"} /\ shutdown.phase \notin {"acknowledged", "leaving"} =>
        \A c \in Copy :
            /\ model[c] # Unknown => disk[c] # Missing \/ Begun(queue[c], "delete")
            /\ disk[c] >= 0 => model[c] # Unknown
            /\ Begun(queue[c], "write") => disk[c] = Empty
            /\ Begun(queue[c], "delete") => disk[c] = Missing

CleanInv ==
    /\ session # "down" /\ Early =>
        \A c \in Copy \ (Modified \cup missed) :
            HasKind(queue[c], "write") \/ (disk[c] >= 0 /\ c \notin untouched)
            => Has1(queue[c], "delete", "tracker")
    /\ shutdown.phase = "begun" => shutdown.copies \subseteq Modified \cup missed

UntouchedInv ==
    ~EmptyWindow => \A c \in untouched :
        /\ open[c] # "open" /\ pending[c] = "none" /\ disk[c] >= 0
        /\ \A i \in DOMAIN queue[c] : queue[c][i].kind = "read"
        /\ session \in {"resolved", "ready"} => model[c] # Unknown
        /\ session = "ready" => c \in unrestored
        /\ c \notin shutdown.copies

BackupInv == Types /\ QueueInv /\ SessionInv /\ StepInv /\ CleanInv /\ UntouchedInv

-----------------------------------------------------------------------------
(* The invariant of a shutdown without interference *)

\* What is in the backup of c is its text, and what is queued for it changes nothing.
Stored(c) ==
    /\ disk[c] = text[c]
    /\ \A i \in DOMAIN queue[c] :
          queue[c][i].kind = "write" /\ queue[c][i].version = model[c] /\ ~queue[c][i].begun

\* An operation somebody waits for is about the working copy of now, and last.
Owned(c) ==
    \A i \in DOMAIN queue[c] :
        /\ queue[c][i].owner \in {"tracker", "shutdown"} /\ queue[c][i].kind = "write" =>
              /\ c \in Modified /\ i = Len(queue[c])
              /\ queue[c][i].version = version[c] /\ queue[c][i].text = text[c]
        /\ Early /\ queue[c][i].owner = "tracker" /\ queue[c][i].kind = "delete" => ~modified[c]
        /\ Early /\ queue[c][i].owner = "nobody" => i = 1
        /\ queue[c][i].kind = "read" => i = Len(queue[c])

Quiet(c) == shutdown.phase # "off" => pending[c] = "none" /\ open[c] # "opening"

\* A version names one text of a working copy, as long as no old backup is around.
OpenVersions(c) ==
    /\ model[c] <= version[c]
    /\ \A i \in DOMAIN queue[c] : queue[c][i].kind = "write" =>
          /\ queue[c][i].version <= version[c]
          /\ modified[c] /\ queue[c][i].version = version[c] => queue[c][i].text = text[c]
ClosedVersions(c) ==
    \/ Has1(queue[c], "delete", "tracker")
    \/ model[c] <= 0 /\ \A i \in DOMAIN queue[c] : queue[c][i].kind = "read"
Versions(c) ==
    /\ IF open[c] = "open" THEN OpenVersions(c) ELSE ClosedVersions(c)
    /\ modified[c] /\ Has(c) => Stored(c)
    /\ modified[c] /\ c \notin missed => pending[c] # "none" \/ Has(c)

\* What the shutdown took for backed up is, and stays, until the user is asked.
Backed(c) ==
    /\ shutdown.phase \in {"backup", "error", "confirm", "saving"}
    /\ c \in (shutdown.backups \cap Modified) \ stale
    => Has(c)

\* From then on, what is modified and was not given up is in its backup to stay.
Kept(c) ==
    c \in Modified \ given =>
        /\ ~Has1(queue[c], "delete", "shutdown")
        /\ c \notin stale => Has(c) /\ Stored(c)

CopyInv(c) ==
    /\ Owned(c) /\ Quiet(c) /\ Backed(c)
    /\ open[c] # "open" => version[c] = 0
    /\ Early /\ c \notin stale => Versions(c)
    /\ ~Early => Kept(c)

\* What the shutdown asks for is what is modified.
PhaseInv ==
    /\ shutdown.phase \in {"begun", "backup"} => shutdown.copies = Modified
    /\ shutdown.phase \in {"error", "confirm", "saving"} =>
          Modified \subseteq shutdown.copies \cup shutdown.backups
    /\ shutdown.phase \in {"error", "confirm"} => shutdown.copies \subseteq Modified
    /\ shutdown.phase \in {"begun", "backup", "error", "confirm"} => shutdown.saving = {}
    /\ shutdown.phase = "saving" =>
          /\ shutdown.saving = shutdown.copies
          /\ shutdown.count = Cardinality(Modified \cup shutdown.copies)
    /\ ~Early => shutdown.saving \cap Modified = {}

ExitInv == (\A c \in Copy : CopyInv(c)) /\ PhaseInv

-----------------------------------------------------------------------------
(* Lemmas about queues *)

\* Without one element a sequence keeps the others, in their order.
LEMMA WithoutIs ==
    ASSUME NEW q \in Seq(Task), NEW k \in 1..Len(q)
    PROVE  /\ Without(q, k) \in Seq(Task) /\ Len(Without(q, k)) = Len(q) - 1
           /\ \A i \in 1..(Len(q) - 1) :
                 Without(q, k)[i] = IF i < k THEN q[i] ELSE q[i + 1]
<1> DEFINE a == SubSeq(q, 1, k - 1)
           b == SubSeq(q, k + 1, Len(q))
<1>1. Len(q) \in Nat /\ k \in Int /\ 1 <= k /\ k <= Len(q)
  OBVIOUS
<1>2. a \in Seq(Task) /\ Len(a) = k - 1 /\ \A i \in 1..(k - 1) : a[i] = q[i]
  BY <1>1
<1>3. b \in Seq(Task) /\ Len(b) = Len(q) - k /\ \A i \in 1..(Len(q) - k) : b[i] = q[k + i]
  BY <1>1
<1> HIDE DEF a, b
<1>4. Without(q, k) = a \o b
  BY DEF Without, a, b
<1>5. a \o b \in Seq(Task) /\ Len(a \o b) = Len(q) - 1
  <2>1. a \o b \in Seq(Task) /\ Len(a \o b) = Len(a) + Len(b)
    BY <1>2, <1>3, ConcatProperties
  <2> QED  BY <1>1, <1>2, <1>3, <2>1
<1>6. ASSUME NEW i \in 1..(Len(q) - 1)
      PROVE  (a \o b)[i] = IF i < k THEN q[i] ELSE q[i + 1]
  <2>1. CASE i < k
    BY <1>1, <1>2, <1>3, <2>1
  <2>2. CASE ~(i < k)
    <3>1. (a \o b)[i] = b[i - Len(a)]
      BY <1>1, <1>2, <1>3, <2>2
    <3>2. i - (k - 1) \in 1..(Len(q) - k) /\ k + (i - (k - 1)) = i + 1
      BY <1>1, <2>2
    <3> QED  BY <1>1, <1>2, <1>3, <2>2, <3>1, <3>2
  <2> QED  BY <2>1, <2>2
<1> QED  BY <1>4, <1>5, <1>6

\* There is one operation of o at most.
OneOf(q, o) == \A i, j \in DOMAIN q : q[i].owner = o /\ q[j].owner = o => i = j

\* What cancelling does: nothing, or it disowns the head, or it drops what waits.
LEMMA CancelCases ==
    ASSUME NEW q \in Seq(Task), NEW o
    PROVE  \/ Cancel(q, o) = q /\ \A i \in DOMAIN q : q[i].owner # o
           \/ /\ q # <<>> /\ q[1].owner = o
              /\ Cancel(q, o) = [q EXCEPT ![1].owner = "nobody"]
           \/ \E k \in 2..Len(q) : q[k].owner = o /\ Cancel(q, o) = Without(q, k)
<1>1. CASE OperationOf(q, o) = {}
  BY <1>1 DEF Cancel, OperationOf
<1>2. CASE OperationOf(q, o) # {}
  <2> DEFINE i == CHOOSE j \in OperationOf(q, o) : TRUE
  <2>1. i \in OperationOf(q, o)
    BY <1>2
  <2>2. Cancel(q, o) = IF i = 1 THEN [q EXCEPT ![1].owner = "nobody"] ELSE Without(q, i)
    BY <1>2 DEF Cancel
  <2> HIDE DEF i
  <2>3. i \in 1..Len(q) /\ q[i].owner = o
    BY <2>1 DEF OperationOf
  <2>4. CASE i = 1
    <3>1. Cancel(q, o) = [q EXCEPT ![1].owner = "nobody"]
      BY <2>2, <2>4
    <3>2. q # <<>>
      BY <2>3
    <3> QED  BY <2>3, <2>4, <3>1, <3>2
  <2>5. CASE i # 1
    <3>1. i \in 2..Len(q)
      BY <2>3, <2>5
    <3> QED  BY <2>2, <2>3, <2>5, <3>1
  <2> QED  BY <2>4, <2>5
<1> QED  BY <1>1, <1>2

\* Cancelling keeps the head, but for its owner; it keeps what every other operation does,
\* and leaves none of o.
LEMMA CancelIs ==
    ASSUME NEW q \in Seq(Task), NEW o, OneOf(q, o), o # "nobody"
    PROVE  /\ Cancel(q, o) \in Seq(Task)
           /\ \A i \in DOMAIN Cancel(q, o) : Cancel(q, o)[i].owner # o
           /\ Cancel(q, o) = <<>> <=> q = <<>>
           /\ q # <<>> => /\ Cancel(q, o)[1].kind = q[1].kind /\ Cancel(q, o)[1].begun = q[1].begun
                          /\ Cancel(q, o)[1].version = q[1].version
                          /\ Cancel(q, o)[1].text = q[1].text
                          /\ Cancel(q, o)[1].owner = IF q[1].owner = o THEN "nobody"
                                                     ELSE q[1].owner
           /\ \A i \in DOMAIN Cancel(q, o) : i = 1 \/
                 \E j \in DOMAIN q : i <= j /\ Cancel(q, o)[i] = q[j]
<1> DEFINE r == Cancel(q, o)
<1>1. CASE r = q /\ \A i \in DOMAIN q : q[i].owner # o
  <2>1. q # <<>> => 1 \in DOMAIN q
    OBVIOUS
  <2> QED  BY <1>1, <2>1
<1>2. CASE q # <<>> /\ q[1].owner = o /\ r = [q EXCEPT ![1].owner = "nobody"]
  <2> HIDE DEF r
  <2>1. 1 \in DOMAIN q /\ q[1] \in Task
    BY <1>2
  <2>2. [q[1] EXCEPT !.owner = "nobody"] \in Task
    BY <2>1 DEF Task
  <2>3. /\ DOMAIN r = DOMAIN q /\ r[1] = [q[1] EXCEPT !.owner = "nobody"]
        /\ \A i \in DOMAIN q : i # 1 => r[i] = q[i]
    BY <1>2, <2>1
  <2>4. r \in Seq(Task) /\ r # <<>>
    BY <1>2, <2>1, <2>2, <2>3
  <2>5. /\ r[1].kind = q[1].kind /\ r[1].begun = q[1].begun /\ r[1].version = q[1].version
        /\ r[1].text = q[1].text /\ r[1].owner = "nobody"
    BY <2>1, <2>3 DEF Task
  <2>6. \A i \in DOMAIN r : r[i].owner # o
    BY <1>2, <2>1, <2>3, <2>5 DEF OneOf
  <2>7. \A i \in DOMAIN r : i = 1 \/ (i \in DOMAIN q /\ i <= i /\ r[i] = q[i])
    BY <2>3
  <2> QED  BY <1>2, <2>4, <2>5, <2>6, <2>7 DEF r
<1>3. ASSUME NEW k \in 2..Len(q), q[k].owner = o, r = Without(q, k)
      PROVE  /\ r \in Seq(Task) /\ r # <<>> /\ q # <<>> /\ r[1] = q[1] /\ q[1].owner # o
             /\ \A i \in DOMAIN r : r[i].owner # o
             /\ \A i \in DOMAIN r : \E j \in DOMAIN q : i <= j /\ r[i] = q[j]
  <2> HIDE DEF r
  <2> k \in 1..Len(q) /\ Len(q) \in Nat
    OBVIOUS
  <2>1. /\ r \in Seq(Task) /\ Len(r) = Len(q) - 1
        /\ \A i \in 1..(Len(q) - 1) : r[i] = IF i < k THEN q[i] ELSE q[i + 1]
    BY <1>3, WithoutIs
  <2>2. r # <<>> /\ q # <<>> /\ r[1] = q[1]
    BY <2>1
  <2>3. q[1].owner # o
    BY <1>3, <2>1 DEF OneOf
  <2>4. ASSUME NEW i \in DOMAIN r
        PROVE  r[i].owner # o /\ \E j \in DOMAIN q : i <= j /\ r[i] = q[j]
    <3>1. CASE i < k
      BY <1>3, <2>1, <3>1 DEF OneOf
    <3>2. CASE ~(i < k)
      <4>1. i + 1 \in DOMAIN q /\ i + 1 # k /\ i <= i + 1 /\ r[i] = q[i + 1]
        BY <2>1, <3>2
      <4> QED  BY <1>3, <4>1 DEF OneOf
    <3> QED  BY <3>1, <3>2
  <2> QED  BY <2>1, <2>2, <2>3, <2>4
<1>4. CASE \E k \in 2..Len(q) : q[k].owner = o /\ r = Without(q, k)
  <2> HIDE DEF r
  <2> QED  BY <1>3, <1>4 DEF r
<1> QED  BY <1>1, <1>2, <1>4, CancelCases

\* Cancelling keeps the order of what it keeps.
LEMMA CancelOrder ==
    ASSUME NEW q \in Seq(Task), NEW o, OneOf(q, o),
           NEW i \in DOMAIN Cancel(q, o), NEW j \in DOMAIN Cancel(q, o), i < j
    PROVE  \E a, b \in DOMAIN q :
              /\ a < b /\ Cancel(q, o)[i].kind = q[a].kind
              /\ Cancel(q, o)[i].owner \in {q[a].owner, "nobody"} /\ Cancel(q, o)[j] = q[b]
<1> DEFINE r == Cancel(q, o)
<1>1. CASE r = q
  BY <1>1
<1>2. CASE q # <<>> /\ q[1].owner = o /\ r = [q EXCEPT ![1].owner = "nobody"]
  <2>1. i \in DOMAIN q /\ j \in DOMAIN q /\ j # 1 /\ 1 \in DOMAIN q /\ q[1] \in Task
    BY <1>2
  <2>2. r[j] = q[j] /\ (i # 1 => r[i] = q[i])
    BY <1>2, <2>1
  <2>3. i = 1 => r[i] = [q[1] EXCEPT !.owner = "nobody"]
    BY <1>2, <2>1
  <2>4. r[i].kind = q[i].kind /\ r[i].owner \in {q[i].owner, "nobody"}
    BY <2>1, <2>2, <2>3 DEF Task
  <2> QED  BY <2>1, <2>2, <2>4
<1>3. CASE \E k \in 2..Len(q) : q[k].owner = o /\ r = Without(q, k)
  <2>1. PICK k \in 2..Len(q) : r = Without(q, k)
    BY <1>3
  <2>2. k \in 1..Len(q) /\ Len(q) \in Nat
    OBVIOUS
  <2> HIDE DEF r
  <2>3. /\ r \in Seq(Task) /\ Len(r) = Len(q) - 1
        /\ \A n \in 1..(Len(q) - 1) : r[n] = IF n < k THEN q[n] ELSE q[n + 1]
    <3>1. /\ Without(q, k) \in Seq(Task) /\ Len(Without(q, k)) = Len(q) - 1
          /\ \A n \in 1..(Len(q) - 1) : Without(q, k)[n] = IF n < k THEN q[n] ELSE q[n + 1]
      BY <2>2, WithoutIs
    <3> QED  BY <2>1, <3>1
  <2>4. i \in 1..(Len(q) - 1) /\ j \in 1..(Len(q) - 1) /\ DOMAIN q = 1..Len(q)
    BY <2>2, <2>3 DEF r
  <2> DEFINE f(n) == IF n < k THEN n ELSE n + 1
  <2>5. f(i) \in DOMAIN q /\ f(j) \in DOMAIN q /\ f(i) < f(j)
    BY <2>2, <2>4
  <2>6. r[i] = q[f(i)] /\ r[j] = q[f(j)]
    BY <2>3, <2>4
  <2> HIDE DEF f
  <2> QED  BY <2>5, <2>6 DEF r
<1> QED  BY <1>1, <1>2, <1>3, CancelCases

LEMMA FitsOneOf ==
    ASSUME NEW q \in Seq(Task), NEW p, Fits(q, p)
    PROVE  OneOf(q, "tracker") /\ OneOf(q, "shutdown")
<1>1. DOMAIN q \subseteq Int
  OBVIOUS
<1>2. ASSUME NEW i \in DOMAIN q, NEW j \in DOMAIN q,
             q[i].owner = "tracker", q[j].owner = "tracker", i < j
      PROVE  FALSE
  BY <1>2 DEF Fits
<1> QED  BY <1>1, <1>2 DEF Fits, OneOf

\* A queue still fits when an operation is cancelled.
LEMMA FitsCancel ==
    ASSUME NEW q \in Seq(Task), NEW p, NEW r, NEW o \in {"tracker", "shutdown"}, Fits(q, p),
           o = "tracker" => r \in {"none", "timer"}, o = "shutdown" => r = p
    PROVE  Fits(Cancel(q, o), r)
<1> DEFINE s == Cancel(q, o)
<1>0. OneOf(q, o) /\ o # "nobody"
  BY FitsOneOf
<1>1. /\ s \in Seq(Task) /\ \A i \in DOMAIN s : s[i].owner # o
      /\ s = <<>> <=> q = <<>>
      /\ q # <<>> => /\ s[1].kind = q[1].kind /\ s[1].begun = q[1].begun
                     /\ s[1].owner = IF q[1].owner = o THEN "nobody" ELSE q[1].owner
      /\ \A i \in DOMAIN s : i = 1 \/ \E j \in DOMAIN q : i <= j /\ s[i] = q[j]
  BY <1>0, CancelIs
<1>2. \A i, j \in DOMAIN s : i < j =>
         \E a, b \in DOMAIN q : /\ a < b /\ s[i].kind = q[a].kind
                                /\ s[i].owner \in {q[a].owner, "nobody"} /\ s[j] = q[b]
  BY <1>0, CancelOrder
<1>3. DOMAIN s \subseteq Int /\ DOMAIN q \subseteq Int /\ \A j \in DOMAIN q : 1 <= j
  <2> HIDE DEF s
  <2> QED  BY <1>1
<1> HIDE DEF s
<1>h. s # <<>> => q # <<>> /\ 1 \in DOMAIN q
  BY <1>1
<1>i. \A i \in DOMAIN s : s # <<>>
  BY <1>1
<1>4. ASSUME NEW i \in DOMAIN s, s[i].begun PROVE i = 1 /\ s[i].kind # "read"
  <2>1. i = 1
    BY <1>1, <1>3, <1>4 DEF Fits
  <2> QED  BY <1>1, <1>h, <1>i, <1>4, <2>1 DEF Fits
<1>5. ASSUME NEW i \in DOMAIN s PROVE s[i].kind = "read" <=> s[i].owner = "copy"
  <2>1. CASE i = 1
    BY <1>1, <1>h, <1>i, <2>1 DEF Fits
  <2>2. CASE i # 1
    BY <1>1, <2>2 DEF Fits
  <2> QED  BY <2>1, <2>2
<1>6. ASSUME NEW i \in DOMAIN s, s[i].owner = "tracker"
      PROVE  o = "shutdown" /\ \/ s[i].kind = "write" /\ r = "backup"
                               \/ s[i].kind = "delete" /\ r = "discard"
  <2>1. o = "shutdown" /\ r = p
    BY <1>1, <1>6
  <2>2. CASE i = 1
    BY <1>1, <1>h, <1>i, <1>6, <2>1, <2>2 DEF Fits
  <2>3. CASE i # 1
    BY <1>1, <1>6, <2>1, <2>3 DEF Fits
  <2> QED  BY <2>1, <2>2, <2>3
<1>7. ASSUME r \in {"backup", "discard"} PROVE \E i \in DOMAIN s : s[i].owner = "tracker"
  <2>1. o = "shutdown" /\ r = p
    BY <1>7
  <2>2. PICK k \in DOMAIN q : q[k].owner = "tracker"
    BY <1>7, <2>1 DEF Fits
  <2>3. CASE Cancel(q, o) = q
    BY <2>2, <2>3 DEF s
  <2>4. CASE q # <<>> /\ q[1].owner = o /\ Cancel(q, o) = [q EXCEPT ![1].owner = "nobody"]
    <3>1. k # 1
      BY <2>1, <2>2, <2>4
    <3> QED  BY <2>2, <2>4, <3>1 DEF s
  <2>5. ASSUME NEW m \in 2..Len(q), q[m].owner = o, s = Without(q, m)
        PROVE  \E i \in DOMAIN s : s[i].owner = "tracker"
    <3>1. m \in 1..Len(q) /\ m # k /\ k \in 1..Len(q) /\ Len(q) \in Nat
      BY <2>1, <2>2, <2>5
    <3>2. ~(k < m)
      BY <2>1, <2>2, <2>5, <3>1 DEF Fits
    <3>3. /\ Len(s) = Len(q) - 1
          /\ \A i \in 1..(Len(q) - 1) : s[i] = IF i < m THEN q[i] ELSE q[i + 1]
      BY <2>5, <3>1, WithoutIs
    <3>4. k - 1 \in 1..(Len(q) - 1) /\ ~(k - 1 < m) /\ (k - 1) + 1 = k
      BY <2>5, <3>1, <3>2
    <3>5. s[k - 1] = q[k]
      <4>1. s[k - 1] = q[(k - 1) + 1]
        BY <3>3, <3>4
      <4> QED  BY <3>4, <4>1
    <3>6. k - 1 \in DOMAIN s
      <4>1. DOMAIN s = 1..Len(s)
        BY <1>1
      <4> QED  BY <3>3, <3>4, <4>1
    <3> QED  BY <2>2, <3>5, <3>6
  <2> QED  BY <2>3, <2>4, <2>5, CancelCases DEF s
<1>8. ASSUME NEW i \in DOMAIN s, NEW j \in DOMAIN s, s[i].owner = "tracker", i < j
      PROVE  s[j].kind = "read"
  BY <1>2, <1>8 DEF Fits
<1>9. ASSUME NEW i \in DOMAIN s, NEW j \in DOMAIN s, i < j
      PROVE  /\ ~(s[i].owner = "shutdown" /\ s[j].owner = "shutdown")
             /\ ~(s[i].kind = "read" /\ s[j].kind = "read")
  <2>1. PICK a \in DOMAIN q, b \in DOMAIN q :
           /\ a < b /\ s[i].kind = q[a].kind
           /\ s[i].owner \in {q[a].owner, "nobody"} /\ s[j] = q[b]
    BY <1>2, <1>9
  <2>2. a # b
    BY <1>3, <2>1
  <2> QED  BY <2>1, <2>2 DEF Fits
<1>10. \A i, j \in DOMAIN s : i = j \/ i < j \/ j < i
  BY <1>3
<1> QED  BY <1>4, <1>5, <1>6, <1>7, <1>8, <1>9, <1>10 DEF Fits, s

LEMMA AppendIs ==
    ASSUME NEW q \in Seq(Task), NEW t \in Task
    PROVE  /\ Append(q, t) \in Seq(Task) /\ Append(q, t) # <<>>
           /\ Len(q) + 1 \in DOMAIN Append(q, t) /\ Append(q, t)[Len(q) + 1] = t
           /\ Len(Append(q, t)) = Len(q) + 1 /\ Len(q) \in Nat
           /\ q # <<>> => Append(q, t)[1] = q[1]
           /\ q = <<>> => Append(q, t)[1] = t
           /\ \A i \in DOMAIN q : i \in DOMAIN Append(q, t) /\ Append(q, t)[i] = q[i]
           /\ \A i \in DOMAIN Append(q, t) : i \in DOMAIN q \/ i = Len(q) + 1
           /\ \A i \in DOMAIN q : i \in Int /\ i < Len(q) + 1 /\ 1 <= i
OBVIOUS

LEMMA TailIs ==
    ASSUME NEW q \in Seq(Task), q # <<>>
    PROVE  /\ Tail(q) \in Seq(Task) /\ 1 \in DOMAIN q /\ q[1] \in Task /\ Head(q) = q[1]
           /\ Len(Tail(q)) = Len(q) - 1 /\ Len(q) \in Nat
           /\ \A i \in DOMAIN Tail(q) : i + 1 \in DOMAIN q /\ Tail(q)[i] = q[i + 1] /\ i \in Int
           /\ \A i \in DOMAIN q : i # 1 => i - 1 \in DOMAIN Tail(q) /\ Tail(q)[i - 1] = q[i]
           /\ \A i \in DOMAIN q : i \in Int /\ 1 <= i
OBVIOUS

\* Begun, the head is what it was.
LEMMA BeginIs ==
    ASSUME NEW q \in Seq(Task), q # <<>>
    PROVE  LET r == [q EXCEPT ![1].begun = TRUE]
           IN  /\ r \in Seq(Task) /\ r # <<>> /\ DOMAIN r = DOMAIN q /\ Len(r) = Len(q)
               /\ r[1].kind = q[1].kind /\ r[1].owner = q[1].owner /\ r[1].begun
               /\ r[1].text = q[1].text /\ r[1].version = q[1].version
               /\ \A i \in DOMAIN q : i # 1 => r[i] = q[i]
<1> DEFINE r == [q EXCEPT ![1].begun = TRUE]
<1>1. 1 \in DOMAIN q /\ q[1] \in Task
  OBVIOUS
<1>2. [q[1] EXCEPT !.begun = TRUE] \in Task
  BY <1>1 DEF Task
<1>3. /\ DOMAIN r = DOMAIN q /\ r[1] = [q[1] EXCEPT !.begun = TRUE]
      /\ \A i \in DOMAIN q : i # 1 => r[i] = q[i]
  BY <1>1
<1>4. r \in Seq(Task) /\ r # <<>> /\ Len(r) = Len(q)
  BY <1>1, <1>2, <1>3
<1>5. /\ r[1].kind = q[1].kind /\ r[1].owner = q[1].owner /\ r[1].begun
      /\ r[1].text = q[1].text /\ r[1].version = q[1].version
  BY <1>1, <1>3 DEF Task
<1> HIDE DEF r
<1> QED  BY <1>3, <1>4, <1>5 DEF r

LEMMA FitsAppend ==
    ASSUME NEW q \in Seq(Task), NEW p, NEW r, NEW t \in Task, Fits(q, p), ~t.begun,
           \/ /\ t.owner = "copy" /\ t.kind = "read" /\ ~HasKind(q, "read") /\ r = p
           \/ /\ t.owner = "tracker" /\ \A i \in DOMAIN q : q[i].owner # "tracker"
              /\ (t.kind = "write" /\ r = "backup") \/ (t.kind = "delete" /\ r = "discard")
           \/ /\ t.owner = "shutdown" /\ t.kind \in {"write", "delete"} /\ r = p
              /\ \A i \in DOMAIN q : q[i].owner \notin {"tracker", "shutdown"}
    PROVE  Fits(Append(q, t), r)
<1> DEFINE s == Append(q, t)
           n == Len(q) + 1
<1>1. /\ s \in Seq(Task) /\ n \in DOMAIN s /\ s[n] = t
      /\ \A i \in DOMAIN q : i \in DOMAIN s /\ s[i] = q[i]
      /\ \A i \in DOMAIN s : i \in DOMAIN q \/ i = n
      /\ \A i \in DOMAIN q : i \in Int /\ i < n
      /\ n \in Int
  BY AppendIs
<1> HIDE DEF s, n
<1>2. \A i, j \in DOMAIN s : i < j => i \in DOMAIN q
  BY <1>1
<1>3. /\ \A i \in DOMAIN s : s[i].begun => i = 1 /\ s[i].kind # "read"
      /\ \A i \in DOMAIN s : s[i].kind = "read" <=> s[i].owner = "copy"
  BY <1>1 DEF Fits
<1>4. /\ \A i \in DOMAIN s : s[i].owner = "tracker" =>
            \/ s[i].kind = "write" /\ r = "backup"
            \/ s[i].kind = "delete" /\ r = "discard"
      /\ r \in {"backup", "discard"} => \E i \in DOMAIN s : s[i].owner = "tracker"
  BY <1>1 DEF Fits
<1>5. ASSUME NEW i \in DOMAIN s, NEW j \in DOMAIN s, s[i].owner = "tracker", i < j
      PROVE  s[j].kind = "read"
  BY <1>1, <1>2, <1>5 DEF Fits
<1>6. ASSUME NEW i \in DOMAIN s, NEW j \in DOMAIN s, s[i].owner = "shutdown",
             s[j].owner = "shutdown"
      PROVE  i = j
  BY <1>1, <1>6 DEF Fits
<1>7. ASSUME NEW i \in DOMAIN s, NEW j \in DOMAIN s, s[i].kind = "read", s[j].kind = "read"
      PROVE  i = j
  BY <1>1, <1>7 DEF Fits, HasKind
<1> QED  BY <1>3, <1>4, <1>5, <1>6, <1>7 DEF Fits, s

LEMMA FitsTail ==
    ASSUME NEW q \in Seq(Task), NEW p, q # <<>>, Fits(q, p)
    PROVE  Fits(Tail(q), IF q[1].owner = "tracker" THEN "none" ELSE p)
<1> DEFINE s == Tail(q)
           r == IF q[1].owner = "tracker" THEN "none" ELSE p
<1>1. /\ 1 \in DOMAIN q
      /\ \A i \in DOMAIN s : i + 1 \in DOMAIN q /\ s[i] = q[i + 1] /\ i \in Int
      /\ \A i \in DOMAIN q : i # 1 => i - 1 \in DOMAIN s /\ s[i - 1] = q[i]
      /\ \A i \in DOMAIN q : i \in Int /\ 1 <= i
      /\ \A i \in DOMAIN s : i >= 1
  BY TailIs
<1> HIDE DEF s
<1>2. \A i, j \in DOMAIN s : (i < j => i + 1 < j + 1) /\ (i + 1 = j + 1 => i = j)
  BY <1>1
<1>3. \A i \in DOMAIN s : 1 < i + 1 /\ i + 1 # 1
  BY <1>1
<1>4. /\ \A i \in DOMAIN s : s[i].begun => i = 1 /\ s[i].kind # "read"
      /\ \A i \in DOMAIN s : s[i].kind = "read" <=> s[i].owner = "copy"
  BY <1>1, <1>3 DEF Fits
<1>5. \A i, j \in DOMAIN s : s[i].owner = "tracker" /\ i < j => s[j].kind = "read"
  BY <1>1, <1>2 DEF Fits
<1>6. \A i, j \in DOMAIN s : s[i].owner = "shutdown" /\ s[j].owner = "shutdown" => i = j
  BY <1>1, <1>2 DEF Fits
<1>7. \A i, j \in DOMAIN s : s[i].kind = "read" /\ s[j].kind = "read" => i = j
  BY <1>1, <1>2 DEF Fits
<1>8. ASSUME NEW i \in DOMAIN s, s[i].owner = "tracker"
      PROVE  \/ s[i].kind = "write" /\ r = "backup"
             \/ s[i].kind = "delete" /\ r = "discard"
  <2>1. q[1].owner # "tracker"
    BY <1>1, <1>3, <1>8 DEF Fits
  <2> QED  BY <1>1, <1>8, <2>1 DEF Fits
<1>9. ASSUME r \in {"backup", "discard"} PROVE \E i \in DOMAIN s : s[i].owner = "tracker"
  <2>1. q[1].owner # "tracker" /\ r = p
    BY <1>9
  <2>2. PICK k \in DOMAIN q : q[k].owner = "tracker"
    BY <1>9, <2>1 DEF Fits
  <2> QED  BY <1>1, <2>1, <2>2
<1> HIDE DEF r
<1>10. Fits(s, r)
  BY <1>4, <1>5, <1>6, <1>7, <1>8, <1>9 DEF Fits
<1> QED  BY <1>10 DEF s, r

LEMMA FitsBegin ==
    ASSUME NEW q \in Seq(Task), NEW p, q # <<>>, q[1].kind # "read", Fits(q, p)
    PROVE  Fits([q EXCEPT ![1].begun = TRUE], p)
<1> DEFINE s == [q EXCEPT ![1].begun = TRUE]
<1>1. /\ DOMAIN s = DOMAIN q
      /\ \A i \in DOMAIN s : s[i].kind = q[i].kind /\ s[i].owner = q[i].owner
      /\ \A i \in DOMAIN s : i # 1 => s[i].begun = q[i].begun
  BY BeginIs
<1> HIDE DEF s
<1>2. \A i \in DOMAIN s : s[i].begun => i = 1 /\ s[i].kind # "read"
  BY <1>1 DEF Fits
<1> QED  BY <1>1, <1>2 DEF Fits, s

\* The operations of the shutdown go on, and nobody waits for them.
Disowned(q) ==
    [i \in DOMAIN q |-> IF q[i].owner = "shutdown" THEN [q[i] EXCEPT !.owner = "nobody"]
                        ELSE q[i]]

LEMMA DisownedIs ==
    ASSUME NEW q \in Seq(Task)
    PROVE  /\ Disowned(q) \in Seq(Task) /\ DOMAIN Disowned(q) = DOMAIN q
           /\ Len(Disowned(q)) = Len(q) /\ Disowned(q) = <<>> <=> q = <<>>
           /\ q # <<>> => 1 \in DOMAIN q
           /\ \A i \in DOMAIN q :
                 /\ Disowned(q)[i].kind = q[i].kind /\ Disowned(q)[i].begun = q[i].begun
                 /\ Disowned(q)[i].text = q[i].text
                 /\ Disowned(q)[i].version = q[i].version
                 /\ Disowned(q)[i].owner = IF q[i].owner = "shutdown" THEN "nobody"
                                           ELSE q[i].owner
<1>1. ASSUME NEW i \in DOMAIN q
      PROVE  /\ q[i] \in Task /\ [q[i] EXCEPT !.owner = "nobody"] \in Task
             /\ [q[i] EXCEPT !.owner = "nobody"].kind = q[i].kind
             /\ [q[i] EXCEPT !.owner = "nobody"].begun = q[i].begun
             /\ [q[i] EXCEPT !.owner = "nobody"].text = q[i].text
             /\ [q[i] EXCEPT !.owner = "nobody"].version = q[i].version
             /\ [q[i] EXCEPT !.owner = "nobody"].owner = "nobody"
  <2>1. q[i] \in Task
    OBVIOUS
  <2> QED  BY <2>1 DEF Task
<1>2. DOMAIN q = 1..Len(q) /\ Len(q) \in Nat
  OBVIOUS
<1>3. Disowned(q) \in [1..Len(q) -> Task]
  BY <1>1, <1>2 DEF Disowned
<1>4. Disowned(q) \in Seq(Task) /\ Len(Disowned(q)) = Len(q)
  BY <1>2, <1>3
<1>5. Disowned(q) = <<>> <=> q = <<>>
  BY <1>2, <1>4
<1>6. \A i \in DOMAIN q : Disowned(q)[i] = IF q[i].owner = "shutdown"
                                           THEN [q[i] EXCEPT !.owner = "nobody"] ELSE q[i]
  BY DEF Disowned
<1>7. ASSUME NEW i \in DOMAIN q
      PROVE  /\ Disowned(q)[i].kind = q[i].kind /\ Disowned(q)[i].begun = q[i].begun
             /\ Disowned(q)[i].text = q[i].text
             /\ Disowned(q)[i].version = q[i].version
             /\ Disowned(q)[i].owner = IF q[i].owner = "shutdown" THEN "nobody"
                                       ELSE q[i].owner
  BY <1>1, <1>6
<1> QED  BY <1>2, <1>3, <1>4, <1>5, <1>7

LEMMA FitsDisowned ==
    ASSUME NEW q \in Seq(Task), NEW p, Fits(q, p)
    PROVE  Fits(Disowned(q), p)
<1> DEFINE s == Disowned(q)
<1>1. /\ DOMAIN s = DOMAIN q
      /\ \A i \in DOMAIN q :
            /\ s[i].kind = q[i].kind /\ s[i].begun = q[i].begun
            /\ s[i].owner = IF q[i].owner = "shutdown" THEN "nobody" ELSE q[i].owner
  BY DisownedIs
<1> HIDE DEF s
<1> QED  BY <1>1 DEF Fits, s

-----------------------------------------------------------------------------
(* Lemmas about the operators of the tracker, the service and the shutdown *)

LEMMA NewTaskIs ==
    ASSUME Types, NEW c \in Copy, NEW kind \in {"write", "delete", "read"},
           NEW o \in {"tracker", "shutdown", "copy", "nobody"}
    PROVE  /\ NewTask(kind, o, c) \in Task
           /\ NewTask(kind, o, c).kind = kind /\ NewTask(kind, o, c).owner = o
           /\ ~NewTask(kind, o, c).begun /\ NewTask(kind, o, c).text = text[c]
           /\ NewTask(kind, o, c).version = version[c]
BY DEF Types, NewTask, Task

\* What one change of a queue and of what is pending for it leaves alone.
Only(c, q, p) ==
    /\ queue' = [queue EXCEPT ![c] = q] /\ pending' = [pending EXCEPT ![c] = p]

LEMMA OnlyIs ==
    ASSUME Types, QueueInv, NEW c \in Copy, NEW q \in Seq(Task),
           NEW p \in {"none", "timer", "backup", "discard"}, Only(c, q, p)
    PROVE  /\ queue' \in [Copy -> Seq(Task)] /\ queue'[c] = q
           /\ pending' \in [Copy -> {"none", "timer", "backup", "discard"}] /\ pending'[c] = p
           /\ \A d \in Copy : d # c => queue'[d] = queue[d] /\ pending'[d] = pending[d]
           /\ Fits(q, p) => \A d \in Copy : Fits(queue'[d], pending'[d])
<1>1. /\ queue \in [Copy -> Seq(Task)]
      /\ pending \in [Copy -> {"none", "timer", "backup", "discard"}]
  BY DEF Types
<1>2. /\ queue' \in [Copy -> Seq(Task)] /\ queue'[c] = q
      /\ pending' \in [Copy -> {"none", "timer", "backup", "discard"}] /\ pending'[c] = p
      /\ \A d \in Copy : d # c => queue'[d] = queue[d] /\ pending'[d] = pending[d]
  BY <1>1 DEF Only
<1>3. \A d \in Copy : Fits(queue[d], pending[d])
  BY DEF QueueInv
<1> QED  BY <1>2, <1>3

\* Without what the tracker waits for.
LEMMA CancelledIs ==
    ASSUME Types, QueueInv, NEW c \in Copy
    PROVE  LET q == Cancel(queue[c], "tracker")
           IN  /\ q \in Seq(Task) /\ Fits(q, "none") /\ Fits(q, "timer")
               /\ \A i \in DOMAIN q : q[i].owner # "tracker"
<1>1. queue[c] \in Seq(Task) /\ Fits(queue[c], pending[c])
  BY DEF Types, QueueInv
<1>2. OneOf(queue[c], "tracker")
  BY <1>1, FitsOneOf
<1>3. /\ Cancel(queue[c], "tracker") \in Seq(Task)
      /\ \A i \in DOMAIN Cancel(queue[c], "tracker") :
            Cancel(queue[c], "tracker")[i].owner # "tracker"
  BY <1>1, <1>2, CancelIs
<1>4. Fits(Cancel(queue[c], "tracker"), "none") /\ Fits(Cancel(queue[c], "tracker"), "timer")
  BY <1>1, FitsCancel
<1> QED  BY <1>3, <1>4

LEMMA ScheduleIs ==
    ASSUME Types, QueueInv, NEW c \in Copy, ScheduleBackup(c)
    PROVE  /\ Only(c, Cancel(queue[c], "tracker"), "timer") /\ missed' = missed \ {c}
           /\ Cancel(queue[c], "tracker") \in Seq(Task)
           /\ Fits(Cancel(queue[c], "tracker"), "timer")
<1>1. queue' = [queue EXCEPT ![c] = Cancel(queue[c], "tracker")]
  BY DEF ScheduleBackup
<1> QED  BY <1>1, CancelledIs DEF Only, ScheduleBackup

LEMMA DiscardIs ==
    ASSUME Types, QueueInv, NEW c \in Copy, DiscardBackup(c)
    PROVE  LET q == Cancel(queue[c], "tracker")
               r == Append(q, NewTask("delete", "tracker", c))
           IN  /\ Only(c, r, "discard") /\ missed' = missed \ {c}
               /\ q \in Seq(Task) /\ r \in Seq(Task) /\ Fits(r, "discard")
<1> DEFINE q == Cancel(queue[c], "tracker")
           t == NewTask("delete", "tracker", c)
<1>1. /\ q \in Seq(Task) /\ Fits(q, "none")
      /\ \A i \in DOMAIN q : q[i].owner # "tracker"
  BY CancelledIs
<1>2. t \in Task /\ t.kind = "delete" /\ t.owner = "tracker" /\ ~t.begun
  <2>1. "delete" \in {"write", "delete", "read"}
        /\ "tracker" \in {"tracker", "shutdown", "copy", "nobody"}
    OBVIOUS
  <2> HIDE DEF q
  <2>2. /\ NewTask("delete", "tracker", c) \in Task
        /\ NewTask("delete", "tracker", c).kind = "delete"
        /\ NewTask("delete", "tracker", c).owner = "tracker"
        /\ ~NewTask("delete", "tracker", c).begun
    BY <2>1, NewTaskIs
  <2> QED  BY <2>2
<1> HIDE DEF q, t
<1>3. Append(q, t) \in Seq(Task) /\ Fits(Append(q, t), "discard")
  <2>1. Append(q, t) \in Seq(Task)
    BY <1>1, <1>2
  <2> QED  BY <1>1, <1>2, <2>1, FitsAppend
<1>4. queue' = [queue EXCEPT ![c] = Append(q, t)]
  BY DEF DiscardBackup, q, t
<1>5. pending' = [pending EXCEPT ![c] = "discard"] /\ missed' = missed \ {c}
  BY DEF DiscardBackup
<1> QED  BY <1>1, <1>3, <1>4, <1>5 DEF Only, q, t

\* The head of a queue has ended.
LEMMA EndsIs ==
    ASSUME Types, QueueInv, NEW c \in Copy, NEW ok \in BOOLEAN, queue[c] # <<>>, Ends(c, ok)
    PROVE  LET t == queue[c][1]
               p == IF t.owner = "tracker" THEN "none" ELSE pending[c]
           IN  /\ t \in Task /\ Head(queue[c]) = t
               /\ Only(c, Tail(queue[c]), p) /\ Fits(Tail(queue[c]), p)
               /\ Tail(queue[c]) \in Seq(Task)
               /\ p \in {"none", "timer", "backup", "discard"}
               /\ missed' = IF ok \/ t.owner = "nobody" THEN missed ELSE missed \cup {c}
               /\ shutdown' = IF t.owner # "shutdown" \/ t.kind = "delete" THEN shutdown
                              ELSE IF ok THEN [shutdown EXCEPT !.backups = @ \cup {c}]
                              ELSE [shutdown EXCEPT !.failed = TRUE]
               /\ stale' = IF ~ok /\ t.kind = "delete" THEN stale \cup {c}
                           ELSE IF ok /\ t.begun /\ t.owner # "nobody" THEN stale \ {c}
                           ELSE stale
<1>1. queue[c] \in Seq(Task) /\ Fits(queue[c], pending[c])
  BY DEF Types, QueueInv
<1>2. queue[c][1] \in Task /\ Head(queue[c]) = queue[c][1] /\ Tail(queue[c]) \in Seq(Task)
  BY <1>1, TailIs
<1>3. Fits(Tail(queue[c]), IF queue[c][1].owner = "tracker" THEN "none" ELSE pending[c])
  BY <1>1, FitsTail
<1>4. /\ queue' = [queue EXCEPT ![c] = Tail(queue[c])]
      /\ pending' = [pending EXCEPT ![c] = IF queue[c][1].owner = "tracker" THEN "none"
                                           ELSE pending[c]]
  BY <1>2 DEF Ends
<1>5. pending[c] \in {"none", "timer", "backup", "discard"}
  BY DEF Types
<1> QED  BY <1>2, <1>3, <1>4, <1>5 DEF Only, Ends

LEMMA EnteredIs ==
    ASSUME Types, NEW phase \in Phase
    PROVE  LET s == [shutdown EXCEPT !.phase = phase]
           IN  /\ s \in ShutdownType /\ s.phase = phase /\ s.copies = shutdown.copies
               /\ s.saving = shutdown.saving /\ s.backups = shutdown.backups
               /\ s.failed = shutdown.failed /\ s.count = shutdown.count
BY DEF Types, ShutdownType

LEMMA NoShutdownIs ==
    /\ NoShutdown \in ShutdownType /\ NoShutdown.phase = "off"
    /\ NoShutdown.copies = {} /\ NoShutdown.saving = {} /\ NoShutdown.backups = {}
BY DEF NoShutdown, ShutdownType, Phase

-----------------------------------------------------------------------------
(* The types *)

\* What every step leaves in order if it keeps the queues, the working copies and the
\* shutdown in order.
QueueTypes ==
    /\ queue \in [Copy -> Seq(Task)]
    /\ pending \in [Copy -> {"none", "timer", "backup", "discard"}]
FileTypes ==
    /\ file \in [Copy -> 0..MaxText] /\ disk \in [Copy -> Empty..MaxText]
    /\ model \in [Copy -> Unknown..MaxText]
CopyTypes ==
    /\ open \in [Copy -> {"closed", "opening", "open"}]
    /\ text \in [Copy -> 0..MaxText] /\ modified \in [Copy -> BOOLEAN]
    /\ version \in [Copy -> 0..MaxText] /\ edits \in 0..MaxText
    /\ \A c \in Copy : version[c] <= edits
SetTypes ==
    /\ unrestored \in SUBSET Copy /\ missed \in SUBSET Copy /\ stale \in SUBSET Copy
    /\ untouched \in SUBSET Copy /\ given \in SUBSET Copy
SessionTypes ==
    /\ suspended \in BOOLEAN /\ session \in {"down", "starting", "resolved", "ready"}
    /\ shutdown \in ShutdownType /\ sessions \in 1..MaxSession

LEMMA TypesParts == Types <=> QueueTypes /\ FileTypes /\ CopyTypes /\ SetTypes /\ SessionTypes
BY DEF Types, QueueTypes, FileTypes, CopyTypes, SetTypes, SessionTypes

LEMMA TypesNext ==
    ASSUME QueueTypes', FileTypes', CopyTypes', SetTypes', SessionTypes'
    PROVE  Types'
BY DEF Types, QueueTypes, FileTypes, CopyTypes, SetTypes, SessionTypes

LEMMA QueueTypesIs ==
    ASSUME Types, QueueInv, NEW c \in Copy, NEW q \in Seq(Task),
           NEW p \in {"none", "timer", "backup", "discard"}, Only(c, q, p)
    PROVE  QueueTypes'
BY OnlyIs DEF QueueTypes

LEMMA EndsTypes ==
    ASSUME Types, QueueInv, NEW c \in Copy, NEW ok \in BOOLEAN, queue[c] # <<>>, Ends(c, ok)
    PROVE  /\ QueueTypes' /\ missed' \in SUBSET Copy /\ stale' \in SUBSET Copy
           /\ shutdown' \in ShutdownType
<1> DEFINE t == queue[c][1]
           p == IF t.owner = "tracker" THEN "none" ELSE pending[c]
<1>0. /\ Only(c, Tail(queue[c]), p) /\ Tail(queue[c]) \in Seq(Task)
      /\ p \in {"none", "timer", "backup", "discard"}
      /\ missed' = IF ok \/ t.owner = "nobody" THEN missed ELSE missed \cup {c}
      /\ shutdown' = IF t.owner # "shutdown" \/ t.kind = "delete" THEN shutdown
                     ELSE IF ok THEN [shutdown EXCEPT !.backups = @ \cup {c}]
                     ELSE [shutdown EXCEPT !.failed = TRUE]
      /\ stale' = IF ~ok /\ t.kind = "delete" THEN stale \cup {c}
                  ELSE IF ok /\ t.begun /\ t.owner # "nobody" THEN stale \ {c}
                  ELSE stale
  BY EndsIs
<1> HIDE DEF t, p
<1>1. QueueTypes'
  BY <1>0, QueueTypesIs
<1>2. missed' \in SUBSET Copy /\ stale' \in SUBSET Copy
  BY <1>0 DEF Types
<1>3. shutdown \in ShutdownType
  BY DEF Types
<1>4. /\ [shutdown EXCEPT !.backups = @ \cup {c}] \in ShutdownType
      /\ [shutdown EXCEPT !.failed = TRUE] \in ShutdownType
  BY <1>3 DEF ShutdownType
<1>5. shutdown' \in ShutdownType
  BY <1>0, <1>3, <1>4
<1> QED  BY <1>1, <1>2, <1>5

LEMMA TypesTimer ==
    ASSUME Types, QueueInv, NEW c \in Copy, BackupTimer(c)
    PROVE  Types'
<1>1. FileTypes' /\ CopyTypes' /\ SetTypes' /\ SessionTypes'
  BY DEF Types, FileTypes, CopyTypes, SetTypes, SessionTypes, BackupTimer, diskVars, copyVars
<1>2. NewTask("write", "tracker", c) \in Task /\ queue[c] \in Seq(Task)
  BY NewTaskIs DEF Types
<1>3. Append(queue[c], NewTask("write", "tracker", c)) \in Seq(Task)
  BY <1>2
<1>4. /\ queue \in [Copy -> Seq(Task)]
      /\ pending \in [Copy -> {"none", "timer", "backup", "discard"}]
  BY DEF Types
<1>5. /\ \/ queue' = queue
         \/ queue' = [queue EXCEPT ![c] = Append(queue[c], NewTask("write", "tracker", c))]
      /\ \/ pending' = [pending EXCEPT ![c] = "none"]
         \/ pending' = [pending EXCEPT ![c] = "backup"]
  BY DEF BackupTimer
<1>6. queue' \in [Copy -> Seq(Task)]
  BY <1>3, <1>4, <1>5
<1>7. pending' \in [Copy -> {"none", "timer", "backup", "discard"}]
  BY <1>4, <1>5
<1>8. QueueTypes'
  BY <1>6, <1>7 DEF QueueTypes
<1> QED  BY <1>1, <1>8, TypesParts, TypesNext


\* A begun operation is where it was.
LEMMA BegunIs ==
    ASSUME Types, QueueInv, NEW c \in Copy, queue[c] # <<>>, Begin(c)
    PROVE  LET q == [queue[c] EXCEPT ![1].begun = TRUE]
           IN  /\ q \in Seq(Task) /\ queue' = [queue EXCEPT ![c] = q]
               /\ queue'[c] = q /\ \A d \in Copy : d # c => queue'[d] = queue[d]
               /\ queue' \in [Copy -> Seq(Task)]
<1>1. queue \in [Copy -> Seq(Task)] /\ queue[c] \in Seq(Task)
  BY DEF Types
<1>2. [queue[c] EXCEPT ![1].begun = TRUE] \in Seq(Task)
  BY <1>1, BeginIs
<1>3. queue' = [queue EXCEPT ![c] = [queue[c] EXCEPT ![1].begun = TRUE]]
  BY DEF Begin
<1> QED  BY <1>1, <1>2, <1>3

LEMMA TypesOperation ==
    ASSUME Types, QueueInv, NEW c \in Copy, Operation(c)
    PROVE  Types'
<1> USE DEF diskVars, copyVars, trackerVars
<1>t. queue[c] # <<>> =>
         Head(queue[c]).text \in 0..MaxText /\ Head(queue[c]).version \in 0..MaxText
  <2>1. queue[c] \in Seq(Task)
    BY DEF Types
  <2>2. queue[c] # <<>> => Head(queue[c]) \in Task
    BY <2>1
  <2> QED  BY <2>2 DEF Task
<1>0. MaxText \in Nat
  BY BoundAssumption
<1>1. CASE SkipWrite(c)
  <2>1. QueueTypes' /\ missed' \in SUBSET Copy /\ stale' \in SUBSET Copy
        /\ shutdown' \in ShutdownType
    BY <1>1, EndsTypes DEF SkipWrite, Running
  <2> QED  BY <1>1, <2>1, TypesParts, TypesNext
           DEF SkipWrite, FileTypes, CopyTypes, SetTypes, SessionTypes
<1>2. CASE StartWrite(c)
  <2>1. queue' \in [Copy -> Seq(Task)]
    BY <1>2, BegunIs DEF StartWrite, Running
  <2>2. disk' \in [Copy -> Empty..MaxText]
    BY <1>0, <1>2 DEF StartWrite, Types, Empty
  <2> QED  BY <1>2, <2>1, <2>2, TypesParts, TypesNext
           DEF StartWrite, QueueTypes, FileTypes, CopyTypes, SetTypes, SessionTypes
<1>3. CASE EndWrite(c)
  <2>1. QueueTypes' /\ missed' \in SUBSET Copy /\ stale' \in SUBSET Copy
        /\ shutdown' \in ShutdownType
    BY <1>3, EndsTypes DEF EndWrite, Running
  <2>2. disk' \in [Copy -> Empty..MaxText]
    BY <1>0, <1>t, <1>3 DEF EndWrite, Types, Empty, Missing, Running
  <2>3. model' \in [Copy -> Unknown..MaxText]
    BY <1>0, <1>t, <1>3 DEF EndWrite, Types, Unknown, Running
  <2> QED  BY <1>3, <2>1, <2>2, <2>3, TypesParts, TypesNext
           DEF EndWrite, FileTypes, CopyTypes, SetTypes, SessionTypes
<1>4. CASE StartDelete(c)
  <2>1. queue' \in [Copy -> Seq(Task)]
    BY <1>4, BegunIs DEF StartDelete, Running
  <2>2. disk' \in [Copy -> Empty..MaxText]
    BY <1>0, <1>4 DEF StartDelete, Types, Empty, Missing
  <2> QED  BY <1>4, <2>1, <2>2, TypesParts, TypesNext
           DEF StartDelete, QueueTypes, FileTypes, CopyTypes, SetTypes, SessionTypes
<1>5. CASE EndDelete(c)
  <2>1. QueueTypes' /\ missed' \in SUBSET Copy /\ stale' \in SUBSET Copy
        /\ shutdown' \in ShutdownType
    BY <1>5, EndsTypes DEF EndDelete, Running
  <2>2. model' \in [Copy -> Unknown..MaxText]
    BY <1>0, <1>5 DEF EndDelete, Types, Unknown
  <2> QED  BY <1>5, <2>1, <2>2, TypesParts, TypesNext
           DEF EndDelete, FileTypes, CopyTypes, SetTypes, SessionTypes
<1>6. CASE OperationFails(c)
  <2>0. queue[c] # <<>>
    BY <1>6 DEF OperationFails, Running
  <2>1. QueueTypes' /\ missed' \in SUBSET Copy /\ stale' \in SUBSET Copy
        /\ shutdown' \in ShutdownType
    BY <1>6, <2>0, EndsTypes DEF OperationFails
  <2> QED  BY <1>6, <2>1, TypesParts, TypesNext
           DEF OperationFails, FileTypes, CopyTypes, SetTypes, SessionTypes
<1> QED  BY <1>1, <1>2, <1>3, <1>4, <1>5, <1>6 DEF Operation

\* An event of a working copy, ignored or not.
LEMMA EventTypes ==
    ASSUME Types, QueueInv, NEW c \in Copy,
           Ignored(c) \/ ScheduleBackup(c) \/ DiscardBackup(c)
    PROVE  QueueTypes' /\ missed' \in SUBSET Copy
<1>1. CASE Ignored(c)
  BY <1>1 DEF Ignored, Types, QueueTypes
<1>2. CASE ScheduleBackup(c)
  <2>1. missed' \in SUBSET Copy
    BY <1>2, ScheduleIs DEF Types
  <2>2. "timer" \in {"none", "timer", "backup", "discard"}
    OBVIOUS
  <2> QED  BY <1>2, <2>1, <2>2, ScheduleIs, QueueTypesIs
<1>3. CASE DiscardBackup(c)
  <2>1. missed' \in SUBSET Copy
    BY <1>3, DiscardIs DEF Types
  <2>2. "discard" \in {"none", "timer", "backup", "discard"}
    OBVIOUS
  <2> QED  BY <1>3, <2>1, <2>2, DiscardIs, QueueTypesIs
<1> QED  BY <1>1, <1>2, <1>3

LEMMA TypesWorkingCopy ==
    ASSUME Types, QueueInv, NEW c \in Copy, WorkingCopy(c)
    PROVE  Types'
<1> USE DEF diskVars, copyVars, trackerVars
<1>0. MaxText \in Nat
  BY BoundAssumption
<1>1. CASE Open(c)
  <2>1. NewTask("read", "copy", c) \in Task /\ queue[c] \in Seq(Task)
    BY NewTaskIs DEF Types
  <2>2. Append(queue[c], NewTask("read", "copy", c)) \in Seq(Task)
    BY <2>1
  <2>3. QueueTypes'
    BY <1>1, <2>2 DEF Open, Types, QueueTypes
  <2>4. CopyTypes'
    BY <1>1 DEF Open, Types, CopyTypes
  <2> QED  BY <1>1, <2>3, <2>4, TypesParts, TypesNext DEF Open, FileTypes, SetTypes, SessionTypes
<1>2. CASE Resolve(c)
  <2>1. queue[c] # <<>> /\ queue[c] \in Seq(Task)
    BY <1>2 DEF Resolve, Running, Types
  <2>2. Tail(queue[c]) \in Seq(Task) /\ Fits(Tail(queue[c]), IF queue[c][1].owner = "tracker"
                                                             THEN "none" ELSE pending[c])
    BY <2>1, FitsTail, TailIs DEF QueueInv
  <2>3. Cancel(Tail(queue[c]), "tracker") \in Seq(Task)
    BY <2>2, FitsOneOf, CancelIs
  <2>4. QueueTypes'
    BY <1>2, <2>2, <2>3 DEF Resolve, Types, QueueTypes
  <2>5. CopyTypes'
    BY <1>0, <1>2 DEF Resolve, Types, CopyTypes, Empty
  <2>6. SetTypes'
    BY <1>2 DEF Resolve, Types, SetTypes
  <2> QED  BY <1>2, <2>4, <2>5, <2>6, TypesParts, TypesNext DEF Resolve, FileTypes, SessionTypes
<1>3. CASE Edit(c)
  <2>1. QueueTypes' /\ missed' \in SUBSET Copy
    BY <1>3, EventTypes DEF Edit
  <2>2. edits + 1 \in 0..MaxText /\ version[c] + 1 \in 0..MaxText /\ version[c] + 1 <= edits + 1
    BY <1>0, <1>3 DEF Edit, Types
  <2>3. /\ edits' = edits + 1 /\ text' = [text EXCEPT ![c] = edits + 1]
        /\ modified' = [modified EXCEPT ![c] = TRUE]
        /\ version' = [version EXCEPT ![c] = version[c] + 1] /\ UNCHANGED open
    BY <1>3 DEF Edit
  <2>4. /\ text \in [Copy -> 0..MaxText] /\ modified \in [Copy -> BOOLEAN]
        /\ version \in [Copy -> 0..MaxText] /\ open \in [Copy -> {"closed", "opening", "open"}]
        /\ edits \in 0..MaxText /\ \A d \in Copy : version[d] <= edits
    BY DEF Types
  <2>5. /\ text' \in [Copy -> 0..MaxText] /\ modified' \in [Copy -> BOOLEAN]
        /\ version' \in [Copy -> 0..MaxText] /\ edits' \in 0..MaxText
    BY <2>2, <2>3, <2>4
  <2>6. ASSUME NEW d \in Copy PROVE version'[d] <= edits'
    <3>1. version[d] \in Int /\ edits \in Int /\ version[d] <= edits
      BY <2>4
    <3>2. version'[d] = IF d = c THEN version[c] + 1 ELSE version[d]
      BY <2>3, <2>4
    <3> QED  BY <2>2, <2>3, <3>1, <3>2
  <2>7. CopyTypes'
    BY <2>3, <2>4, <2>5, <2>6 DEF CopyTypes
  <2> QED  BY <1>3, <2>1, <2>7, TypesParts, TypesNext DEF Edit, FileTypes, SetTypes, SessionTypes
<1>4. CASE Save(c)
  <2>1. QueueTypes' /\ missed' \in SUBSET Copy
    BY <1>4, EventTypes DEF Save, NoLongerDirty
  <2>2. CopyTypes' /\ FileTypes'
    BY <1>4 DEF Save, NoLongerDirty, Types, CopyTypes, FileTypes
  <2>3. stale' \in SUBSET Copy
    BY <1>4 DEF Save, NoLongerDirty, Types
  <2> QED  BY <1>4, <2>1, <2>2, <2>3, TypesParts, TypesNext DEF Save, SetTypes, SessionTypes
<1>5. CASE Revert(c)
  <2>1. QueueTypes' /\ missed' \in SUBSET Copy
    BY <1>5, EventTypes DEF Revert, NoLongerDirty
  <2>2. CopyTypes' /\ FileTypes'
    BY <1>5 DEF Revert, NoLongerDirty, Types, CopyTypes, FileTypes
  <2>3. stale' \in SUBSET Copy
    BY <1>5 DEF Revert, NoLongerDirty, Types
  <2> QED  BY <1>5, <2>1, <2>2, <2>3, TypesParts, TypesNext DEF Revert, SetTypes, SessionTypes
<1>6. CASE Close(c)
  <2>1. QueueTypes' /\ missed' \in SUBSET Copy
    BY <1>6, EventTypes DEF Close
  <2>2. CopyTypes' /\ FileTypes'
    BY <1>0, <1>6 DEF Close, Types, CopyTypes, FileTypes
  <2>3. stale' \in SUBSET Copy
    BY <1>6 DEF Close, Types
  <2> QED  BY <1>6, <2>1, <2>2, <2>3, TypesParts, TypesNext DEF Close, SetTypes, SessionTypes
<1> QED  BY <1>1, <1>2, <1>3, <1>4, <1>5, <1>6 DEF WorkingCopy

LEMMA TypesSession ==
    ASSUME Types, QueueInv
    PROVE  /\ ResolveModel => Types'
           /\ ResolveBackupsToRestore => Types'
           /\ \A c \in Copy : RestoreBackup(c) => Types'
           /\ Down => Types'
           /\ Start => Types'
<1> USE DEF diskVars, copyVars, trackerVars, serviceVars
<1>0. MaxText \in Nat /\ MaxSession \in Nat \ {0}
  BY BoundAssumption
<1>1. ASSUME ResolveModel PROVE Types'
  <2>1. FileTypes'
    BY <1>0, <1>1 DEF ResolveModel, Types, FileTypes, Unknown
  <2> QED  BY <1>1, <2>1, TypesParts, TypesNext
           DEF ResolveModel, QueueTypes, CopyTypes, SetTypes, SessionTypes
<1>2. ASSUME ResolveBackupsToRestore PROVE Types'
  <2>1. unrestored' \in SUBSET Copy /\ session' \in {"down", "starting", "resolved", "ready"}
    BY <1>2 DEF ResolveBackupsToRestore
  <2> QED  BY <1>2, <2>1, TypesParts, TypesNext
           DEF ResolveBackupsToRestore, QueueTypes, FileTypes, CopyTypes, SetTypes, SessionTypes
<1>3. ASSUME NEW c \in Copy, RestoreBackup(c) PROVE Types'
  <2>1. unrestored' \in SUBSET Copy
    BY <1>3 DEF RestoreBackup, Types
  <2> QED  BY <1>3, <2>1, TypesParts, TypesNext
           DEF RestoreBackup, QueueTypes, FileTypes, CopyTypes, SetTypes, SessionTypes
<1>4. ASSUME Down PROVE Types'
  <2>1. <<>> \in Seq(Task) /\ {} \in SUBSET Copy
    OBVIOUS
  <2>2. QueueTypes'
    BY <1>4, <2>1 DEF Down, QueueTypes
  <2>3. FileTypes'
    BY <1>0, <1>4 DEF Down, FileTypes, Types, Unknown
  <2>4. CopyTypes'
    BY <1>0, <1>4 DEF Down, CopyTypes, Types
  <2>5. SetTypes' /\ SessionTypes'
    BY <1>4, <2>1, NoShutdownIs DEF Down, SetTypes, SessionTypes, Types
  <2> QED  BY <2>2, <2>3, <2>4, <2>5, TypesParts, TypesNext
<1>5. ASSUME Start PROVE Types'
  <2>1. untouched' \in SUBSET Copy /\ session' \in {"down", "starting", "resolved", "ready"}
    BY <1>5 DEF Start
  <2>2. sessions' \in 1..MaxSession
    BY <1>0, <1>5 DEF Start, Types
  <2> QED  BY <1>5, <2>1, <2>2, TypesParts, TypesNext
           DEF Start, QueueTypes, FileTypes, CopyTypes, SetTypes, SessionTypes
<1> QED  BY <1>1, <1>2, <1>3, <1>4, <1>5

\* The discards of noVeto, or nothing when it is not known yet what there is.
LEMMA NoVetoIs ==
    ASSUME Types, NEW C \in SUBSET Copy, NoVeto(C)
    PROVE  /\ shutdown' \in ShutdownType /\ queue' \in [Copy -> Seq(Task)]
           /\ shutdown'.copies = shutdown.copies /\ shutdown'.saving = shutdown.saving
           /\ shutdown'.backups = shutdown.backups
           /\ \/ /\ session # "ready" /\ shutdown'.phase = "acknowledged"
                 /\ suspended' = FALSE /\ queue' = queue
              \/ /\ session = "ready" /\ shutdown'.phase = "discarding"
                 /\ suspended' = suspended
                 /\ \A c \in C : queue'[c] = Append(queue[c], NewTask("delete", "shutdown", c))
                 /\ \A c \in Copy \ C : queue'[c] = queue[c]
<1>1. /\ "acknowledged" \in Phase /\ "discarding" \in Phase
      /\ queue \in [Copy -> Seq(Task)]
  BY DEF Phase, Types
<1>2. CASE session # "ready"
  <2>1. shutdown' = [shutdown EXCEPT !.phase = "acknowledged"] /\ suspended' = FALSE
        /\ queue' = queue
    BY <1>2 DEF NoVeto, Acknowledge, Enters
  <2> QED  BY <1>1, <1>2, <2>1, EnteredIs
<1>3. CASE session = "ready"
  <2>1. shutdown' = [shutdown EXCEPT !.phase = "discarding"] /\ suspended' = suspended
    BY <1>3 DEF NoVeto, Enters
  <2>2. /\ shutdown' \in ShutdownType /\ shutdown'.phase = "discarding"
        /\ shutdown'.copies = shutdown.copies /\ shutdown'.saving = shutdown.saving
        /\ shutdown'.backups = shutdown.backups
    BY <1>1, <2>1, EnteredIs
  <2>3. ASSUME NEW c \in Copy
        PROVE  Append(queue[c], NewTask("delete", "shutdown", c)) \in Seq(Task)
    <3>1. NewTask("delete", "shutdown", c) \in Task /\ queue[c] \in Seq(Task)
      BY <1>1, NewTaskIs
    <3> QED  BY <3>1
  <2>4. queue' = [c \in Copy |-> IF c \in C
                                 THEN Append(queue[c], NewTask("delete", "shutdown", c))
                                 ELSE queue[c]]
    BY <1>3 DEF NoVeto
  <2>5. queue' \in [Copy -> Seq(Task)]
    BY <1>1, <2>3, <2>4
  <2> QED  BY <1>3, <2>1, <2>2, <2>4, <2>5
<1> QED  BY <1>2, <1>3

\* The backups before a shutdown: of what has none of this version.
LEMMA BackUpIs ==
    ASSUME Types, NEW C \in SUBSET Copy, NEW toBackup \in SUBSET Copy, BackUp(C, toBackup)
    PROVE  /\ shutdown' \in ShutdownType /\ queue' \in [Copy -> Seq(Task)]
           /\ shutdown'.phase = "backup" /\ shutdown'.copies = C
           /\ Interference = {} => shutdown'.saving = {}
           /\ shutdown'.backups = {c \in toBackup : Has(c)}
           /\ \A c \in Copy :
                 queue'[c] = IF c \in toBackup /\ ~Has(c)
                             THEN Append(queue[c], NewTask("write", "shutdown", c))
                             ELSE queue[c]
<1>1. queue \in [Copy -> Seq(Task)] /\ shutdown \in ShutdownType
  BY DEF Types
<1>2. /\ shutdown' \in ShutdownType
      /\ shutdown'.phase = "backup" /\ shutdown'.copies = C
      /\ shutdown'.backups = {c \in toBackup : Has(c)}
  BY <1>1 DEF BackUp, ShutdownType, Phase
<1>6. Interference = {} => shutdown'.saving = {}
  BY <1>1 DEF BackUp, ShutdownType
<1>3. ASSUME NEW c \in Copy
      PROVE  Append(queue[c], NewTask("write", "shutdown", c)) \in Seq(Task)
  <2>1. NewTask("write", "shutdown", c) \in Task /\ queue[c] \in Seq(Task)
    BY <1>1, NewTaskIs
  <2> QED  BY <2>1
<1>4. queue' = [c \in Copy |-> IF c \in toBackup /\ ~Has(c)
                               THEN Append(queue[c], NewTask("write", "shutdown", c))
                               ELSE queue[c]]
  BY DEF BackUp
<1>5. queue' \in [Copy -> Seq(Task)]
  BY <1>1, <1>3, <1>4
<1> QED  BY <1>2, <1>4, <1>5, <1>6

\* An error while confirming changes nothing but the phase.
LEMMA ConfirmFailsIs ==
    ASSUME Types, ConfirmFails
    PROVE  /\ shutdown.phase = "confirm" /\ shutdown'.phase = "error"
           /\ shutdown' \in ShutdownType /\ shutdown'.copies = shutdown.copies
           /\ shutdown'.saving = shutdown.saving /\ shutdown'.backups = shutdown.backups
           /\ UNCHANGED <<diskVars, copyVars, serviceVars, trackerVars, session, edits, sessions,
                          missed, stale, untouched, given>>
<1>1. shutdown' = [shutdown EXCEPT !.phase = "error"] /\ "error" \in Phase
  BY DEF ConfirmFails, Enters, Phase
<1>2. /\ shutdown' \in ShutdownType /\ shutdown'.phase = "error"
      /\ shutdown'.copies = shutdown.copies /\ shutdown'.saving = shutdown.saving
      /\ shutdown'.backups = shutdown.backups
  BY <1>1, EnteredIs
<1> QED
  BY <1>2 DEF ConfirmFails, shutdownUnchanged, diskVars, copyVars, serviceVars, trackerVars

LEMMA CancelAllIs ==
    ASSUME Types, QueueInv, NEW o \in {"tracker", "shutdown"},
           queue' = [c \in Copy |-> Cancel(queue[c], o)]
    PROVE  /\ queue' \in [Copy -> Seq(Task)]
           /\ \A c \in Copy : /\ queue[c] \in Seq(Task) /\ queue'[c] = Cancel(queue[c], o)
                              /\ OneOf(queue[c], o)
<1>1. ASSUME NEW c \in Copy
      PROVE  queue[c] \in Seq(Task) /\ OneOf(queue[c], o) /\ Cancel(queue[c], o) \in Seq(Task)
  <2>1. queue[c] \in Seq(Task) /\ Fits(queue[c], pending[c])
    BY DEF Types, QueueInv
  <2>2. OneOf(queue[c], o) /\ o # "nobody"
    BY <2>1, FitsOneOf
  <2> QED  BY <2>1, <2>2, CancelIs
<1> QED  BY <1>1

LEMMA DisownAllIs ==
    ASSUME Types, DiscardEnds
    PROVE  /\ queue' \in [Copy -> Seq(Task)]
           /\ \A c \in Copy : queue[c] \in Seq(Task) /\ queue'[c] = Disowned(queue[c])
<1>1. queue' = [c \in Copy |-> Disowned(queue[c])]
  BY DEF DiscardEnds, Disowned
<1>2. \A c \in Copy : queue[c] \in Seq(Task) /\ Disowned(queue[c]) \in Seq(Task)
  BY DisownedIs DEF Types
<1> QED  BY <1>1, <1>2

LEMMA TypesShutdown ==
    ASSUME Types, QueueInv, Shutdown
    PROVE  Types'
<1> USE DEF diskVars, copyVars, trackerVars, serviceVars, shutdownUnchanged
<1>0. QueueTypes /\ FileTypes /\ CopyTypes /\ SetTypes /\ SessionTypes
  BY TypesParts
<1>p. \A p \in Phase : [shutdown EXCEPT !.phase = p] \in ShutdownType
  BY EnteredIs
<1>q. /\ "acknowledged" \in Phase /\ "leaving" \in Phase
  BY DEF Phase
<1>n. \A C \in SUBSET Copy : NoVeto(C) =>
         shutdown' \in ShutdownType /\ queue' \in [Copy -> Seq(Task)] /\ suspended' \in BOOLEAN
  <2>1. suspended \in BOOLEAN
    BY <1>0 DEF SessionTypes
  <2> QED  BY <2>1, NoVetoIs
<1>h. ASSUME NEW C \in SUBSET Copy, HandleModified(C)
      PROVE  shutdown' \in ShutdownType /\ queue' \in [Copy -> Seq(Task)]
  <2>1. PICK toBackup \in {C, {}, C \cap Scratchpad} : BackUp(C, toBackup)
    BY <1>h DEF HandleModified
  <2>2. toBackup \in SUBSET Copy
    OBVIOUS
  <2> QED  BY <2>1, <2>2, BackUpIs
<1>c. shutdown.copies \in SUBSET Copy /\ Modified \in SUBSET Copy
  BY <1>0 DEF SessionTypes, ShutdownType, Modified
<1>1. CASE BeginShutdown
  <2>1. shutdown' \in ShutdownType
    BY <1>1, <1>c, NoShutdownIs DEF BeginShutdown, ShutdownType, Phase
  <2>2. QueueTypes'
    BY <1>1, CancelAllIs DEF BeginShutdown, CancelBackupOperations, QueueTypes
  <2>3. FileTypes' /\ CopyTypes' /\ SetTypes' /\ SessionTypes'
    BY <1>0, <1>1, <2>1 DEF BeginShutdown, FileTypes, CopyTypes, SetTypes, SessionTypes
  <2> QED  BY <2>2, <2>3, TypesNext
<1>2. CASE DiscardRest
  <2>1. shutdown' \in ShutdownType /\ queue' \in [Copy -> Seq(Task)] /\ suspended' \in BOOLEAN
    <3>1. {c \in Copy : model[c] # Unknown} \ Except \in SUBSET Copy
      OBVIOUS
    <3> QED  BY <1>2, <1>n, <3>1 DEF DiscardRest
  <2>2. QueueTypes' /\ FileTypes' /\ CopyTypes' /\ SetTypes' /\ SessionTypes'
    BY <1>0, <1>2, <2>1 DEF DiscardRest, QueueTypes, FileTypes, CopyTypes, SetTypes, SessionTypes
  <2> QED  BY <2>2, TypesNext
<1>3. CASE DiscardHome
  <2>1. shutdown' \in ShutdownType /\ suspended' \in BOOLEAN
    BY <1>3, <1>p, <1>q DEF DiscardHome, Acknowledge, Enters
  <2>2. MaxText \in Nat
    BY BoundAssumption
  <2>3. FileTypes'
    BY <1>0, <1>3, <2>2 DEF DiscardHome, FileTypes, Missing, Unknown, Empty
  <2>4. QueueTypes' /\ CopyTypes' /\ SetTypes' /\ SessionTypes'
    BY <1>0, <1>3, <2>1 DEF DiscardHome, QueueTypes, CopyTypes, SetTypes, SessionTypes
  <2> QED  BY <2>3, <2>4, TypesNext
<1>4. CASE AutoSave
  <2>1. shutdown' \in ShutdownType
    BY <1>0, <1>4 DEF AutoSave, SessionTypes, ShutdownType, Phase
  <2>2. QueueTypes' /\ FileTypes' /\ CopyTypes' /\ SetTypes' /\ SessionTypes'
    BY <1>0, <1>4, <2>1 DEF AutoSave, QueueTypes, FileTypes, CopyTypes, SetTypes, SessionTypes
  <2> QED  BY <2>2, TypesNext
<1>5. CASE NoAutoSave
  <2>1. shutdown' \in ShutdownType /\ queue' \in [Copy -> Seq(Task)]
    BY <1>5, <1>c, <1>h DEF NoAutoSave
  <2>2. QueueTypes' /\ FileTypes' /\ CopyTypes' /\ SetTypes' /\ SessionTypes'
    BY <1>0, <1>5, <2>1 DEF NoAutoSave, QueueTypes, FileTypes, CopyTypes, SetTypes, SessionTypes
  <2> QED  BY <2>2, TypesNext
<1>6. CASE AutoSaveEnds
  <2>1. shutdown' \in ShutdownType /\ queue' \in [Copy -> Seq(Task)] /\ suspended' \in BOOLEAN
    <3>1. CASE Modified = {}
      BY <1>6, <1>c, <1>n, <3>1 DEF AutoSaveEnds
    <3>2. CASE Modified # {}
      <4>1. HandleModified(Modified) /\ suspended' = suspended
        BY <1>6, <3>2 DEF AutoSaveEnds
      <4> QED  BY <1>0, <1>c, <1>h, <4>1 DEF SessionTypes
    <3> QED  BY <3>1, <3>2
  <2>2. QueueTypes' /\ FileTypes' /\ CopyTypes' /\ SetTypes' /\ SessionTypes'
    BY <1>0, <1>6, <2>1 DEF AutoSaveEnds, QueueTypes, FileTypes, CopyTypes, SetTypes, SessionTypes
  <2> QED  BY <2>2, TypesNext
<1>7. CASE BackupEnds
  <2>1. queue' \in [Copy -> Seq(Task)]
    BY <1>7, CancelAllIs DEF BackupEnds
  <2>2. shutdown' \in ShutdownType /\ suspended' \in BOOLEAN
    <3>1. CASE shutdown.backups = shutdown.copies
      BY <1>7, <1>p, <1>q, <3>1 DEF BackupEnds, Acknowledge, Enters
    <3>2. CASE shutdown.backups # shutdown.copies
      <4> DEFINE phase == IF BackupError THEN "error" ELSE "confirm"
      <4>1. phase \in Phase
        BY DEF Phase
      <4>2. /\ shutdown' = [shutdown EXCEPT !.phase = phase, !.copies = @ \ shutdown.backups]
            /\ suspended' = suspended
        BY <1>7, <3>2 DEF BackupEnds
      <4> HIDE DEF phase
      <4>3. shutdown \in ShutdownType /\ suspended \in BOOLEAN
        BY <1>0 DEF SessionTypes
      <4>4. shutdown' \in ShutdownType
        BY <4>1, <4>2, <4>3 DEF ShutdownType
      <4> QED  BY <4>2, <4>3, <4>4
    <3> QED  BY <3>1, <3>2
  <2>3. QueueTypes' /\ FileTypes' /\ CopyTypes' /\ SetTypes' /\ SessionTypes'
    BY <1>0, <1>7, <2>1, <2>2
       DEF BackupEnds, QueueTypes, FileTypes, CopyTypes, SetTypes, SessionTypes
  <2> QED  BY <2>3, TypesNext
<1>8. CASE ErrorDialog
  <2>1. shutdown' \in ShutdownType /\ suspended' \in BOOLEAN /\ given' \in SUBSET Copy
    BY <1>8, <1>c, <1>p, <1>q, NoShutdownIs DEF ErrorDialog, Veto, Acknowledge, Enters
  <2>2. QueueTypes' /\ FileTypes' /\ CopyTypes' /\ SetTypes' /\ SessionTypes'
    BY <1>0, <1>8, <2>1 DEF ErrorDialog, QueueTypes, FileTypes, CopyTypes, SetTypes, SessionTypes
  <2> QED  BY <2>2, TypesNext
<1>9. CASE ConfirmSave
  <2>1. Cardinality(Modified) \in Nat
    BY <1>c, CopyAssumption, FS_Subset, FS_CardinalityType
  <2>2. shutdown' \in ShutdownType
    BY <1>0, <1>9, <2>1 DEF ConfirmSave, SessionTypes, ShutdownType, Phase
  <2>3. QueueTypes' /\ FileTypes' /\ CopyTypes' /\ SetTypes' /\ SessionTypes'
    BY <1>0, <1>9, <2>2 DEF ConfirmSave, QueueTypes, FileTypes, CopyTypes, SetTypes, SessionTypes
  <2> QED  BY <2>3, TypesNext
<1>10. CASE SaveEnds
  <2>1. /\ shutdown' \in ShutdownType /\ suspended' \in BOOLEAN /\ given' \in SUBSET Copy
        /\ queue' \in [Copy -> Seq(Task)]
    <3>1. CASE Veto /\ UNCHANGED queue
      BY <1>0, <3>1, NoShutdownIs DEF Veto, QueueTypes
    <3>2. CASE NoVeto(shutdown.copies) /\ UNCHANGED given
      BY <1>0, <1>c, <1>n, <3>2 DEF SetTypes
    <3> QED  BY <1>10, <3>1, <3>2 DEF SaveEnds
  <2>2. QueueTypes' /\ FileTypes' /\ CopyTypes' /\ SetTypes' /\ SessionTypes'
    BY <1>0, <1>10, <2>1 DEF SaveEnds, QueueTypes, FileTypes, CopyTypes, SetTypes, SessionTypes
  <2> QED  BY <2>2, TypesNext
<1>11. CASE ConfirmDontSave
  <2>1. shutdown' \in ShutdownType /\ queue' \in [Copy -> Seq(Task)] /\ suspended' \in BOOLEAN
    BY <1>11, <1>c, <1>n DEF ConfirmDontSave
  <2>2. CopyTypes'
    BY <1>0, <1>11 DEF ConfirmDontSave, CopyTypes
  <2>3. QueueTypes' /\ FileTypes' /\ SetTypes' /\ SessionTypes'
    BY <1>0, <1>c, <1>11, <2>1 DEF ConfirmDontSave, QueueTypes, FileTypes, SetTypes, SessionTypes
  <2> QED  BY <2>2, <2>3, TypesNext
<1>12. CASE ConfirmCancel
  <2>1. shutdown' \in ShutdownType /\ suspended' \in BOOLEAN /\ given' \in SUBSET Copy
    BY <1>12, NoShutdownIs DEF ConfirmCancel, Veto
  <2>2. QueueTypes' /\ FileTypes' /\ CopyTypes' /\ SetTypes' /\ SessionTypes'
    BY <1>0, <1>12, <2>1
       DEF ConfirmCancel, QueueTypes, FileTypes, CopyTypes, SetTypes, SessionTypes
  <2> QED  BY <2>2, TypesNext
<1>13. CASE DiscardEnds
  <2>1. queue' \in [Copy -> Seq(Task)]
    BY <1>13, DisownAllIs
  <2>2. shutdown' \in ShutdownType /\ suspended' \in BOOLEAN
    BY <1>13, <1>p, <1>q DEF DiscardEnds, Acknowledge, Enters
  <2>3. QueueTypes' /\ FileTypes' /\ CopyTypes' /\ SetTypes' /\ SessionTypes'
    BY <1>0, <1>13, <2>1, <2>2
       DEF DiscardEnds, QueueTypes, FileTypes, CopyTypes, SetTypes, SessionTypes
  <2> QED  BY <2>3, TypesNext
<1>14. CASE WillShutdown
  <2>1. QueueTypes'
    BY <1>14, CancelAllIs DEF WillShutdown, CancelBackupOperations, QueueTypes
  <2>2. shutdown' \in ShutdownType
    BY <1>14, <1>p, <1>q DEF WillShutdown, Enters
  <2>3. FileTypes' /\ CopyTypes' /\ SetTypes' /\ SessionTypes'
    BY <1>0, <1>14, <2>2 DEF WillShutdown, FileTypes, CopyTypes, SetTypes, SessionTypes
  <2> QED  BY <2>1, <2>3, TypesNext
<1>15. CASE Exit
  BY <1>15, TypesSession DEF Exit
<1>16. CASE ConfirmFails
  <2>1. QueueTypes' /\ FileTypes' /\ CopyTypes' /\ SetTypes' /\ SessionTypes'
    BY <1>0, <1>16, ConfirmFailsIs
       DEF QueueTypes, FileTypes, CopyTypes, SetTypes, SessionTypes
  <2> QED  BY <2>1, TypesNext
<1> QED
  BY <1>1, <1>2, <1>3, <1>4, <1>5, <1>6, <1>7, <1>8, <1>9, <1>10, <1>11, <1>12, <1>13, <1>14,
     <1>15, <1>16 DEF Shutdown

LEMMA TypesStep ==
    ASSUME Types, QueueInv, [Next]_vars
    PROVE  Types'
<1>1. CASE UNCHANGED vars
  BY <1>1, TypesParts, TypesNext
     DEF QueueTypes, FileTypes, CopyTypes, SetTypes, SessionTypes, vars, diskVars, copyVars,
         serviceVars, trackerVars
<1>2. CASE Next
  BY <1>2, TypesTimer, TypesOperation, TypesWorkingCopy, TypesSession, TypesShutdown
     DEF Next, Crash
<1> QED  BY <1>1, <1>2

-----------------------------------------------------------------------------
(* The queues *)

\* Whoever adds nothing to a queue adds no kind of operation to it.
LEMMA KindsCancel ==
    ASSUME NEW q \in Seq(Task), NEW o \in {"tracker", "shutdown"}, OneOf(q, o), NEW kind
    PROVE  /\ HasKind(Cancel(q, o), kind) => HasKind(q, kind)
           /\ Has1(Cancel(q, o), kind, "shutdown") => Has1(q, kind, "shutdown")
<1> DEFINE r == Cancel(q, o)
<1>1. /\ r \in Seq(Task) /\ r = <<>> <=> q = <<>>
      /\ q # <<>> => /\ r[1].kind = q[1].kind
                     /\ r[1].owner = IF q[1].owner = o THEN "nobody" ELSE q[1].owner
      /\ \A i \in DOMAIN r : i = 1 \/ \E j \in DOMAIN q : i <= j /\ r[i] = q[j]
  BY CancelIs
<1> HIDE DEF r
<1>2. ASSUME NEW i \in DOMAIN r
      PROVE  \E j \in DOMAIN q : r[i].kind = q[j].kind /\ r[i].owner \in {q[j].owner, "nobody"}
  <2>1. q # <<>>
    BY <1>1
  <2>2. 1 \in DOMAIN q
    BY <2>1
  <2> QED  BY <1>1, <2>1, <2>2
<1>3. /\ HasKind(r, kind) => HasKind(q, kind)
      /\ Has1(r, kind, "shutdown") => Has1(q, kind, "shutdown")
  BY <1>2 DEF HasKind, Has1
<1> QED  BY <1>3 DEF r

LEMMA KindsTail ==
    ASSUME NEW q \in Seq(Task), q # <<>>, NEW kind, NEW o
    PROVE  /\ HasKind(Tail(q), kind) => HasKind(q, kind)
           /\ Has1(Tail(q), kind, o) => Has1(q, kind, o)
BY TailIs DEF HasKind, Has1

LEMMA KindsBegin ==
    ASSUME NEW q \in Seq(Task), q # <<>>, NEW kind, NEW o
    PROVE  LET r == [q EXCEPT ![1].begun = TRUE]
           IN  (HasKind(r, kind) => HasKind(q, kind)) /\ (Has1(r, kind, o) => Has1(q, kind, o))
<1> DEFINE r == [q EXCEPT ![1].begun = TRUE]
<1>1. \A i \in DOMAIN r : i \in DOMAIN q /\ r[i].kind = q[i].kind /\ r[i].owner = q[i].owner
  BY BeginIs
<1> HIDE DEF r
<1>2. (HasKind(r, kind) => HasKind(q, kind)) /\ (Has1(r, kind, o) => Has1(q, kind, o))
  BY <1>1 DEF HasKind, Has1
<1> QED  BY <1>2 DEF r

LEMMA KindsAppend ==
    ASSUME NEW q \in Seq(Task), NEW t \in Task, NEW kind, NEW o
    PROVE  /\ HasKind(Append(q, t), kind) <=> (HasKind(q, kind) \/ t.kind = kind)
           /\ Has1(Append(q, t), kind, o) <=>
                 (Has1(q, kind, o) \/ (t.kind = kind /\ t.owner = o))
BY AppendIs DEF HasKind, Has1

\* The shutdown has operations only while it waits for them, and the tracker too.
LEMMA Idle ==
    ASSUME Types, QueueInv, NEW c \in Copy
    PROVE  /\ shutdown.phase \notin {"backup", "discarding"} =>
                 \A i \in DOMAIN queue[c] : queue[c][i].owner # "shutdown"
           /\ pending[c] \notin {"backup", "discard"} =>
                 \A i \in DOMAIN queue[c] : queue[c][i].owner # "tracker"
<1>1. queue[c] \in Seq(Task) /\ Fits(queue[c], pending[c])
  BY DEF Types, QueueInv
<1>2. ASSUME NEW i \in DOMAIN queue[c], queue[c][i].owner = "shutdown"
      PROVE  shutdown.phase \in {"backup", "discarding"}
  <2>1. queue[c][i] \in Task
    BY <1>1
  <2>2. queue[c][i].kind \in {"write", "delete"}
    BY <1>1, <1>2, <2>1 DEF Fits, Task
  <2> QED  BY <1>2, <2>2 DEF QueueInv, Has1
<1> QED  BY <1>1, <1>2 DEF Fits

\* A step of one working copy.
LEMMA QueueOne ==
    ASSUME Types, QueueInv, NEW c \in Copy, NEW q \in Seq(Task),
           NEW p \in {"none", "timer", "backup", "discard"}, Only(c, q, p), Fits(q, p),
           HasKind(q, "read") => open'[c] = "opening",
           Has1(q, "write", "shutdown") => Has1(queue[c], "write", "shutdown"),
           Has1(q, "delete", "shutdown") => Has1(queue[c], "delete", "shutdown"),
           modified'[c] => open'[c] = "open",
           \A d \in Copy : d # c => open'[d] = open[d] /\ modified'[d] = modified[d],
           shutdown'.phase = shutdown.phase
    PROVE  QueueInv'
<1>1. /\ queue'[c] = q /\ pending'[c] = p
      /\ \A d \in Copy : d # c => queue'[d] = queue[d] /\ pending'[d] = pending[d]
      /\ \A d \in Copy : Fits(queue'[d], pending'[d])
  BY OnlyIs
<1>2. ASSUME NEW d \in Copy
      PROVE  /\ HasKind(queue'[d], "read") => open'[d] = "opening"
             /\ Has1(queue'[d], "write", "shutdown") => shutdown'.phase = "backup"
             /\ Has1(queue'[d], "delete", "shutdown") => shutdown'.phase = "discarding"
             /\ modified'[d] => open'[d] = "open"
  <2>1. CASE d = c
    BY <1>1, <2>1 DEF QueueInv
  <2>2. CASE d # c
    BY <1>1, <2>2 DEF QueueInv
  <2> QED  BY <2>1, <2>2
<1> QED  BY <1>1, <1>2 DEF QueueInv

LEMMA QueueEnds ==
    ASSUME Types, QueueInv, NEW c \in Copy, NEW ok \in BOOLEAN, queue[c] # <<>>, Ends(c, ok),
           UNCHANGED <<open, modified>>
    PROVE  QueueInv'
<1> DEFINE t == queue[c][1]
           p == IF t.owner = "tracker" THEN "none" ELSE pending[c]
<1>0. queue[c] \in Seq(Task) /\ shutdown \in ShutdownType
  BY DEF Types
<1>1. /\ Only(c, Tail(queue[c]), p) /\ Fits(Tail(queue[c]), p)
      /\ Tail(queue[c]) \in Seq(Task)
      /\ p \in {"none", "timer", "backup", "discard"}
      /\ shutdown' = IF t.owner # "shutdown" \/ t.kind = "delete" THEN shutdown
                     ELSE IF ok THEN [shutdown EXCEPT !.backups = @ \cup {c}]
                     ELSE [shutdown EXCEPT !.failed = TRUE]
  BY EndsIs
<1>2. shutdown'.phase = shutdown.phase
  BY <1>0, <1>1 DEF ShutdownType
<1> HIDE DEF t, p
<1>3. /\ HasKind(Tail(queue[c]), "read") => open'[c] = "opening"
      /\ modified'[c] => open'[c] = "open"
      /\ Has1(Tail(queue[c]), "write", "shutdown") => Has1(queue[c], "write", "shutdown")
      /\ Has1(Tail(queue[c]), "delete", "shutdown") => Has1(queue[c], "delete", "shutdown")
  BY <1>0, KindsTail DEF QueueInv
<1> QED  BY <1>1, <1>2, <1>3, QueueOne

LEMMA QueueBegin ==
    ASSUME Types, QueueInv, NEW c \in Copy, queue[c] # <<>>, queue[c][1].kind # "read", Begin(c),
           UNCHANGED <<open, modified, pending, shutdown>>
    PROVE  QueueInv'
<1> DEFINE q == [queue[c] EXCEPT ![1].begun = TRUE]
<1>1. queue[c] \in Seq(Task) /\ Fits(queue[c], pending[c])
      /\ pending \in [Copy -> {"none", "timer", "backup", "discard"}]
  BY DEF Types, QueueInv
<1>2. q \in Seq(Task) /\ queue' = [queue EXCEPT ![c] = q]
  BY BegunIs
<1>3. Fits(q, pending[c])
  BY <1>1, FitsBegin
<1>4. \A kind, o : (HasKind(q, kind) => HasKind(queue[c], kind))
                   /\ (Has1(q, kind, o) => Has1(queue[c], kind, o))
  BY <1>1, KindsBegin
<1> HIDE DEF q
<1>5. Only(c, q, pending[c])
  BY <1>1, <1>2 DEF Only
<1>6. /\ HasKind(q, "read") => open'[c] = "opening"
      /\ modified'[c] => open'[c] = "open"
  BY <1>4 DEF QueueInv
<1>7. pending[c] \in {"none", "timer", "backup", "discard"}
  BY <1>1
<1> QED  BY <1>2, <1>3, <1>4, <1>5, <1>6, <1>7, QueueOne

LEMMA QueueOperation ==
    ASSUME Types, QueueInv, NEW c \in Copy, Operation(c)
    PROVE  QueueInv'
<1> USE DEF copyVars, trackerVars
<1>0. queue[c] # <<>> => Head(queue[c]) = queue[c][1]
  BY TailIs DEF Types
<1>1. CASE SkipWrite(c)
  BY <1>1, QueueEnds DEF SkipWrite, Running
<1>2. CASE StartWrite(c)
  BY <1>0, <1>2, QueueBegin DEF StartWrite, Running
<1>3. CASE EndWrite(c)
  BY <1>3, QueueEnds DEF EndWrite, Running
<1>4. CASE StartDelete(c)
  BY <1>0, <1>4, QueueBegin DEF StartDelete, Running
<1>5. CASE EndDelete(c)
  BY <1>5, QueueEnds DEF EndDelete, Running
<1>6. CASE OperationFails(c)
  <2>1. queue[c] # <<>>
    BY <1>6 DEF OperationFails, Running
  <2> QED  BY <1>6, <2>1, QueueEnds DEF OperationFails
<1> QED  BY <1>1, <1>2, <1>3, <1>4, <1>5, <1>6 DEF Operation

LEMMA QueueTimer ==
    ASSUME Types, QueueInv, NEW c \in Copy, BackupTimer(c)
    PROVE  QueueInv'
<1> USE DEF copyVars
<1>0. /\ queue[c] \in Seq(Task) /\ Fits(queue[c], "timer")
      /\ queue \in [Copy -> Seq(Task)]
      /\ pending \in [Copy -> {"none", "timer", "backup", "discard"}]
  BY DEF Types, QueueInv, BackupTimer
<1>1. \A i \in DOMAIN queue[c] : queue[c][i].owner # "tracker"
  BY <1>0 DEF Fits
<1>2. /\ HasKind(queue[c], "read") => open'[c] = "opening"
      /\ modified'[c] => open'[c] = "open"
      /\ open' = open /\ modified' = modified /\ shutdown' = shutdown
  BY DEF BackupTimer, QueueInv
<1>3. CASE queue' = queue /\ pending' = [pending EXCEPT ![c] = "none"]
  <2>1. Only(c, queue[c], "none")
    BY <1>0, <1>3 DEF Only
  <2>2. Fits(queue[c], "none")
    BY <1>0 DEF Fits
  <2> QED  BY <1>0, <1>2, <2>1, <2>2, QueueOne
<1>4. CASE /\ queue' = [queue EXCEPT ![c] = Append(@, NewTask("write", "tracker", c))]
           /\ pending' = [pending EXCEPT ![c] = "backup"]
  <2> DEFINE t == NewTask("write", "tracker", c)
  <2>1. t \in Task /\ t.kind = "write" /\ t.owner = "tracker" /\ ~t.begun
    BY NewTaskIs
  <2>2. queue' = [queue EXCEPT ![c] = Append(queue[c], t)]
    BY <1>4
  <2> HIDE DEF t
  <2>a. queue[c] \in Seq(Task) /\ Fits(queue[c], "timer")
    BY <1>0
  <2>b. Append(queue[c], t) \in Seq(Task)
    BY <2>a, <2>1
  <2>3. Append(queue[c], t) \in Seq(Task) /\ Only(c, Append(queue[c], t), "backup")
    BY <1>4, <2>2, <2>b DEF Only
  <2>4. Fits(Append(queue[c], t), "backup")
    BY <1>1, <2>1, <2>a, FitsAppend
  <2>5. /\ HasKind(Append(queue[c], t), "read") => HasKind(queue[c], "read")
        /\ Has1(Append(queue[c], t), "write", "shutdown") => Has1(queue[c], "write", "shutdown")
        /\ Has1(Append(queue[c], t), "delete", "shutdown") => Has1(queue[c], "delete", "shutdown")
    <3>1. t.kind # "read" /\ t.owner # "shutdown"
      BY <2>1
    <3> QED  BY <2>1, <2>a, <3>1, KindsAppend
  <2> QED  BY <1>2, <2>3, <2>4, <2>5, QueueOne
<1> QED  BY <1>3, <1>4 DEF BackupTimer

\* An event of an open working copy.
LEMMA QueueEvent ==
    ASSUME Types, QueueInv, NEW c \in Copy, open[c] = "open",
           Ignored(c) \/ ScheduleBackup(c) \/ DiscardBackup(c),
           modified'[c] => open'[c] = "open", shutdown' = shutdown,
           \A d \in Copy : d # c => open'[d] = open[d] /\ modified'[d] = modified[d]
    PROVE  QueueInv'
<1> DEFINE q == Cancel(queue[c], "tracker")
<1>0. /\ queue[c] \in Seq(Task) /\ Fits(queue[c], pending[c]) /\ ~HasKind(queue[c], "read")
      /\ queue \in [Copy -> Seq(Task)]
      /\ pending \in [Copy -> {"none", "timer", "backup", "discard"}]
  BY DEF Types, QueueInv
<1>1. OneOf(queue[c], "tracker")
  BY <1>0, FitsOneOf
<1>2. \A kind : /\ HasKind(q, kind) => HasKind(queue[c], kind)
                /\ Has1(q, kind, "shutdown") => Has1(queue[c], kind, "shutdown")
  BY <1>0, <1>1, KindsCancel
<1>3. CASE Ignored(c)
  <2>1. queue' = queue /\ pending' = pending
    BY <1>3 DEF Ignored
  <2>2. Only(c, queue[c], pending[c])
    BY <1>0, <2>1 DEF Only
  <2>3. pending[c] \in {"none", "timer", "backup", "discard"}
    BY <1>0
  <2> QED  BY <1>0, <2>2, <2>3, QueueOne
<1>4. CASE ScheduleBackup(c)
  <2>1. Only(c, q, "timer") /\ q \in Seq(Task) /\ Fits(q, "timer")
    BY <1>4, ScheduleIs
  <2> HIDE DEF q
  <2> QED  BY <1>0, <1>2, <2>1, QueueOne
<1>5. CASE DiscardBackup(c)
  <2> DEFINE t == NewTask("delete", "tracker", c)
             r == Append(q, t)
  <2>1. /\ Only(c, r, "discard") /\ r \in Seq(Task) /\ q \in Seq(Task)
        /\ Fits(r, "discard")
    BY <1>5, DiscardIs
  <2>2. t \in Task /\ t.kind = "delete" /\ t.owner = "tracker"
    BY NewTaskIs
  <2> HIDE DEF q, t
  <2>3. t.kind # "read" /\ t.owner # "shutdown"
    BY <2>2
  <2>4. /\ ~HasKind(r, "read")
        /\ Has1(r, "write", "shutdown") => Has1(queue[c], "write", "shutdown")
        /\ Has1(r, "delete", "shutdown") => Has1(queue[c], "delete", "shutdown")
    BY <1>0, <1>2, <2>1, <2>2, <2>3, KindsAppend
  <2> HIDE DEF r
  <2> QED  BY <2>1, <2>4, QueueOne
<1> QED  BY <1>3, <1>4, <1>5

LEMMA QueueResolve ==
    ASSUME Types, QueueInv, NEW c \in Copy, Resolve(c)
    PROVE  QueueInv'
<1> DEFINE q == Tail(queue[c])
           r == Cancel(q, "tracker")
<1>0. /\ queue[c] \in Seq(Task) /\ queue[c] # <<>> /\ Fits(queue[c], pending[c])
      /\ queue \in [Copy -> Seq(Task)]
      /\ pending \in [Copy -> {"none", "timer", "backup", "discard"}]
      /\ shutdown' = shutdown
  BY DEF Types, QueueInv, Resolve, Running
<1>1. queue[c][1].kind = "read" /\ queue[c][1].owner = "copy" /\ 1 \in DOMAIN queue[c]
  <2>1. Head(queue[c]) = queue[c][1] /\ 1 \in DOMAIN queue[c]
    BY <1>0, TailIs
  <2> QED  BY <1>0, <2>1 DEF Resolve, Running, Fits
<1>2. /\ q \in Seq(Task) /\ Fits(q, pending[c])
  BY <1>0, <1>1, FitsTail, TailIs
<1>3. ~HasKind(q, "read")
  <2>1. \A i \in DOMAIN q : i + 1 \in DOMAIN queue[c] /\ q[i] = queue[c][i + 1] /\ i + 1 # 1
    BY <1>0, TailIs
  <2> QED  BY <1>0, <1>1, <2>1 DEF HasKind, Fits
<1>4. /\ \A kind : Has1(q, kind, "shutdown") => Has1(queue[c], kind, "shutdown")
  BY <1>0, KindsTail
<1>5. OneOf(q, "tracker") /\ r \in Seq(Task)
  BY <1>2, FitsOneOf, CancelIs
<1>6. Fits(r, "timer")
  BY <1>2, FitsCancel
<1>7. \A kind : /\ HasKind(r, kind) => HasKind(q, kind)
                /\ Has1(r, kind, "shutdown") => Has1(q, kind, "shutdown")
  BY <1>2, <1>5, KindsCancel
<1>8. /\ open'[c] = "open"
      /\ \A d \in Copy : d # c => open'[d] = open[d] /\ modified'[d] = modified[d]
  BY DEF Types, Resolve
<1>9. \/ queue' = [queue EXCEPT ![c] = r] /\ pending' = [pending EXCEPT ![c] = "timer"]
      \/ queue' = [queue EXCEPT ![c] = q] /\ pending' = pending
  BY DEF Resolve
<1> HIDE DEF q, r
<1>10. CASE queue' = [queue EXCEPT ![c] = r] /\ pending' = [pending EXCEPT ![c] = "timer"]
  <2>1. Only(c, r, "timer")
    BY <1>10 DEF Only
  <2> QED  BY <1>0, <1>3, <1>4, <1>5, <1>6, <1>7, <1>8, <2>1, QueueOne
<1>11. CASE queue' = [queue EXCEPT ![c] = q] /\ pending' = pending
  <2>1. Only(c, q, pending[c]) /\ pending[c] \in {"none", "timer", "backup", "discard"}
    BY <1>0, <1>11 DEF Only
  <2> QED  BY <1>0, <1>2, <1>3, <1>4, <1>8, <2>1, QueueOne
<1> QED  BY <1>9, <1>10, <1>11

LEMMA QueueWorkingCopy ==
    ASSUME Types, QueueInv, NEW c \in Copy, WorkingCopy(c)
    PROVE  QueueInv'
<1> USE DEF copyVars, trackerVars
<1>1. CASE Open(c)
  <2> DEFINE t == NewTask("read", "copy", c)
  <2>0. /\ queue[c] \in Seq(Task) /\ Fits(queue[c], pending[c]) /\ ~HasKind(queue[c], "read")
        /\ pending \in [Copy -> {"none", "timer", "backup", "discard"}]
    BY <1>1 DEF Types, QueueInv, Open
  <2>1. t \in Task /\ t.kind = "read" /\ t.owner = "copy" /\ ~t.begun
    BY NewTaskIs
  <2>2. queue' = [queue EXCEPT ![c] = Append(queue[c], t)] /\ pending' = pending
    BY <1>1 DEF Open
  <2> HIDE DEF t
  <2>3. Append(queue[c], t) \in Seq(Task)
    BY <2>0, <2>1
  <2>4. Only(c, Append(queue[c], t), pending[c])
        /\ pending[c] \in {"none", "timer", "backup", "discard"}
    BY <2>0, <2>2 DEF Only
  <2>5. Fits(Append(queue[c], t), pending[c])
    BY <2>0, <2>1, FitsAppend
  <2>6. t.owner # "shutdown"
    BY <2>1
  <2>7. /\ Has1(Append(queue[c], t), "write", "shutdown") => Has1(queue[c], "write", "shutdown")
        /\ Has1(Append(queue[c], t), "delete", "shutdown") => Has1(queue[c], "delete", "shutdown")
    BY <2>0, <2>1, <2>6, KindsAppend
  <2>8. /\ open'[c] = "opening" /\ ~modified[c] /\ modified' = modified /\ shutdown' = shutdown
        /\ \A d \in Copy : d # c => open'[d] = open[d]
    BY <1>1 DEF Open, Types, QueueInv
  <2> QED  BY <2>3, <2>4, <2>5, <2>7, <2>8, QueueOne
<1>2. CASE Resolve(c)
  BY <1>2, QueueResolve
<1>3. CASE Edit(c)
  <2>1. /\ open[c] = "open" /\ open'[c] = "open" /\ shutdown' = shutdown
        /\ \A d \in Copy : d # c => open'[d] = open[d] /\ modified'[d] = modified[d]
        /\ Ignored(c) \/ ScheduleBackup(c) \/ DiscardBackup(c)
    BY <1>3 DEF Edit, Types
  <2> QED  BY <2>1, QueueEvent
<1>4. CASE Save(c)
  <2>1. /\ open[c] = "open" /\ open'[c] = "open" /\ shutdown' = shutdown
        /\ \A d \in Copy : d # c => open'[d] = open[d] /\ modified'[d] = modified[d]
        /\ Ignored(c) \/ ScheduleBackup(c) \/ DiscardBackup(c)
    BY <1>4 DEF Save, NoLongerDirty, Types, Modified
  <2> QED  BY <2>1, QueueEvent
<1>5. CASE Revert(c)
  <2>1. /\ open[c] = "open" /\ open'[c] = "open" /\ shutdown' = shutdown
        /\ \A d \in Copy : d # c => open'[d] = open[d] /\ modified'[d] = modified[d]
        /\ Ignored(c) \/ ScheduleBackup(c) \/ DiscardBackup(c)
    BY <1>5 DEF Revert, NoLongerDirty, Types, Modified
  <2> QED  BY <2>1, QueueEvent
<1>6. CASE Close(c)
  <2>1. /\ open[c] = "open" /\ ~modified'[c] /\ shutdown' = shutdown
        /\ \A d \in Copy : d # c => open'[d] = open[d] /\ modified'[d] = modified[d]
        /\ Ignored(c) \/ ScheduleBackup(c) \/ DiscardBackup(c)
    BY <1>6 DEF Close, Types
  <2> QED  BY <2>1, QueueEvent
<1> QED  BY <1>1, <1>2, <1>3, <1>4, <1>5, <1>6 DEF WorkingCopy

LEMMA QueueSession ==
    ASSUME Types, QueueInv
    PROVE  /\ ResolveModel => QueueInv'
           /\ ResolveBackupsToRestore => QueueInv'
           /\ \A c \in Copy : RestoreBackup(c) => QueueInv'
           /\ Down => QueueInv'
           /\ Start => QueueInv'
<1> USE DEF copyVars, trackerVars, serviceVars
<1>1. Down => QueueInv'
  BY DEF Down, QueueInv, Fits, HasKind, Has1
<1>2. ASSUME UNCHANGED <<queue, pending, open, modified, shutdown>> PROVE QueueInv'
  BY <1>2 DEF QueueInv
<1> QED
  BY <1>1, <1>2 DEF ResolveModel, ResolveBackupsToRestore, RestoreBackup, Start

\* Neither the shutdown nor the tracker waits for anything in the queue of c.
NoneWaits(c) == \A i \in DOMAIN queue[c] : queue[c][i].owner \notin {"tracker", "shutdown"}

LEMMA NoneWaitsIs ==
    ASSUME Types, QueueInv, SessionInv, suspended,
           shutdown.phase \notin {"backup", "discarding"}, NEW c \in Copy
    PROVE  NoneWaits(c) /\ pending[c] = "none"
<1>1. pending[c] = "none"
  BY DEF SessionInv
<1> QED  BY <1>1, Idle DEF NoneWaits

\* What the shutdown adds to a queue.
LEMMA QueueAdded ==
    ASSUME Types, QueueInv, NEW c \in Copy, NoneWaits(c), NEW kind \in {"write", "delete"}
    PROVE  LET q == Append(queue[c], NewTask(kind, "shutdown", c))
           IN  /\ Fits(q, pending[c])
               /\ HasKind(q, "read") => HasKind(queue[c], "read")
               /\ \A k \in {"write", "delete"} : Has1(q, k, "shutdown") <=> k = kind
<1> DEFINE t == NewTask(kind, "shutdown", c)
<1>1. queue[c] \in Seq(Task) /\ Fits(queue[c], pending[c])
  BY DEF Types, QueueInv
<1>2. t \in Task /\ t.kind = kind /\ t.owner = "shutdown" /\ ~t.begun
  BY NewTaskIs
<1> HIDE DEF t
<1>3. Fits(Append(queue[c], t), pending[c])
  BY <1>1, <1>2, FitsAppend DEF NoneWaits
<1>4. kind # "read" /\ \A k : ~Has1(queue[c], k, "shutdown")
  BY DEF NoneWaits, Has1
<1>5. HasKind(Append(queue[c], t), "read") => HasKind(queue[c], "read")
  BY <1>1, <1>2, <1>4, KindsAppend
<1>6. \A k \in {"write", "delete"} : Has1(Append(queue[c], t), k, "shutdown") <=> k = kind
  BY <1>1, <1>2, <1>4, KindsAppend
<1> QED  BY <1>3, <1>5, <1>6 DEF t

LEMMA QueuePhase ==
    ASSUME Types, QueueInv, shutdown.phase \notin {"backup", "discarding"},
           UNCHANGED <<queue, pending, open>>, \A c \in Copy : modified'[c] => modified[c]
    PROVE  QueueInv'
<1>1. \A c \in Copy : \A k : ~Has1(queue[c], k, "shutdown")
  BY Idle DEF Has1
<1> QED  BY <1>1 DEF QueueInv

LEMMA QueueCancelAll ==
    ASSUME Types, QueueInv, shutdown.phase \notin {"backup", "discarding"},
           CancelBackupOperations, UNCHANGED <<modified, open>>
    PROVE  QueueInv'
<1>1. \A c \in Copy : \A k : ~Has1(queue[c], k, "shutdown")
  BY Idle DEF Has1
<1>2. ASSUME NEW c \in Copy
      PROVE  /\ Fits(queue'[c], pending'[c])
             /\ HasKind(queue'[c], "read") => open'[c] = "opening"
             /\ ~Has1(queue'[c], "write", "shutdown") /\ ~Has1(queue'[c], "delete", "shutdown")
             /\ modified'[c] => open'[c] = "open"
  <2>1. /\ queue[c] \in Seq(Task) /\ queue'[c] = Cancel(queue[c], "tracker")
        /\ OneOf(queue[c], "tracker") /\ pending'[c] = "none"
    BY CancelAllIs DEF CancelBackupOperations
  <2>2. Fits(Cancel(queue[c], "tracker"), "none")
    BY CancelledIs
  <2> QED  BY <1>1, <2>1, <2>2, KindsCancel DEF QueueInv
<1> QED  BY <1>2 DEF QueueInv

LEMMA QueueNoVeto ==
    ASSUME Types, QueueInv, SessionInv, suspended,
           shutdown.phase \notin {"backup", "discarding"}, NEW C \in SUBSET Copy, NoVeto(C),
           UNCHANGED <<open, pending>>, \A c \in Copy : modified'[c] => modified[c]
    PROVE  QueueInv'
<1>1. CASE session # "ready"
  BY <1>1, NoVetoIs, QueuePhase
<1>2. CASE session = "ready"
  <2>1. /\ shutdown'.phase = "discarding"
        /\ \A c \in C : queue'[c] = Append(queue[c], NewTask("delete", "shutdown", c))
        /\ \A c \in Copy \ C : queue'[c] = queue[c]
    BY <1>2, NoVetoIs
  <2>2. ASSUME NEW c \in Copy
        PROVE  /\ Fits(queue'[c], pending'[c])
               /\ HasKind(queue'[c], "read") => open'[c] = "opening"
               /\ ~Has1(queue'[c], "write", "shutdown")
               /\ modified'[c] => open'[c] = "open"
    <3>1. NoneWaits(c)
      BY NoneWaitsIs
    <3>2. CASE c \in C
      BY <2>1, <3>1, <3>2, QueueAdded DEF QueueInv
    <3>3. CASE c \notin C
      BY <2>1, <3>1, <3>3 DEF QueueInv, Has1, NoneWaits
    <3> QED  BY <3>2, <3>3
  <2> QED  BY <2>1, <2>2 DEF QueueInv
<1> QED  BY <1>1, <1>2

LEMMA QueueBackUp ==
    ASSUME Types, QueueInv, SessionInv, suspended,
           shutdown.phase \notin {"backup", "discarding"}, NEW C \in SUBSET Copy,
           HandleModified(C), UNCHANGED <<open, pending, modified>>
    PROVE  QueueInv'
<1>1. PICK toBackup \in {C, {}, C \cap Scratchpad} : BackUp(C, toBackup)
  BY DEF HandleModified
<1>2. toBackup \in SUBSET Copy
  OBVIOUS
<1>3. /\ shutdown'.phase = "backup"
      /\ \A c \in Copy :
            queue'[c] = IF c \in toBackup /\ ~Has(c)
                        THEN Append(queue[c], NewTask("write", "shutdown", c)) ELSE queue[c]
  BY <1>1, <1>2, BackUpIs
<1>4. ASSUME NEW c \in Copy
      PROVE  /\ Fits(queue'[c], pending'[c])
             /\ HasKind(queue'[c], "read") => open'[c] = "opening"
             /\ ~Has1(queue'[c], "delete", "shutdown")
             /\ modified'[c] => open'[c] = "open"
  <2>1. NoneWaits(c)
    BY NoneWaitsIs
  <2>2. CASE c \in toBackup /\ ~Has(c)
    BY <1>3, <2>1, <2>2, QueueAdded DEF QueueInv
  <2>3. CASE ~(c \in toBackup /\ ~Has(c))
    BY <1>3, <2>1, <2>3 DEF QueueInv, Has1, NoneWaits
  <2> QED  BY <2>2, <2>3
<1> QED  BY <1>3, <1>4 DEF QueueInv

LEMMA QueueShutdown ==
    ASSUME Types, QueueInv, SessionInv, Shutdown
    PROVE  QueueInv'
<1> USE DEF diskVars, copyVars, trackerVars, serviceVars, shutdownUnchanged
<1>s. shutdown.phase \notin {"off", "acknowledged"} => suspended
  BY DEF SessionInv
<1>c. shutdown.copies \in SUBSET Copy /\ Modified \in SUBSET Copy
  BY DEF Types, ShutdownType, Modified
<1>1. CASE BeginShutdown
  BY <1>1, QueueCancelAll DEF BeginShutdown
<1>2. CASE DiscardRest
  <2>1. {c \in Copy : model[c] # Unknown} \ Except \in SUBSET Copy
    OBVIOUS
  <2>2. NoVeto({c \in Copy : model[c] # Unknown} \ Except) /\ UNCHANGED <<open, pending, modified>>
        /\ shutdown.phase = "begun"
    BY <1>2 DEF DiscardRest
  <2> QED  BY <1>s, <2>1, <2>2, QueueNoVeto
<1>3. CASE DiscardHome
  BY <1>3, QueuePhase DEF DiscardHome
<1>4. CASE AutoSave
  BY <1>4, QueuePhase DEF AutoSave
<1>5. CASE NoAutoSave
  BY <1>5, <1>s, <1>c, QueueBackUp DEF NoAutoSave
<1>6. CASE AutoSaveEnds
  <2>0. shutdown.phase = "autosave" /\ UNCHANGED <<open, pending, modified>>
    BY <1>6 DEF AutoSaveEnds
  <2>1. CASE Modified = {}
    BY <1>6, <1>s, <1>c, <2>0, <2>1, QueueNoVeto DEF AutoSaveEnds
  <2>2. CASE Modified # {}
    BY <1>6, <1>s, <1>c, <2>0, <2>2, QueueBackUp DEF AutoSaveEnds
  <2> QED  BY <2>1, <2>2
<1>7. CASE BackupEnds
  <2>1. ASSUME NEW c \in Copy
        PROVE  /\ Fits(queue'[c], pending'[c])
               /\ HasKind(queue'[c], "read") => open'[c] = "opening"
               /\ ~Has1(queue'[c], "write", "shutdown") /\ ~Has1(queue'[c], "delete", "shutdown")
               /\ modified'[c] => open'[c] = "open"
    <3>1. /\ queue[c] \in Seq(Task) /\ queue'[c] = Cancel(queue[c], "shutdown")
          /\ OneOf(queue[c], "shutdown") /\ pending' = pending /\ open' = open
          /\ modified' = modified /\ Fits(queue[c], pending[c])
      BY <1>7, CancelAllIs DEF BackupEnds, QueueInv
    <3>2. Fits(Cancel(queue[c], "shutdown"), pending[c])
      BY <3>1, FitsCancel
    <3>3. \A i \in DOMAIN queue'[c] : queue'[c][i].owner # "shutdown"
      BY <3>1, CancelIs
    <3> QED  BY <3>1, <3>2, <3>3, KindsCancel DEF QueueInv, Has1
  <2> QED  BY <2>1 DEF QueueInv
<1>8. CASE ErrorDialog
  BY <1>8, QueuePhase DEF ErrorDialog
<1>9. CASE ConfirmSave
  BY <1>9, QueuePhase DEF ConfirmSave
<1>10. CASE SaveEnds
  <2>0. shutdown.phase = "saving" /\ UNCHANGED <<open, pending, modified>>
    BY <1>10 DEF SaveEnds
  <2>1. CASE UNCHANGED queue
    BY <2>0, <2>1, QueuePhase
  <2>2. CASE NoVeto(shutdown.copies)
    BY <1>s, <1>c, <2>0, <2>2, QueueNoVeto
  <2> QED  BY <1>10, <2>1, <2>2 DEF SaveEnds
<1>11. CASE ConfirmDontSave
  <2>1. /\ shutdown.phase = "confirm" /\ UNCHANGED <<open, pending>> /\ NoVeto(shutdown.copies)
        /\ \A c \in Copy : modified'[c] => modified[c]
    BY <1>11 DEF ConfirmDontSave
  <2> QED  BY <1>s, <1>c, <2>1, QueueNoVeto
<1>12. CASE ConfirmCancel
  BY <1>12, QueuePhase DEF ConfirmCancel
<1>13. CASE DiscardEnds
  <2>1. ASSUME NEW c \in Copy
        PROVE  /\ Fits(queue'[c], pending'[c])
               /\ HasKind(queue'[c], "read") => open'[c] = "opening"
               /\ ~Has1(queue'[c], "write", "shutdown") /\ ~Has1(queue'[c], "delete", "shutdown")
               /\ modified'[c] => open'[c] = "open"
    <3>1. /\ queue[c] \in Seq(Task) /\ queue'[c] = Disowned(queue[c])
          /\ pending' = pending /\ open' = open
          /\ modified' = modified /\ Fits(queue[c], pending[c])
      BY <1>13, DisownAllIs DEF DiscardEnds, QueueInv
    <3>2. Fits(Disowned(queue[c]), pending[c])
      BY <3>1, FitsDisowned
    <3>3. \A i \in DOMAIN queue'[c] : /\ i \in DOMAIN queue[c]
                                      /\ queue'[c][i].owner # "shutdown"
                                      /\ queue'[c][i].kind = queue[c][i].kind
      <4>1. /\ DOMAIN Disowned(queue[c]) = DOMAIN queue[c]
            /\ \A i \in DOMAIN queue[c] :
                  /\ Disowned(queue[c])[i].kind = queue[c][i].kind
                  /\ Disowned(queue[c])[i].owner = IF queue[c][i].owner = "shutdown" THEN "nobody"
                                                   ELSE queue[c][i].owner
        BY <3>1, DisownedIs
      <4>2. \A i \in DOMAIN queue[c] : Disowned(queue[c])[i].owner # "shutdown"
        BY <4>1
      <4> QED  BY <3>1, <4>1, <4>2
    <3> QED  BY <3>1, <3>2, <3>3 DEF QueueInv, Has1, HasKind
  <2> QED  BY <2>1 DEF QueueInv
<1>14. CASE WillShutdown
  BY <1>14, QueueCancelAll DEF WillShutdown
<1>15. CASE Exit
  BY <1>15, QueueSession DEF Exit
<1>16. CASE ConfirmFails
  BY <1>16, ConfirmFailsIs, QueuePhase
<1> QED
  BY <1>1, <1>2, <1>3, <1>4, <1>5, <1>6, <1>7, <1>8, <1>9, <1>10, <1>11, <1>12, <1>13, <1>14,
     <1>15, <1>16 DEF Shutdown

LEMMA QueueStep ==
    ASSUME Types, QueueInv, SessionInv, [Next]_vars
    PROVE  QueueInv'
<1>1. CASE UNCHANGED vars
  BY <1>1 DEF QueueInv, vars, copyVars, serviceVars, trackerVars
<1>2. CASE Next
  BY <1>2, QueueTimer, QueueOperation, QueueWorkingCopy, QueueSession, QueueShutdown
     DEF Next, Crash
<1> QED  BY <1>1, <1>2

-----------------------------------------------------------------------------
(* The sessions *)

LEMMA Up ==
    ASSUME Types, QueueInv, SessionInv, NEW c \in Copy,
           BackupTimer(c) \/ Operation(c) \/ WorkingCopy(c)
    PROVE  session \notin {"down", "starting"}
<1>1. ASSUME session \in {"down", "starting"} PROVE FALSE
  <2>1. queue[c] = <<>> /\ open[c] = "closed" /\ pending[c] = "none" /\ ~modified[c]
    BY <1>1 DEF SessionInv, QueueInv
  <2>2. ~BackupTimer(c)
    BY <2>1 DEF BackupTimer
  <2>3. ~Operation(c)
    BY <2>1 DEF Operation, SkipWrite, StartWrite, EndWrite, StartDelete, EndDelete,
                OperationFails, Running
  <2>4. ~WorkingCopy(c)
    BY <1>1, <2>1 DEF WorkingCopy, Open, Resolve, Edit, Save, Revert, Close, Free, Running, Modified
  <2> QED  BY <2>2, <2>3, <2>4
<1> QED  BY <1>1

\* A step of a working copy, its backups or its operations.
LEMMA SessionOne ==
    ASSUME Types, QueueInv, SessionInv, session \notin {"down", "starting"},
           UNCHANGED <<session, suspended>>, shutdown'.phase = shutdown.phase,
           suspended => \A c \in Copy : pending'[c] = "none"
    PROVE  SessionInv'
BY DEF SessionInv

LEMMA SessionEnds ==
    ASSUME Types, QueueInv, SessionInv, NEW c \in Copy, NEW ok \in BOOLEAN, queue[c] # <<>>,
           Ends(c, ok)
    PROVE  /\ shutdown'.phase = shutdown.phase /\ shutdown'.copies = shutdown.copies
           /\ shutdown'.saving = shutdown.saving
           /\ suspended => \A d \in Copy : pending'[d] = "none"
<1> DEFINE t == queue[c][1]
           p == IF t.owner = "tracker" THEN "none" ELSE pending[c]
<1>0. shutdown \in ShutdownType /\ pending \in [Copy -> {"none", "timer", "backup", "discard"}]
  BY DEF Types
<1>1. /\ Only(c, Tail(queue[c]), p)
      /\ shutdown' = IF t.owner # "shutdown" \/ t.kind = "delete" THEN shutdown
                     ELSE IF ok THEN [shutdown EXCEPT !.backups = @ \cup {c}]
                     ELSE [shutdown EXCEPT !.failed = TRUE]
  BY EndsIs
<1>2. /\ shutdown'.phase = shutdown.phase /\ shutdown'.copies = shutdown.copies
      /\ shutdown'.saving = shutdown.saving
  BY <1>0, <1>1 DEF ShutdownType
<1>3. suspended => \A d \in Copy : pending'[d] = "none"
  BY <1>0, <1>1 DEF SessionInv, Only
<1> QED  BY <1>2, <1>3

LEMMA SessionCopy ==
    ASSUME Types, QueueInv, SessionInv, NEW c \in Copy,
           BackupTimer(c) \/ Operation(c) \/ WorkingCopy(c)
    PROVE  SessionInv'
<1> USE DEF copyVars, trackerVars, serviceVars
<1>0. session \notin {"down", "starting"} /\ (suspended => pending[c] = "none")
      /\ (suspended => \A d \in Copy : pending[d] = "none")
  BY Up DEF SessionInv
<1>1. CASE BackupTimer(c)
  <2>1. pending[c] = "timer" /\ UNCHANGED <<session, suspended, shutdown>>
    BY <1>1 DEF BackupTimer
  <2> QED  BY <1>0, <2>1, SessionOne
<1>2. CASE Operation(c)
  <2>1. CASE \E ok \in BOOLEAN : Ends(c, ok)
    <3>1. queue[c] # <<>> /\ UNCHANGED <<session, suspended>>
      BY <1>2 DEF Operation, SkipWrite, StartWrite, EndWrite, StartDelete, EndDelete,
                  OperationFails, Running
    <3> QED  BY <1>0, <2>1, <3>1, SessionEnds, SessionOne
  <2>2. CASE StartWrite(c) \/ StartDelete(c)
    <3>1. UNCHANGED <<session, suspended, shutdown, pending>>
      BY <2>2 DEF StartWrite, StartDelete
    <3> QED  BY <1>0, <3>1, SessionOne
  <2> QED  BY <1>2, <2>1, <2>2 DEF Operation, SkipWrite, EndWrite, EndDelete, OperationFails
<1>3. CASE WorkingCopy(c)
  <2>1. UNCHANGED <<session, suspended, shutdown>>
    BY <1>3 DEF WorkingCopy, Open, Resolve, Edit, Save, Revert, Close
  <2>2. suspended => pending' = pending
    BY <1>3 DEF WorkingCopy, Open, Resolve, Edit, Save, Revert, Close, NoLongerDirty, Ignored
  <2> QED  BY <1>0, <2>1, <2>2, SessionOne
<1> QED  BY <1>1, <1>2, <1>3

LEMMA SessionSession ==
    ASSUME Types, QueueInv, SessionInv
    PROVE  /\ ResolveModel => SessionInv'
           /\ ResolveBackupsToRestore => SessionInv'
           /\ \A c \in Copy : RestoreBackup(c) => SessionInv'
           /\ Down => SessionInv'
           /\ Start => SessionInv'
<1> USE DEF copyVars, trackerVars, serviceVars
<1>1. Down => SessionInv'
  BY NoShutdownIs DEF Down, SessionInv
<1>2. Start => SessionInv'
  BY NoShutdownIs DEF Start, SessionInv
<1>3. ASSUME UNCHANGED <<pending, suspended, shutdown>>, session' \in {"resolved", "ready"}
      PROVE  SessionInv'
  BY <1>3 DEF SessionInv
<1> QED
  BY <1>1, <1>2, <1>3 DEF ResolveModel, ResolveBackupsToRestore, RestoreBackup

LEMMA SessionShutdown ==
    ASSUME Types, QueueInv, SessionInv, Shutdown
    PROVE  SessionInv'
<1> USE DEF diskVars, copyVars, trackerVars, serviceVars, shutdownUnchanged
<1>c. /\ shutdown.copies \in SUBSET Copy /\ Modified \in SUBSET Copy
      /\ shutdown \in ShutdownType /\ suspended \in BOOLEAN
  BY DEF Types, ShutdownType, Modified
<1>p. \A p \in Phase : LET s == [shutdown EXCEPT !.phase = p]
                       IN  s.phase = p /\ s.copies = shutdown.copies
  BY EnteredIs
<1>q. /\ "acknowledged" \in Phase /\ "leaving" \in Phase
  BY DEF Phase
\* Before the backups are known, a shutdown has nothing to ask.
<1>u. /\ shutdown.phase \notin {"off", "begun", "acknowledged", "leaving"} =>
            session \in {"resolved", "ready"}
      /\ shutdown.copies # {} => session \in {"resolved", "ready"}
      /\ shutdown.phase # "off" => session # "down"
  BY NoShutdownIs DEF SessionInv, Types
<1>s. suspended <=> shutdown.phase \notin {"off", "acknowledged"}
  BY DEF SessionInv
<1>n. ASSUME suspended => \A c \in Copy : pending'[c] = "none",
             suspended' <=> shutdown'.phase \notin {"off", "acknowledged"},
             suspended' => suspended, session' = session, session \in {"resolved", "ready"}
      PROVE  SessionInv'
  BY <1>n DEF SessionInv
<1>v. ASSUME UNCHANGED <<pending, session>>, shutdown.phase # "off", suspended, Veto
             \/ Acknowledge, session \in {"resolved", "ready"}
      PROVE  SessionInv'
  <2>1. /\ suspended' <=> shutdown'.phase \notin {"off", "acknowledged"}
        /\ suspended' = FALSE
    BY <1>v, <1>p, <1>q, NoShutdownIs DEF Veto, Acknowledge, Enters
  <2> QED  BY <1>v, <1>n, <2>1 DEF SessionInv
<1>w. ASSUME NEW C \in SUBSET Copy, NoVeto(C), UNCHANGED <<pending, session>>, suspended,
             session \in {"resolved", "ready"}
      PROVE  SessionInv'
  <2>1. /\ suspended' <=> shutdown'.phase \notin {"off", "acknowledged"}
        /\ suspended' => suspended
    BY <1>w, NoVetoIs
  <2> QED  BY <1>w, <1>n, <2>1 DEF SessionInv
<1>h. ASSUME NEW C \in SUBSET Copy, HandleModified(C), UNCHANGED <<pending, session, suspended>>,
             suspended, session \in {"resolved", "ready"}
      PROVE  SessionInv'
  <2>1. PICK toBackup \in {C, {}, C \cap Scratchpad} : BackUp(C, toBackup)
    BY <1>h DEF HandleModified
  <2>2. shutdown'.phase = "backup"
    BY <2>1, BackUpIs
  <2> QED  BY <1>h, <1>n, <2>2 DEF SessionInv
<1>1. CASE BeginShutdown
  <2>1. /\ shutdown'.phase = "begun" /\ shutdown'.copies = Modified /\ suspended' = TRUE
        /\ session' = session /\ session # "down" /\ pending' = [c \in Copy |-> "none"]
        /\ UNCHANGED <<model, open>>
    BY <1>1, NoShutdownIs DEF BeginShutdown, CancelBackupOperations, NoShutdown
  <2>2. ASSUME session \in {"down", "starting"}
        PROVE  Modified = {} /\ \A c \in Copy : queue'[c] = <<>>
    <3>1. \A c \in Copy : queue[c] = <<>> /\ open[c] = "closed"
      BY <2>2 DEF SessionInv
    <3>2. \A c \in Copy : queue'[c] = Cancel(<<>>, "tracker")
      BY <1>1, <3>1 DEF BeginShutdown, CancelBackupOperations
    <3>3. Cancel(<<>>, "tracker") = <<>>
      BY DEF Cancel, OperationOf
    <3> QED  BY <3>1, <3>2, <3>3 DEF Modified
  <2> QED  BY <2>1, <2>2 DEF SessionInv
<1>2. CASE DiscardRest
  <2>1. {c \in Copy : model[c] # Unknown} \ Except \in SUBSET Copy
    OBVIOUS
  <2>2. /\ NoVeto({c \in Copy : model[c] # Unknown} \ Except)
        /\ UNCHANGED <<model, open, pending, modified, session>> /\ shutdown.phase = "begun"
    BY <1>2 DEF DiscardRest
  <2>3. CASE session = "ready"
    BY <1>s, <1>w, <2>1, <2>2, <2>3
  <2>4. CASE session # "ready"
    <3>1. /\ shutdown'.phase = "acknowledged" /\ shutdown'.copies = shutdown.copies
          /\ suspended' = FALSE /\ queue' = queue
      BY <2>1, <2>2, <2>4, NoVetoIs
    <3>2. session # "down"
      BY <1>u, <2>2
    <3> QED  BY <2>2, <3>1, <3>2 DEF SessionInv
  <2> QED  BY <2>3, <2>4
<1>3. CASE DiscardHome
  <2>1. /\ session = "ready" /\ session' = session /\ suspended' = FALSE
        /\ shutdown'.phase = "acknowledged"
    BY <1>3, <1>p, <1>q DEF DiscardHome, Acknowledge, Enters
  <2> QED  BY <2>1 DEF SessionInv
<1>4. CASE AutoSave
  <2>1. /\ session \in {"resolved", "ready"} /\ suspended
        /\ UNCHANGED <<session, suspended, pending>>
    BY <1>4, <1>u, <1>s DEF AutoSave
  <2>2. shutdown'.phase = "autosave"
    BY <1>4, <1>c DEF AutoSave, ShutdownType
  <2> QED  BY <1>n, <2>1, <2>2 DEF SessionInv
<1>5. CASE NoAutoSave
  BY <1>5, <1>c, <1>u, <1>s, <1>h DEF NoAutoSave
<1>6. CASE AutoSaveEnds
  <2>0. /\ shutdown.phase = "autosave" /\ UNCHANGED <<pending, session>> /\ suspended
        /\ session \in {"resolved", "ready"}
    BY <1>6, <1>u, <1>s DEF AutoSaveEnds
  <2>1. CASE Modified = {}
    BY <1>6, <1>c, <1>w, <2>0, <2>1 DEF AutoSaveEnds
  <2>2. CASE Modified # {}
    BY <1>6, <1>c, <1>h, <2>0, <2>2 DEF AutoSaveEnds
  <2> QED  BY <2>1, <2>2
<1>7. CASE BackupEnds
  <2>0. /\ shutdown.phase = "backup" /\ UNCHANGED <<pending, session>> /\ suspended
        /\ session \in {"resolved", "ready"}
    BY <1>7, <1>u, <1>s DEF BackupEnds
  <2>1. CASE shutdown.backups = shutdown.copies
    BY <1>7, <1>v, <2>0, <2>1 DEF BackupEnds
  <2>2. CASE shutdown.backups # shutdown.copies
    <3>1. suspended' = suspended /\ shutdown'.phase \in {"error", "confirm"}
      BY <1>7, <1>c, <2>2 DEF BackupEnds, ShutdownType
    <3> QED  BY <1>n, <2>0, <3>1 DEF SessionInv
  <2> QED  BY <2>1, <2>2
<1>8. CASE ErrorDialog
  BY <1>8, <1>u, <1>s, <1>v DEF ErrorDialog
<1>9. CASE ConfirmSave
  <2>1. /\ session \in {"resolved", "ready"} /\ suspended
        /\ UNCHANGED <<session, suspended, pending>>
    BY <1>9, <1>u, <1>s DEF ConfirmSave
  <2>2. shutdown'.phase = "saving"
    BY <1>9, <1>c DEF ConfirmSave, ShutdownType
  <2> QED  BY <1>n, <2>1, <2>2 DEF SessionInv
<1>10. CASE SaveEnds
  <2>0. /\ shutdown.phase = "saving" /\ UNCHANGED <<pending, session>> /\ suspended
        /\ session \in {"resolved", "ready"} /\ (Veto \/ NoVeto(shutdown.copies))
    BY <1>10, <1>u, <1>s DEF SaveEnds
  <2> QED  BY <1>c, <1>v, <1>w, <2>0
<1>11. CASE ConfirmDontSave
  BY <1>11, <1>c, <1>u, <1>s, <1>w DEF ConfirmDontSave
<1>12. CASE ConfirmCancel
  BY <1>12, <1>u, <1>s, <1>v DEF ConfirmCancel
<1>13. CASE DiscardEnds
  BY <1>13, <1>u, <1>s, <1>v DEF DiscardEnds
<1>14. CASE WillShutdown
  <2>1. /\ shutdown'.phase = "leaving" /\ shutdown'.copies = shutdown.copies /\ suspended' = TRUE
        /\ session' = session /\ session # "down" /\ pending' = [c \in Copy |-> "none"]
        /\ UNCHANGED <<model, open>>
    BY <1>14, <1>p, <1>q, <1>u DEF WillShutdown, CancelBackupOperations, Enters
  <2>2. ASSUME session \in {"down", "starting"}
        PROVE  \A c \in Copy : queue'[c] = <<>>
    <3>1. \A c \in Copy : queue[c] = <<>>
      BY <2>2 DEF SessionInv
    <3>2. \A c \in Copy : queue'[c] = Cancel(<<>>, "tracker")
      BY <1>14, <3>1 DEF WillShutdown, CancelBackupOperations
    <3>3. Cancel(<<>>, "tracker") = <<>>
      BY DEF Cancel, OperationOf
    <3> QED  BY <3>1, <3>2, <3>3
  <2> QED  BY <2>1, <2>2 DEF SessionInv
<1>15. CASE Exit
  BY <1>15, SessionSession DEF Exit
<1>16. CASE ConfirmFails
  BY <1>16, <1>n, <1>s, <1>u, ConfirmFailsIs DEF SessionInv
<1> QED
  BY <1>1, <1>2, <1>3, <1>4, <1>5, <1>6, <1>7, <1>8, <1>9, <1>10, <1>11, <1>12, <1>13, <1>14,
     <1>15, <1>16 DEF Shutdown

LEMMA SessionStep ==
    ASSUME Types, QueueInv, SessionInv, [Next]_vars
    PROVE  SessionInv'
<1>1. CASE UNCHANGED vars
  BY <1>1 DEF SessionInv, vars, copyVars, serviceVars, trackerVars
<1>2. CASE Next
  BY <1>2, SessionCopy, SessionSession, SessionShutdown DEF Next, Crash
<1> QED  BY <1>1, <1>2

-----------------------------------------------------------------------------
(* The model and the files *)

LEMMA BegunCancel ==
    ASSUME NEW q \in Seq(Task), NEW o \in {"tracker", "shutdown"}, OneOf(q, o), NEW kind
    PROVE  Begun(Cancel(q, o), kind) <=> Begun(q, kind)
<1>1. o # "nobody"
  OBVIOUS
<1>2. /\ Cancel(q, o) = <<>> <=> q = <<>>
      /\ q # <<>> => /\ Cancel(q, o)[1].kind = q[1].kind
                     /\ Cancel(q, o)[1].begun = q[1].begun
  BY <1>1, CancelIs
<1> QED  BY <1>2 DEF Begun

LEMMA BegunAppend ==
    ASSUME NEW q \in Seq(Task), NEW t \in Task, ~t.begun, NEW kind
    PROVE  Begun(Append(q, t), kind) <=> Begun(q, kind)
BY AppendIs DEF Begun

LEMMA BegunDisowned ==
    ASSUME NEW q \in Seq(Task), NEW kind
    PROVE  Begun(Disowned(q), kind) <=> Begun(q, kind)
<1>1. /\ Disowned(q) = <<>> <=> q = <<>>
      /\ q # <<>> => 1 \in DOMAIN q
      /\ \A i \in DOMAIN q :
            Disowned(q)[i].kind = q[i].kind /\ Disowned(q)[i].begun = q[i].begun
  BY DisownedIs
<1> QED  BY <1>1 DEF Begun

LEMMA BegunTail ==
    ASSUME NEW q \in Seq(Task), NEW p, q # <<>>, Fits(q, p), NEW kind
    PROVE  ~Begun(Tail(q), kind)
<1>1. \A i \in DOMAIN Tail(q) : i + 1 \in DOMAIN q /\ Tail(q)[i] = q[i + 1] /\ i + 1 # 1
  BY TailIs
<1>2. Tail(q) # <<>> => 1 \in DOMAIN Tail(q)
  BY TailIs
<1> QED  BY <1>1, <1>2 DEF Fits, Begun

\* Nothing begins or ends.
LEMMA StepKeep ==
    ASSUME Types, QueueInv, StepInv, UNCHANGED <<model, disk>>,
           \A c \in Copy : \A kind \in {"write", "delete"} :
              Begun(queue'[c], kind) <=> Begun(queue[c], kind),
           session' \in {"resolved", "ready"}
              /\ shutdown'.phase \notin {"acknowledged", "leaving"} =>
              session \in {"resolved", "ready"}
              /\ shutdown.phase \notin {"acknowledged", "leaving"}
    PROVE  StepInv'
BY DEF StepInv

LEMMA StepOne ==
    ASSUME Types, QueueInv, StepInv, NEW c \in Copy, UNCHANGED session,
           shutdown'.phase = shutdown.phase,
           session \in {"resolved", "ready"}
              /\ shutdown.phase \notin {"acknowledged", "leaving"} =>
              /\ model'[c] # Unknown => disk'[c] # Missing \/ Begun(queue'[c], "delete")
              /\ disk'[c] >= 0 => model'[c] # Unknown
              /\ Begun(queue'[c], "write") => disk'[c] = Empty
              /\ Begun(queue'[c], "delete") => disk'[c] = Missing,
           \A d \in Copy : d # c => /\ queue'[d] = queue[d] /\ model'[d] = model[d]
                                    /\ disk'[d] = disk[d]
    PROVE  StepInv'
<1>1. ASSUME session \in {"resolved", "ready"},
             shutdown.phase \notin {"acknowledged", "leaving"}, NEW d \in Copy
      PROVE  /\ model'[d] # Unknown => disk'[d] # Missing \/ Begun(queue'[d], "delete")
             /\ disk'[d] >= 0 => model'[d] # Unknown
             /\ Begun(queue'[d], "write") => disk'[d] = Empty
             /\ Begun(queue'[d], "delete") => disk'[d] = Missing
  <2>1. CASE d = c
    BY <1>1, <2>1
  <2>2. CASE d # c
    BY <1>1, <2>2 DEF StepInv
  <2> QED  BY <2>1, <2>2
<1> QED  BY <1>1 DEF StepInv

LEMMA StepOperation ==
    ASSUME Types, QueueInv, SessionInv, StepInv, NEW c \in Copy, Operation(c)
    PROVE  StepInv'
<1> USE DEF copyVars, trackerVars
<1>0. /\ queue[c] \in Seq(Task) /\ Fits(queue[c], pending[c]) /\ disk[c] \in Empty..MaxText
      /\ model \in [Copy -> Unknown..MaxText] /\ disk \in [Copy -> Empty..MaxText]
      /\ MaxText \in Nat
  BY BoundAssumption DEF Types, QueueInv
<1>1. queue[c] # <<>> /\ Head(queue[c]) = queue[c][1] /\ queue[c][1] \in Task
  <2>1. queue[c] # <<>>
    BY DEF Operation, SkipWrite, StartWrite, EndWrite, StartDelete, EndDelete, OperationFails,
           Running
  <2> QED  BY <1>0, <2>1, TailIs
<1>e. ASSUME NEW ok \in BOOLEAN, Ends(c, ok)
      PROVE  /\ queue'[c] = Tail(queue[c]) /\ \A d \in Copy : d # c => queue'[d] = queue[d]
             /\ \A kind : ~Begun(queue'[c], kind)
             /\ shutdown'.phase = shutdown.phase
  <2>1. queue' = [queue EXCEPT ![c] = Tail(queue[c])] /\ queue \in [Copy -> Seq(Task)]
    BY <1>1, <1>e DEF Ends, Types
  <2>2. shutdown'.phase = shutdown.phase
    BY <1>1, <1>e, SessionEnds
  <2> QED  BY <1>0, <1>1, <2>1, <2>2, BegunTail
<1>b. ASSUME Begin(c)
      PROVE  /\ \A d \in Copy : d # c => queue'[d] = queue[d]
             /\ \A kind : Begun(queue'[c], kind) <=> queue[c][1].kind = kind
  <2> DEFINE q == [queue[c] EXCEPT ![1].begun = TRUE]
  <2>1. queue'[c] = q /\ \A d \in Copy : d # c => queue'[d] = queue[d]
    BY <1>1, <1>b, BegunIs
  <2>2. q # <<>> /\ q[1].begun /\ q[1].kind = queue[c][1].kind
    BY <1>0, <1>1, BeginIs
  <2> HIDE DEF q
  <2> QED  BY <2>1, <2>2 DEF Begun
<1>i. ASSUME session \in {"resolved", "ready"},
             shutdown.phase \notin {"acknowledged", "leaving"}
      PROVE  /\ model[c] # Unknown => disk[c] # Missing \/ Begun(queue[c], "delete")
             /\ disk[c] >= 0 => model[c] # Unknown
             /\ Begun(queue[c], "write") => disk[c] = Empty
             /\ Begun(queue[c], "delete") => disk[c] = Missing
  BY <1>i DEF StepInv
<1>2. CASE SkipWrite(c)
  <2>1. ~Begun(queue[c], "delete") /\ UNCHANGED <<disk, model, session>>
    BY <1>1, <1>2 DEF SkipWrite, Running, Begun, diskVars
  <2> QED  BY <1>2, <1>e, <1>i, <2>1, StepOne DEF SkipWrite
<1>3. CASE StartWrite(c)
  <2>1. /\ disk'[c] = Empty /\ UNCHANGED <<model, session, shutdown>>
        /\ \A d \in Copy : d # c => disk'[d] = disk[d]
        /\ queue[c][1].kind = "write" /\ Begin(c)
    BY <1>0, <1>1, <1>3 DEF StartWrite, Running
  <2>2. Empty # Missing /\ ~(Empty >= 0)
    BY DEF Empty, Missing
  <2> QED  BY <1>b, <2>1, <2>2, StepOne
<1>4. CASE EndWrite(c)
  <2>1. /\ queue[c][1].kind = "write" /\ queue[c][1].begun /\ Ends(c, TRUE)
        /\ UNCHANGED session
        /\ disk' = [disk EXCEPT ![c] = IF @ = Missing THEN Missing ELSE queue[c][1].text]
        /\ model' = [model EXCEPT ![c] = queue[c][1].version]
    BY <1>1, <1>4 DEF EndWrite, Running
  <2>2. /\ disk'[c] = IF disk[c] = Missing THEN Missing ELSE queue[c][1].text
        /\ model'[c] = queue[c][1].version
        /\ \A d \in Copy : d # c => disk'[d] = disk[d] /\ model'[d] = model[d]
    BY <1>0, <2>1
  <2>3. Begun(queue[c], "write")
    BY <1>0, <1>1, <2>1 DEF Task, Begun
  <2>4. Empty # Missing /\ \A n \in 0..MaxText : n # Missing /\ n # Unknown
    BY <1>0 DEF Empty, Missing, Unknown
  <2>5. queue[c][1].text \in 0..MaxText /\ queue[c][1].version \in 0..MaxText
    BY <1>1 DEF Task
  <2>6. \A d \in Copy : d # c => queue'[d] = queue[d] /\ disk'[d] = disk[d] /\ model'[d] = model[d]
    BY <1>e, <2>1, <2>2
  <2>7. ASSUME session \in {"resolved", "ready"},
               shutdown.phase \notin {"acknowledged", "leaving"}
        PROVE  /\ model'[c] # Unknown /\ disk'[c] # Missing
               /\ ~Begun(queue'[c], "write") /\ ~Begun(queue'[c], "delete")
    <3>1. disk[c] = Empty
      BY <1>i, <2>3, <2>7
    <3>2. disk'[c] = queue[c][1].text
      BY <2>2, <2>4, <3>1
    <3> QED  BY <1>e, <2>1, <2>2, <2>4, <2>5, <3>2
  <2>8. UNCHANGED session /\ shutdown'.phase = shutdown.phase
    BY <1>e, <2>1
  <2> QED  BY <2>6, <2>7, <2>8, StepOne
<1>5. CASE StartDelete(c)
  <2>1. /\ disk'[c] = Missing /\ UNCHANGED <<model, session, shutdown>>
        /\ \A d \in Copy : d # c => disk'[d] = disk[d]
        /\ queue[c][1].kind = "delete" /\ Begin(c)
    BY <1>0, <1>1, <1>5 DEF StartDelete, Running
  <2>2. ~(Missing >= 0)
    BY DEF Missing
  <2> QED  BY <1>b, <2>1, <2>2, StepOne
<1>6. CASE EndDelete(c)
  <2>1. /\ queue[c][1].kind = "delete" /\ queue[c][1].begun /\ Ends(c, TRUE)
        /\ UNCHANGED <<disk, session>> /\ model' = [model EXCEPT ![c] = Unknown]
    BY <1>1, <1>6 DEF EndDelete, Running, diskVars
  <2>2. /\ model'[c] = Unknown /\ \A d \in Copy : d # c => model'[d] = model[d]
        /\ Begun(queue[c], "delete")
    BY <1>0, <1>1, <2>1 DEF Begun
  <2>3. ~(Missing >= 0)
    BY DEF Missing
  <2> QED  BY <1>e, <1>i, <2>1, <2>2, <2>3, StepOne
<1>7. CASE OperationFails(c)
  <2>1. ~Begun(queue[c], "delete") /\ UNCHANGED <<disk, model, session>> /\ Ends(c, FALSE)
    BY <1>1, <1>7 DEF OperationFails, Running, Begun, diskVars
  <2> QED  BY <1>e, <1>i, <2>1, StepOne
<1> QED  BY <1>2, <1>3, <1>4, <1>5, <1>6, <1>7 DEF Operation

\* Steps of the tracker and of a working copy: nothing begins, only a read ends.
LEMMA BegunEvent ==
    ASSUME Types, QueueInv, NEW c \in Copy, NEW kind,
           Ignored(c) \/ ScheduleBackup(c) \/ DiscardBackup(c), NEW d \in Copy
    PROVE  Begun(queue'[d], kind) <=> Begun(queue[d], kind)
<1> DEFINE q == Cancel(queue[c], "tracker")
<1>0. queue \in [Copy -> Seq(Task)] /\ queue[c] \in Seq(Task) /\ OneOf(queue[c], "tracker")
  BY FitsOneOf DEF Types, QueueInv
<1>1. Begun(q, kind) <=> Begun(queue[c], kind)
  BY <1>0, BegunCancel
<1>2. CASE Ignored(c)
  BY <1>2 DEF Ignored
<1>3. CASE ScheduleBackup(c)
  <2>1. queue' = [queue EXCEPT ![c] = q]
    BY <1>3 DEF ScheduleBackup
  <2> HIDE DEF q
  <2> QED  BY <1>0, <1>1, <2>1
<1>4. CASE DiscardBackup(c)
  <2> DEFINE t == NewTask("delete", "tracker", c)
  <2>1. t \in Task /\ ~t.begun
    BY NewTaskIs
  <2>2. queue' = [queue EXCEPT ![c] = Append(q, t)] /\ q \in Seq(Task)
    BY <1>4, CancelledIs DEF DiscardBackup
  <2> HIDE DEF q, t
  <2>3. Begun(Append(q, t), kind) <=> Begun(q, kind)
    BY <2>1, <2>2, BegunAppend
  <2> QED  BY <1>0, <1>1, <2>2, <2>3
<1> QED  BY <1>2, <1>3, <1>4

LEMMA StepCopy ==
    ASSUME Types, QueueInv, SessionInv, StepInv, NEW c \in Copy, BackupTimer(c) \/ WorkingCopy(c)
    PROVE  StepInv'
<1> USE DEF diskVars
<1>0. /\ UNCHANGED <<model, disk, session, shutdown>>
      /\ queue \in [Copy -> Seq(Task)] /\ queue[c] \in Seq(Task) /\ Fits(queue[c], pending[c])
  BY DEF BackupTimer, WorkingCopy, Open, Resolve, Edit, Save, Revert, Close, NoLongerDirty,
         Types, QueueInv
<1>k. SUFFICES ASSUME NEW d \in Copy, NEW kind \in {"write", "delete"}
      PROVE  Begun(queue'[d], kind) <=> Begun(queue[d], kind)
  BY <1>0, StepKeep
<1>1. CASE UNCHANGED queue
  BY <1>1
<1>2. CASE \E t \in Task : ~t.begun /\ queue' = [queue EXCEPT ![c] = Append(queue[c], t)]
  BY <1>0, <1>2, BegunAppend
<1>3. CASE Ignored(c) \/ ScheduleBackup(c) \/ DiscardBackup(c)
  BY <1>3, BegunEvent
<1>4. CASE Resolve(c)
  <2>1. queue[c] # <<>> /\ ~Begun(queue[c], kind)
    BY <1>0, <1>4, TailIs DEF Resolve, Running, Begun
  <2>2. Tail(queue[c]) \in Seq(Task) /\ OneOf(Tail(queue[c]), "tracker")
    BY <1>0, <2>1, TailIs, FitsTail, FitsOneOf
  <2>3. /\ ~Begun(Tail(queue[c]), kind) /\ ~Begun(Cancel(Tail(queue[c]), "tracker"), kind)
    BY <1>0, <2>1, <2>2, BegunTail, BegunCancel
  <2>4. \/ queue' = [queue EXCEPT ![c] = Cancel(Tail(queue[c]), "tracker")]
        \/ queue' = [queue EXCEPT ![c] = Tail(queue[c])]
    BY <1>4 DEF Resolve
  <2> QED  BY <1>0, <2>1, <2>3, <2>4
<1>5. CASE BackupTimer(c)
  <2>1. NewTask("write", "tracker", c) \in Task /\ ~NewTask("write", "tracker", c).begun
    BY NewTaskIs
  <2> QED  BY <1>1, <1>2, <1>5, <2>1 DEF BackupTimer
<1>6. CASE Open(c)
  <2>1. NewTask("read", "copy", c) \in Task /\ ~NewTask("read", "copy", c).begun
    BY NewTaskIs
  <2> QED  BY <1>2, <1>6, <2>1 DEF Open
<1> QED
  BY <1>3, <1>4, <1>5, <1>6 DEF WorkingCopy, Edit, Save, Revert, Close, NoLongerDirty

LEMMA StepSession ==
    ASSUME Types, QueueInv, SessionInv, StepInv
    PROVE  /\ ResolveModel => StepInv'
           /\ ResolveBackupsToRestore => StepInv'
           /\ \A c \in Copy : RestoreBackup(c) => StepInv'
           /\ Down => StepInv'
           /\ Start => StepInv'
<1> USE DEF diskVars, serviceVars, trackerVars
<1>1. ASSUME ResolveModel PROVE StepInv'
  <2>1. \A c \in Copy : /\ queue'[c] = <<>> /\ disk'[c] = disk[c]
                        /\ model'[c] = IF disk[c] = Missing THEN Unknown ELSE 0
    BY <1>1 DEF ResolveModel, SessionInv
  <2>2. Unknown # 0 /\ ~(Missing >= 0)
    BY DEF Unknown, Missing
  <2> QED  BY <2>1, <2>2 DEF StepInv, Begun
<1>2. ASSUME ResolveBackupsToRestore PROVE StepInv'
  BY <1>2, StepKeep DEF ResolveBackupsToRestore
<1>3. ASSUME NEW c \in Copy, RestoreBackup(c) PROVE StepInv'
  BY <1>3, StepKeep DEF RestoreBackup
<1>4. ASSUME Down PROVE StepInv'
  BY <1>4 DEF Down, StepInv
<1>5. ASSUME Start PROVE StepInv'
  BY <1>5 DEF Start, StepInv
<1> QED  BY <1>1, <1>2, <1>3, <1>4, <1>5

LEMMA StepShutdown ==
    ASSUME Types, QueueInv, SessionInv, StepInv, Shutdown
    PROVE  StepInv'
<1> USE DEF diskVars, copyVars, serviceVars, trackerVars, shutdownUnchanged
<1>c. /\ shutdown.copies \in SUBSET Copy /\ Modified \in SUBSET Copy
      /\ queue \in [Copy -> Seq(Task)]
  BY DEF Types, ShutdownType, Modified
<1>p. \A p \in Phase : [shutdown EXCEPT !.phase = p].phase = p
  BY EnteredIs
<1>q. /\ "acknowledged" \in Phase /\ "leaving" \in Phase
  BY DEF Phase
<1>a. ASSUME Acknowledge \/ Enters("leaving") PROVE StepInv'
  <2>1. shutdown'.phase \in {"acknowledged", "leaving"}
    BY <1>a, <1>p, <1>q DEF Acknowledge, Enters
  <2> QED  BY <2>1 DEF StepInv
<1>k. ASSUME UNCHANGED <<model, disk, session, queue>>,
             shutdown.phase \notin {"acknowledged", "leaving"}
      PROVE  StepInv'
  BY <1>k, StepKeep
<1>n. ASSUME NEW C \in SUBSET Copy, NoVeto(C), UNCHANGED <<model, disk, session>>,
             shutdown.phase \notin {"acknowledged", "leaving"}
      PROVE  StepInv'
  <2>1. CASE session # "ready"
    BY <1>a, <1>n, <2>1 DEF NoVeto
  <2>2. CASE session = "ready"
    <3>1. ASSUME NEW c \in Copy, NEW kind PROVE Begun(queue'[c], kind) <=> Begun(queue[c], kind)
      <4>1. /\ NewTask("delete", "shutdown", c) \in Task
            /\ ~NewTask("delete", "shutdown", c).begun
        BY NewTaskIs
      <4>2. queue'[c] = queue[c] \/ queue'[c] = Append(queue[c], NewTask("delete", "shutdown", c))
        BY <1>n, <2>2, NoVetoIs
      <4> QED  BY <1>c, <4>1, <4>2, BegunAppend
    <3> QED  BY <1>n, <3>1, StepKeep
  <2> QED  BY <2>1, <2>2
<1>h. ASSUME NEW C \in SUBSET Copy, HandleModified(C), UNCHANGED <<model, disk, session>>,
             shutdown.phase \notin {"acknowledged", "leaving"}
      PROVE  StepInv'
  <2>1. PICK toBackup \in {C, {}, C \cap Scratchpad} : BackUp(C, toBackup)
    BY <1>h DEF HandleModified
  <2>2. ASSUME NEW c \in Copy, NEW kind PROVE Begun(queue'[c], kind) <=> Begun(queue[c], kind)
    <3>1. /\ NewTask("write", "shutdown", c) \in Task
          /\ ~NewTask("write", "shutdown", c).begun
      BY NewTaskIs
    <3>2. queue'[c] = queue[c] \/ queue'[c] = Append(queue[c], NewTask("write", "shutdown", c))
      BY <2>1, BackUpIs
    <3> QED  BY <1>c, <3>1, <3>2, BegunAppend
  <2> QED  BY <1>h, <2>2, StepKeep
<1>z. ASSUME NEW o \in {"tracker", "shutdown"}, queue' = [c \in Copy |-> Cancel(queue[c], o)],
             UNCHANGED <<model, disk, session>>,
             shutdown.phase \notin {"acknowledged", "leaving"}
      PROVE  StepInv'
  <2>1. ASSUME NEW c \in Copy, NEW kind PROVE Begun(queue'[c], kind) <=> Begun(queue[c], kind)
    BY <1>z, CancelAllIs, BegunCancel
  <2> QED  BY <1>z, <2>1, StepKeep
<1>1. CASE BeginShutdown
  BY <1>1, <1>z DEF BeginShutdown, CancelBackupOperations
<1>2. CASE DiscardRest
  <2>1. {c \in Copy : model[c] # Unknown} \ Except \in SUBSET Copy
    OBVIOUS
  <2> QED  BY <1>2, <1>n, <2>1 DEF DiscardRest
<1>3. CASE DiscardHome
  BY <1>3, <1>a DEF DiscardHome
<1>4. CASE AutoSave
  BY <1>4, <1>k DEF AutoSave
<1>5. CASE NoAutoSave
  BY <1>5, <1>c, <1>h DEF NoAutoSave
<1>6. CASE AutoSaveEnds
  BY <1>6, <1>c, <1>h, <1>n DEF AutoSaveEnds
<1>7. CASE BackupEnds
  BY <1>7, <1>z DEF BackupEnds
<1>8. CASE ErrorDialog
  BY <1>8, <1>k DEF ErrorDialog
<1>9. CASE ConfirmSave
  BY <1>9, <1>k DEF ConfirmSave
<1>10. CASE SaveEnds
  <2>1. CASE UNCHANGED queue
    BY <1>10, <1>k, <2>1 DEF SaveEnds
  <2>2. CASE NoVeto(shutdown.copies)
    BY <1>10, <1>c, <1>n, <2>2 DEF SaveEnds
  <2> QED  BY <1>10, <2>1, <2>2 DEF SaveEnds
<1>11. CASE ConfirmDontSave
  BY <1>11, <1>c, <1>n DEF ConfirmDontSave
<1>12. CASE ConfirmCancel
  BY <1>12, <1>k DEF ConfirmCancel
<1>13. CASE DiscardEnds
  BY <1>13, <1>a DEF DiscardEnds
<1>14. CASE WillShutdown
  BY <1>14, <1>a DEF WillShutdown
<1>15. CASE Exit
  BY <1>15, StepSession DEF Exit
<1>16. CASE ConfirmFails
  BY <1>16, <1>k, ConfirmFailsIs
<1> QED
  BY <1>1, <1>2, <1>3, <1>4, <1>5, <1>6, <1>7, <1>8, <1>9, <1>10, <1>11, <1>12, <1>13, <1>14,
     <1>15, <1>16 DEF Shutdown

LEMMA StepStep ==
    ASSUME Types, QueueInv, SessionInv, StepInv, [Next]_vars
    PROVE  StepInv'
<1>1. CASE UNCHANGED vars
  BY <1>1 DEF StepInv, vars, diskVars, serviceVars
<1>2. CASE Next
  BY <1>2, StepCopy, StepOperation, StepSession, StepShutdown DEF Next, Crash
<1> QED  BY <1>1, <1>2

-----------------------------------------------------------------------------
(* What is clean is discarded *)

\* No write is queued for c and no backup of this session is on the disk, unless the
\* tracker is about to discard it.
Good(c) ==
    HasKind(queue[c], "write") \/ (disk[c] >= 0 /\ c \notin untouched) =>
        Has1(queue[c], "delete", "tracker")

\* A step of one working copy.
LEMMA CleanOne ==
    ASSUME Types, CleanInv, NEW c \in Copy, UNCHANGED session, shutdown'.phase = shutdown.phase,
           shutdown'.copies = shutdown.copies,
           session # "down" /\ Early /\ c \notin Modified' \cup missed' => Good(c)',
           shutdown.phase = "begun" /\ c \in Modified \cup missed => c \in Modified' \cup missed',
           \A d \in Copy : d # c => /\ queue'[d] = queue[d] /\ disk'[d] = disk[d]
                                    /\ open'[d] = open[d] /\ modified'[d] = modified[d]
                                    /\ d \in missed => d \in missed'
                                    /\ d \in untouched => d \in untouched'
    PROVE  CleanInv'
<1>1. \A d \in Copy : d # c => (d \in Modified \cup missed => d \in Modified' \cup missed')
  BY DEF Modified
<1>2. ASSUME session' # "down", Early', NEW d \in Copy \ (Modified' \cup missed')
      PROVE  Good(d)'
  <2>1. session # "down" /\ Early
    BY <1>2 DEF Early
  <2>2. CASE d = c
    BY <1>2, <2>1, <2>2
  <2>3. CASE d # c
    <3>1. d \in Copy \ (Modified \cup missed)
      BY <1>1, <1>2, <2>3
    <3>2. Good(d)
      BY <2>1, <3>1 DEF CleanInv, Good
    <3> QED  BY <2>3, <3>2 DEF Good
  <2> QED  BY <2>2, <2>3
<1>3. shutdown'.phase = "begun" => shutdown'.copies \subseteq Modified' \cup missed'
  <2>1. shutdown.copies \subseteq Copy
    BY DEF Types, ShutdownType
  <2> QED  BY <1>1, <2>1 DEF CleanInv
<1> QED  BY <1>2, <1>3 DEF CleanInv, Good

\* The head of a queue has ended, and it was no discard of the tracker.
LEMMA CleanEnds ==
    ASSUME Types, QueueInv, SessionInv, CleanInv, NEW c \in Copy, NEW ok \in BOOLEAN,
           queue[c] # <<>>, Ends(c, ok), UNCHANGED <<open, modified, untouched, session>>,
           session # "down" /\ Early => queue[c][1].kind = "write" \/ disk'[c] < 0 \/ ~ok,
           \/ queue[c][1].kind = "write"
           \/ UNCHANGED disk,
           \A d \in Copy : d # c => disk'[d] = disk[d], disk' \in [Copy -> Empty..MaxText]
    PROVE  CleanInv'
<1> DEFINE t == queue[c][1]
<1>1. /\ queue' = [queue EXCEPT ![c] = Tail(queue[c])] /\ queue \in [Copy -> Seq(Task)]
      /\ missed' = IF ok \/ t.owner = "nobody" THEN missed ELSE missed \cup {c}
      /\ t \in Task /\ Fits(queue[c], pending[c])
  <2>1. /\ t \in Task
        /\ Only(c, Tail(queue[c]), IF t.owner = "tracker" THEN "none" ELSE pending[c])
        /\ missed' = IF ok \/ t.owner = "nobody" THEN missed ELSE missed \cup {c}
    BY EndsIs
  <2>2. queue' = [queue EXCEPT ![c] = Tail(queue[c])]
    BY <2>1 DEF Only
  <2>3. queue \in [Copy -> Seq(Task)] /\ Fits(queue[c], pending[c])
    BY DEF Types, QueueInv
  <2> QED  BY <2>1, <2>2, <2>3
<1>2. shutdown'.phase = shutdown.phase /\ shutdown'.copies = shutdown.copies
  BY SessionEnds
<1>3. queue'[c] = Tail(queue[c]) /\ \A d \in Copy : d # c => queue'[d] = queue[d]
  BY <1>1
<1>4. missed \subseteq missed' /\ \A d : d \in Modified' <=> d \in Modified
  BY <1>1 DEF Modified
<1>5. ASSUME session # "down", Early, c \notin Modified' \cup missed' PROVE Good(c)'
  <2>1. c \notin Modified \cup missed /\ (ok \/ t.owner = "nobody")
    BY <1>1, <1>4, <1>5
  <2>2. Good(c)
    BY <1>5, <2>1 DEF CleanInv, Good
  <2>3. ASSUME Has1(queue[c], "delete", "tracker")
        PROVE  Has1(Tail(queue[c]), "delete", "tracker")
               \/ (t.kind = "delete" /\ t.owner = "tracker" /\ ~HasKind(Tail(queue[c]), "write"))
    <3>1. PICK i \in DOMAIN queue[c] : /\ queue[c][i].kind = "delete"
                                       /\ queue[c][i].owner = "tracker"
      BY <2>3 DEF Has1
    <3>2. CASE i # 1
      <4>1. i - 1 \in DOMAIN Tail(queue[c]) /\ Tail(queue[c])[i - 1] = queue[c][i]
        BY <1>1, <3>2, TailIs
      <4> QED  BY <3>1, <4>1 DEF Has1
    <3>3. CASE i = 1
      <4>1. \A j \in DOMAIN Tail(queue[c]) : j + 1 \in DOMAIN queue[c] /\ 1 < j + 1
                                             /\ Tail(queue[c])[j] = queue[c][j + 1]
        BY <1>1, TailIs
      <4>2. 1 \in DOMAIN queue[c] /\ "read" # "write"
        BY <1>1, TailIs
      <4>3. \A j \in DOMAIN Tail(queue[c]) : Tail(queue[c])[j].kind = "read"
        BY <1>1, <3>1, <3>3, <4>1, <4>2 DEF Fits
      <4> QED  BY <3>1, <3>3, <4>2, <4>3 DEF HasKind
    <3> QED  BY <3>2, <3>3
  <2>4. HasKind(Tail(queue[c]), "write") => HasKind(queue[c], "write")
    BY <1>1, KindsTail
  <2>5. t.kind = "write" => HasKind(queue[c], "write")
    BY <1>1, TailIs DEF HasKind
  <2>6. ASSUME HasKind(queue[c], "write")
        PROVE  \/ ~HasKind(Tail(queue[c]), "write") /\ t.kind = "delete" /\ t.owner = "tracker"
               \/ Has1(Tail(queue[c]), "delete", "tracker")
    BY <2>2, <2>3, <2>6 DEF Good
  <2>7. CASE t.kind = "write"
    <3>1. Has1(Tail(queue[c]), "delete", "tracker")
      BY <2>5, <2>6, <2>7
    <3> QED  BY <1>3, <3>1 DEF Good
  <2>8. CASE t.kind # "write" /\ disk'[c] < 0
    <3>1. ~(disk'[c] >= 0)
      <4>1. disk'[c] \in Int
        BY BoundAssumption DEF Empty
      <4> QED  BY <2>8, <4>1
    <3> QED  BY <1>3, <2>4, <2>6, <3>1 DEF Good
  <2>9. CASE t.kind # "write" /\ ~ok
    <3>1. disk'[c] = disk[c] /\ t.owner # "tracker"
      BY <2>1, <2>9
    <3> QED  BY <1>3, <2>2, <2>3, <2>4, <3>1 DEF Good
  <2> QED  BY <1>5, <2>7, <2>8, <2>9
<1> QED  BY <1>2, <1>3, <1>4, <1>5, CleanOne DEF Modified

LEMMA CleanOperation ==
    ASSUME Types, QueueInv, SessionInv, StepInv, CleanInv, NEW c \in Copy, Operation(c), Types'
    PROVE  CleanInv'
<1> USE DEF copyVars, trackerVars, diskVars
<1>0. /\ queue[c] \in Seq(Task) /\ queue \in [Copy -> Seq(Task)]
      /\ disk \in [Copy -> Empty..MaxText] /\ disk' \in [Copy -> Empty..MaxText]
  BY DEF Types
<1>1. queue[c] # <<>> /\ Head(queue[c]) = queue[c][1] /\ queue[c][1] \in Task
  <2>1. queue[c] # <<>>
    BY DEF Operation, SkipWrite, StartWrite, EndWrite, StartDelete, EndDelete, OperationFails,
           Running
  <2> QED  BY <1>0, <2>1, TailIs
<1>u. session \notin {"down", "starting"} /\ session \in {"down", "starting", "resolved", "ready"}
  BY Up DEF Types
<1>b. ASSUME Begin(c), UNCHANGED <<open, modified, missed, untouched, session, shutdown>>,
             queue[c][1].kind = "write" \/ disk'[c] < 0,
             \A d \in Copy : d # c => disk'[d] = disk[d]
      PROVE  CleanInv'
  <2> DEFINE q == [queue[c] EXCEPT ![1].begun = TRUE]
  <2>1. queue'[c] = q /\ \A d \in Copy : d # c => queue'[d] = queue[d]
    BY <1>1, <1>b, BegunIs
  <2>2. DOMAIN q = DOMAIN queue[c] /\ \A i \in DOMAIN q : /\ q[i].kind = queue[c][i].kind
                                                          /\ q[i].owner = queue[c][i].owner
    BY <1>0, <1>1, BeginIs
  <2> HIDE DEF q
  <2>3. \A kind, o : /\ HasKind(q, kind) <=> HasKind(queue[c], kind)
                     /\ Has1(q, kind, o) <=> Has1(queue[c], kind, o)
    BY <2>2 DEF HasKind, Has1
  <2>4. queue[c][1].kind = "write" => HasKind(queue[c], "write")
    BY <1>0, <1>1, TailIs DEF HasKind
  <2>5. disk'[c] < 0 => ~(disk'[c] >= 0)
    <3>1. disk'[c] \in Int
      BY <1>0, BoundAssumption DEF Empty
    <3> QED  BY <3>1
  <2>6. ASSUME session # "down", Early, c \notin Modified' \cup missed' PROVE Good(c)'
    <3>1. c \notin Modified \cup missed
      BY <1>b, <2>6 DEF Modified
    <3>2. Good(c)
      BY <2>6, <3>1 DEF CleanInv, Good
    <3>3. HasKind(queue[c], "write") => Has1(queue[c], "delete", "tracker")
      BY <3>2 DEF Good
    <3> QED  BY <1>b, <2>1, <2>3, <2>4, <2>5, <3>3 DEF Good
  <2> QED  BY <1>b, <2>1, <2>6, CleanOne DEF Modified
<1>2. CASE SkipWrite(c)
  BY <1>0, <1>1, <1>2, CleanEnds DEF SkipWrite, Running
<1>3. CASE StartWrite(c)
  BY <1>0, <1>1, <1>3, <1>b DEF StartWrite, Running
<1>4. CASE EndWrite(c)
  <2>1. /\ queue[c][1].kind = "write" /\ Ends(c, TRUE)
        /\ UNCHANGED <<open, modified, untouched, session>>
        /\ \A d \in Copy : d # c => disk'[d] = disk[d]
    BY <1>0, <1>1, <1>4 DEF EndWrite, Running
  <2> QED  BY <1>0, <1>1, <2>1, CleanEnds
<1>5. CASE StartDelete(c)
  <2>1. /\ Begin(c) /\ UNCHANGED <<open, modified, missed, untouched, session, shutdown>>
        /\ disk'[c] = Missing /\ \A d \in Copy : d # c => disk'[d] = disk[d]
    BY <1>0, <1>1, <1>5 DEF StartDelete
  <2>2. Missing < 0
    BY DEF Missing
  <2> QED  BY <1>b, <2>1, <2>2
<1>6. CASE EndDelete(c)
  <2>1. /\ queue[c][1].kind = "delete" /\ queue[c][1].begun /\ Ends(c, TRUE)
        /\ UNCHANGED <<disk, open, modified, untouched, session>>
    BY <1>1, <1>6 DEF EndDelete, Running
  <2>2. ASSUME session # "down", Early PROVE disk'[c] < 0
    <3>1. Begun(queue[c], "delete")
      BY <1>1, <2>1 DEF Begun
    <3>2. disk[c] = Missing
      BY <1>u, <2>2, <3>1 DEF StepInv, Early
    <3> QED  BY <2>1, <3>2 DEF Missing
  <2> QED  BY <1>0, <1>1, <2>1, <2>2, CleanEnds
<1>7. CASE OperationFails(c)
  <2>1. Ends(c, FALSE) /\ UNCHANGED <<disk, open, modified, untouched, session>>
    BY <1>7 DEF OperationFails
  <2> QED  BY <1>0, <1>1, <2>1, CleanEnds
<1> QED  BY <1>2, <1>3, <1>4, <1>5, <1>6, <1>7 DEF Operation

\* An event of a working copy is ignored, and it is not sure any more that what is on
\* the disk will go; or its backup is about to be discarded; or it is modified.
LEMMA CleanEvent ==
    ASSUME Types, QueueInv, SessionInv, CleanInv, NEW c \in Copy,
           UNCHANGED <<session, shutdown, disk, untouched>>,
           \A d \in Copy : d # c => open'[d] = open[d] /\ modified'[d] = modified[d],
           IF suspended THEN Ignored(c)
           ELSE DiscardBackup(c) \/ (ScheduleBackup(c) /\ c \in Modified')
    PROVE  CleanInv'
<1>0. queue \in [Copy -> Seq(Task)]
  BY DEF Types
<1>1. CASE suspended
  BY <1>1, CleanOne DEF Ignored
<1>2. CASE ~suspended
  <2>1. shutdown.phase # "begun"
    BY <1>2 DEF SessionInv
  <2>2. /\ \A d \in Copy : d # c => queue'[d] = queue[d] /\ (d \in missed => d \in missed')
    BY <1>0, <1>2 DEF ScheduleBackup, DiscardBackup
  <2>3. DiscardBackup(c) => Has1(queue'[c], "delete", "tracker")
    <3> DEFINE q == Cancel(queue[c], "tracker")
               t == NewTask("delete", "tracker", c)
    <3>1. SUFFICES ASSUME DiscardBackup(c) PROVE Has1(queue'[c], "delete", "tracker")
      OBVIOUS
    <3>2. q \in Seq(Task) /\ t \in Task /\ t.kind = "delete" /\ t.owner = "tracker"
      BY CancelledIs, NewTaskIs
    <3>3. queue'[c] = Append(q, t)
      BY <1>0, <3>1 DEF DiscardBackup
    <3> HIDE DEF q, t
    <3> QED  BY <3>2, <3>3, KindsAppend
  <2> QED  BY <1>2, <2>1, <2>2, <2>3, CleanOne DEF Good
<1> QED  BY <1>1, <1>2

LEMMA CleanCopy ==
    ASSUME Types, QueueInv, SessionInv, StepInv, CleanInv, NEW c \in Copy,
           BackupTimer(c) \/ WorkingCopy(c)
    PROVE  CleanInv'
<1> USE DEF diskVars, copyVars
<1>0. /\ queue \in [Copy -> Seq(Task)] /\ queue[c] \in Seq(Task) /\ Fits(queue[c], pending[c])
      /\ modified[c] => open[c] = "open"
      /\ open \in [Copy -> {"closed", "opening", "open"}] /\ modified \in [Copy -> BOOLEAN]
  BY DEF Types, QueueInv
<1>u. session \notin {"down", "starting"} /\ session \in {"down", "starting", "resolved", "ready"}
  BY Up DEF Types
<1>1. CASE BackupTimer(c)
  <2>1. \A d \in Copy : d # c => queue'[d] = queue[d]
    BY <1>0, <1>1 DEF BackupTimer
  <2>2. missed \subseteq missed' /\ \A d : d \in Modified' <=> d \in Modified
    BY <1>1 DEF BackupTimer, Modified
  <2>3. ASSUME session # "down", Early, c \notin Modified' \cup missed' PROVE Good(c)'
    <3>1. c \notin Modified \cup missed /\ UNCHANGED <<queue, disk, untouched>>
      BY <1>0, <1>1, <2>2, <2>3 DEF BackupTimer, Modified
    <3> QED  BY <2>3, <3>1 DEF CleanInv, Good
  <2> QED  BY <1>1, <2>1, <2>2, <2>3, CleanOne DEF BackupTimer
<1>2. CASE Open(c)
  <2> DEFINE t == NewTask("read", "copy", c)
  <2>1. t \in Task /\ t.kind = "read" /\ t.owner = "copy"
    BY NewTaskIs
  <2>2. queue' = [queue EXCEPT ![c] = Append(queue[c], t)]
    BY <1>2 DEF Open
  <2> HIDE DEF t
  <2>3. /\ HasKind(queue'[c], "write") <=> HasKind(queue[c], "write")
        /\ Has1(queue'[c], "delete", "tracker") <=> Has1(queue[c], "delete", "tracker")
    BY <1>0, <2>1, <2>2, KindsAppend
  <2>4. /\ \A d \in Copy : d # c => queue'[d] = queue[d] /\ open'[d] = open[d]
        /\ c \notin Modified /\ open'[c] = "opening"
    BY <1>0, <1>2, <2>2 DEF Open, Modified
  <2>5. UNCHANGED <<disk, untouched, missed, modified, session, shutdown>>
    BY <1>2 DEF Open, trackerVars
  <2>6. ASSUME session # "down", Early, c \notin Modified' \cup missed' PROVE Good(c)'
    <3>1. Good(c)
      BY <2>4, <2>5, <2>6 DEF CleanInv, Good
    <3> QED  BY <2>3, <2>5, <3>1 DEF Good
  <2> QED  BY <2>4, <2>5, <2>6, CleanOne
<1>3. CASE Resolve(c)
  <2> DEFINE restored == model[c] # Unknown /\ disk[c] >= 0
             rest == Tail(queue[c])
  <2>1. /\ queue[c] # <<>> /\ Head(queue[c]).kind = "read" /\ open'[c] = "open"
        /\ modified' = [modified EXCEPT ![c] = restored]
        /\ untouched' = untouched \ {c} /\ UNCHANGED <<disk, session, shutdown>>
    BY <1>0, <1>3 DEF Resolve, Running
  <2>2. /\ restored /\ ~suspended => /\ queue' = [queue EXCEPT ![c] = Cancel(rest, "tracker")]
                                     /\ missed' = missed \ {c}
        /\ ~(restored /\ ~suspended) => /\ queue' = [queue EXCEPT ![c] = rest]
                                        /\ missed' = IF restored THEN missed \cup {c} ELSE missed
    BY <1>3 DEF Resolve
  <2>3. \A d \in Copy : d # c => /\ queue'[d] = queue[d] /\ open'[d] = open[d]
                                 /\ modified'[d] = modified[d]
                                 /\ (d \in missed => d \in missed')
    BY <1>0, <1>3, <2>1, <2>2 DEF Resolve
  <2>4. open[c] = "opening" /\ c \notin Modified
    <3>1. HasKind(queue[c], "read")
      BY <1>0, <2>1, TailIs DEF HasKind
    <3> QED  BY <3>1 DEF QueueInv, Modified
  <2>5. suspended /\ c \in missed => c \in missed'
    BY <2>2
  <2>6. ASSUME session # "down", Early, c \notin Modified' \cup missed' PROVE Good(c)'
    <3>1. ~restored
      BY <1>0, <2>1, <2>6 DEF Modified
    <3>2. queue'[c] = rest /\ missed' = missed
      BY <1>0, <2>2, <3>1
    <3>3. Good(c) /\ ~(disk'[c] >= 0)
      BY <1>u, <2>1, <2>4, <2>6, <3>1, <3>2 DEF CleanInv, Good, StepInv, Early
    <3>4. HasKind(rest, "write") => HasKind(queue[c], "write")
      BY <1>0, <2>1, KindsTail
    <3>5. ASSUME Has1(queue[c], "delete", "tracker") PROVE Has1(rest, "delete", "tracker")
      <4>1. PICK i \in DOMAIN queue[c] : /\ queue[c][i].kind = "delete"
                                         /\ queue[c][i].owner = "tracker"
        BY <3>5 DEF Has1
      <4>2. i # 1
        BY <1>0, <2>1, <4>1, TailIs
      <4>3. i - 1 \in DOMAIN rest /\ rest[i - 1] = queue[c][i]
        BY <1>0, <2>1, <4>2, TailIs
      <4> QED  BY <4>1, <4>3 DEF Has1
    <3> QED  BY <3>2, <3>3, <3>4, <3>5 DEF Good
  <2> HIDE DEF restored, rest
  <2>7. shutdown.phase = "begun" => suspended
    BY DEF SessionInv
  <2> QED  BY <2>1, <2>3, <2>4, <2>5, <2>6, <2>7, CleanOne
<1>4. CASE Edit(c)
  <2>1. /\ UNCHANGED <<session, shutdown, disk, untouched, open>> /\ open[c] = "open"
        /\ modified' = [modified EXCEPT ![c] = TRUE]
        /\ IF suspended THEN Ignored(c) ELSE ScheduleBackup(c)
    BY <1>4 DEF Edit
  <2>2. c \in Modified'
    BY <1>0, <2>1 DEF Modified
  <2> QED  BY <1>0, <2>1, <2>2, CleanEvent
<1>5. CASE Save(c) \/ Revert(c)
  <2>1. /\ UNCHANGED <<session, shutdown, disk, untouched, open>> /\ NoLongerDirty(c)
    BY <1>5 DEF Save, Revert
  <2>2. /\ modified' = [modified EXCEPT ![c] = FALSE]
        /\ IF suspended THEN Ignored(c) ELSE DiscardBackup(c)
    BY <2>1 DEF NoLongerDirty
  <2> QED  BY <1>0, <2>1, <2>2, CleanEvent
<1>6. CASE Close(c)
  <2>1. /\ UNCHANGED <<session, shutdown, disk, untouched, modified>>
        /\ open' = [open EXCEPT ![c] = "closed"]
        /\ IF suspended THEN Ignored(c) ELSE DiscardBackup(c)
    BY <1>6 DEF Close
  <2> QED  BY <1>0, <2>1, CleanEvent
<1> QED  BY <1>1, <1>2, <1>3, <1>4, <1>5, <1>6 DEF WorkingCopy

LEMMA CleanKeep ==
    ASSUME Types, CleanInv, UNCHANGED <<disk, open, modified>>, missed \subseteq missed',
           session' # "down" => session # "down" /\ untouched' = untouched,
           Early' => Early,
           Early' => \A c \in Copy \ (Modified' \cup missed') :
              /\ HasKind(queue'[c], "write") => HasKind(queue[c], "write")
              /\ Has1(queue[c], "delete", "tracker") => Has1(queue'[c], "delete", "tracker"),
           shutdown'.phase = "begun" => shutdown'.copies \subseteq Modified' \cup missed'
    PROVE  CleanInv'
<1>1. \A c : c \in Modified' <=> c \in Modified
  BY DEF Modified
<1>2. ASSUME session' # "down", Early', NEW c \in Copy \ (Modified' \cup missed')
      PROVE  Good(c)'
  <2>1. Good(c)
    BY <1>1, <1>2 DEF CleanInv, Good
  <2> QED  BY <1>2, <2>1 DEF Good
<1> QED  BY <1>2 DEF CleanInv, Good

LEMMA CleanSession ==
    ASSUME Types, QueueInv, SessionInv, CleanInv
    PROVE  /\ ResolveModel => CleanInv'
           /\ ResolveBackupsToRestore => CleanInv'
           /\ \A c \in Copy : RestoreBackup(c) => CleanInv'
           /\ Down => CleanInv'
           /\ Start => CleanInv'
<1> USE DEF diskVars, copyVars, serviceVars, trackerVars
<1>1. ASSUME NEW c \in Copy, ResolveModel \/ ResolveBackupsToRestore \/ RestoreBackup(c)
      PROVE  CleanInv'
  <2>1. UNCHANGED <<disk, open, modified, missed, untouched, queue, shutdown>> /\ session # "down"
    BY <1>1 DEF ResolveModel, ResolveBackupsToRestore, RestoreBackup
  <2>2. \A d : d \in Modified' <=> d \in Modified
    BY <2>1 DEF Modified
  <2>3. Early' <=> Early
    BY <2>1 DEF Early
  <2> QED  BY <2>1, <2>2, <2>3, CleanKeep DEF CleanInv
<1>2. ASSUME Down PROVE CleanInv'
  BY <1>2, NoShutdownIs DEF Down, CleanInv
<1>3. ASSUME Start PROVE CleanInv'
  <2>1. /\ \A c \in Copy : queue'[c] = <<>> /\ disk' = disk
        /\ untouched' = {c \in Copy : disk[c] >= 0} /\ shutdown' = NoShutdown
    BY <1>3 DEF Start, SessionInv
  <2>2. \A c \in Copy : ~HasKind(queue'[c], "write") /\ ~(disk'[c] >= 0 /\ c \notin untouched')
    BY <2>1 DEF HasKind
  <2> QED  BY <2>1, <2>2, NoShutdownIs DEF CleanInv
<1>4. ASSUME ResolveModel \/ ResolveBackupsToRestore PROVE CleanInv'
  <2>1. UNCHANGED <<disk, open, modified, missed, untouched, queue, shutdown>> /\ session # "down"
    BY <1>4 DEF ResolveModel, ResolveBackupsToRestore
  <2>2. \A d : d \in Modified' <=> d \in Modified
    BY <2>1 DEF Modified
  <2>3. Early' <=> Early
    BY <2>1 DEF Early
  <2> QED  BY <2>1, <2>2, <2>3, CleanKeep DEF CleanInv
<1> QED  BY <1>1, <1>2, <1>3, <1>4

LEMMA CleanShutdown ==
    ASSUME Types, QueueInv, SessionInv, CleanInv, Shutdown
    PROVE  CleanInv'
<1> USE DEF diskVars, copyVars, serviceVars, trackerVars, shutdownUnchanged
<1>c. /\ shutdown.copies \in SUBSET Copy /\ Modified \in SUBSET Copy
      /\ queue \in [Copy -> Seq(Task)]
  BY DEF Types, ShutdownType, Modified
<1>p. \A p \in Phase : [shutdown EXCEPT !.phase = p].phase = p
  BY EnteredIs
<1>q. /\ "acknowledged" \in Phase /\ "leaving" \in Phase
  BY DEF Phase
<1>d. session # "down"
  <2>1. session = "down" => shutdown.phase = "off"
    BY NoShutdownIs DEF SessionInv
  <2> QED
    BY <2>1, NoShutdownIs
       DEF Shutdown, BeginShutdown, DiscardRest, DiscardHome, AutoSave, NoAutoSave, AutoSaveEnds,
           BackupEnds, ErrorDialog, ConfirmSave, SaveEnds, ConfirmDontSave, ConfirmCancel,
           ConfirmFails, DiscardEnds, WillShutdown, Exit
<1>l. ASSUME shutdown'.phase \in {"discarding", "acknowledged", "leaving"} PROVE CleanInv'
  BY <1>l DEF CleanInv, Early
<1>a. ASSUME Acknowledge \/ Enters("leaving") PROVE CleanInv'
  BY <1>a, <1>l, <1>p, <1>q DEF Acknowledge, Enters
<1>n. ASSUME NEW C \in SUBSET Copy, NoVeto(C) PROVE CleanInv'
  BY <1>l, <1>n, NoVetoIs
<1>k. ASSUME UNCHANGED <<disk, session, open, modified, untouched, missed, queue>>, Early,
             shutdown'.phase # "begun"
      PROVE  CleanInv'
  BY <1>d, <1>k, CleanKeep
<1>h. ASSUME NEW C \in SUBSET Copy, HandleModified(C), C \subseteq Modified \cup missed, Early,
             UNCHANGED <<disk, session, open, modified, untouched, missed>>
      PROVE  CleanInv'
  <2>1. PICK toBackup \in {C, {}, C \cap Scratchpad} : BackUp(C, toBackup)
    BY <1>h DEF HandleModified
  <2>2. \A c : c \in Modified' <=> c \in Modified
    BY <1>h DEF Modified
  <2>3. \A c \in Copy \ (Modified \cup missed) : queue'[c] = queue[c]
    BY <1>h, <2>1, BackUpIs
  <2>4. shutdown'.phase # "begun"
    BY <2>1, BackUpIs
  <2> QED  BY <1>d, <1>h, <2>2, <2>3, <2>4, CleanKeep
<1>e. shutdown.phase \in {"off", "begun", "autosave", "backup", "error", "confirm", "saving"} =>
         Early
  BY DEF Early
<1>1. CASE BeginShutdown
  <2>1. /\ shutdown' = [NoShutdown EXCEPT !.phase = "begun", !.copies = Modified]
        /\ CancelBackupOperations /\ missed' = missed \cup {c \in Copy : pending[c] # "none"}
        /\ UNCHANGED <<disk, session, open, modified, untouched>> /\ shutdown.phase = "off"
    BY <1>1 DEF BeginShutdown
  <2>2. shutdown'.copies = Modified /\ \A c : c \in Modified' <=> c \in Modified
    BY <2>1 DEF NoShutdown, Modified
  <2>3. ASSUME NEW c \in Copy \ (Modified' \cup missed')
        PROVE  /\ HasKind(queue'[c], "write") => HasKind(queue[c], "write")
               /\ ~Has1(queue[c], "delete", "tracker")
    <3>1. pending[c] = "none"
      BY <2>1
    <3>2. queue'[c] = Cancel(queue[c], "tracker") /\ OneOf(queue[c], "tracker")
      BY <2>1, CancelAllIs DEF CancelBackupOperations
    <3> QED  BY <1>c, <3>1, <3>2, Idle, KindsCancel DEF Has1
  <2> QED  BY <1>d, <1>e, <2>1, <2>2, <2>3, CleanKeep
<1>2. CASE DiscardRest
  <2>1. {c \in Copy : model[c] # Unknown} \ Except \in SUBSET Copy
    OBVIOUS
  <2> QED  BY <1>2, <1>n, <2>1 DEF DiscardRest
<1>3. CASE DiscardHome
  BY <1>3, <1>a DEF DiscardHome
<1>4. CASE AutoSave
  <2>1. shutdown'.phase = "autosave" /\ shutdown.phase = "begun"
    BY <1>4 DEF AutoSave, Types, ShutdownType
  <2> QED  BY <1>4, <1>e, <1>k, <2>1 DEF AutoSave
<1>5. CASE NoAutoSave
  BY <1>5, <1>c, <1>e, <1>h DEF NoAutoSave, CleanInv
<1>6. CASE AutoSaveEnds
  BY <1>6, <1>c, <1>e, <1>h, <1>n DEF AutoSaveEnds
<1>7. CASE BackupEnds
  <2>1. CASE Acknowledge
    BY <1>a, <2>1
  <2>2. CASE ~Acknowledge
    <3>1. /\ shutdown'.phase # "begun" /\ suspended /\ shutdown.phase = "backup"
          /\ UNCHANGED <<disk, session, open, modified, untouched, missed>>
      <4>1. /\ shutdown.phase = "backup"
            /\ shutdown' = [shutdown EXCEPT
                               !.phase = IF BackupError THEN "error" ELSE "confirm",
                               !.copies = @ \ shutdown.backups]
            /\ UNCHANGED <<disk, session, open, modified, untouched, missed>>
        BY <1>7, <2>2 DEF BackupEnds
      <4>2. shutdown'.phase \in {"error", "confirm"}
        <5>1. shutdown \in ShutdownType
          BY DEF Types
        <5> QED  BY <4>1, <5>1 DEF ShutdownType
      <4>3. suspended
        BY <4>1 DEF SessionInv
      <4> QED  BY <4>1, <4>2, <4>3
    <3>2. ASSUME NEW c \in Copy
          PROVE  /\ HasKind(queue'[c], "write") => HasKind(queue[c], "write")
                 /\ ~Has1(queue[c], "delete", "tracker")
      <4>1. queue'[c] = Cancel(queue[c], "shutdown") /\ OneOf(queue[c], "shutdown")
        BY <1>7, CancelAllIs DEF BackupEnds
      <4>2. pending[c] = "none"
        BY <3>1 DEF SessionInv
      <4> QED  BY <1>c, <4>1, <4>2, Idle, KindsCancel DEF Has1
    <3> QED  BY <1>d, <1>e, <3>1, <3>2, CleanKeep
  <2> QED  BY <2>1, <2>2
<1>v. Veto => shutdown'.phase # "begun"
  BY NoShutdownIs DEF Veto
<1>8. CASE ErrorDialog
  BY <1>8, <1>a, <1>e, <1>k, <1>v DEF ErrorDialog
<1>9. CASE ConfirmSave
  <2>1. shutdown'.phase = "saving" /\ shutdown.phase = "confirm"
    BY <1>9 DEF ConfirmSave, Types, ShutdownType
  <2> QED  BY <1>9, <1>e, <1>k, <2>1 DEF ConfirmSave
<1>10. CASE SaveEnds
  <2>1. CASE Veto /\ UNCHANGED queue
    BY <1>10, <1>e, <1>k, <1>v, <2>1 DEF SaveEnds
  <2>2. CASE NoVeto(shutdown.copies)
    BY <1>c, <1>n, <2>2
  <2> QED  BY <1>10, <2>1, <2>2 DEF SaveEnds
<1>11. CASE ConfirmDontSave
  BY <1>11, <1>c, <1>n DEF ConfirmDontSave
<1>12. CASE ConfirmCancel
  BY <1>12, <1>e, <1>k, <1>v DEF ConfirmCancel
<1>13. CASE DiscardEnds
  BY <1>13, <1>a DEF DiscardEnds
<1>14. CASE WillShutdown
  BY <1>14, <1>a DEF WillShutdown
<1>15. CASE Exit
  BY <1>15, CleanSession DEF Exit
<1>16. CASE ConfirmFails
  BY <1>16, <1>e, <1>k, ConfirmFailsIs
<1> QED
  BY <1>1, <1>2, <1>3, <1>4, <1>5, <1>6, <1>7, <1>8, <1>9, <1>10, <1>11, <1>12, <1>13, <1>14,
     <1>15, <1>16 DEF Shutdown

LEMMA CleanStep ==
    ASSUME Types, QueueInv, SessionInv, StepInv, CleanInv, [Next]_vars, Types'
    PROVE  CleanInv'
<1>1. CASE UNCHANGED vars
  BY <1>1 DEF CleanInv, Early, Modified, vars, diskVars, copyVars, serviceVars
<1>2. CASE Next
  BY <1>2, CleanCopy, CleanOperation, CleanSession, CleanShutdown DEF Next, Crash
<1> QED  BY <1>1, <1>2

-----------------------------------------------------------------------------
(* Nobody touches what was not opened *)

\* What is known of the backup c of an earlier session.
Untouched(c) ==
    /\ open[c] # "open" /\ pending[c] = "none" /\ disk[c] >= 0
    /\ \A i \in DOMAIN queue[c] : queue[c][i].kind = "read"
    /\ session \in {"resolved", "ready"} => model[c] # Unknown
    /\ session = "ready" => c \in unrestored
    /\ c \notin shutdown.copies

LEMMA UntouchedIs == UntouchedInv <=> (~EmptyWindow => \A c \in untouched : Untouched(c))
BY DEF UntouchedInv, Untouched

LEMMA UntouchedNext ==
    ASSUME ~EmptyWindow => \A c \in untouched' : Untouched(c)'
    PROVE  UntouchedInv'
BY DEF UntouchedInv, Untouched

\* A step of one working copy, which is not an untouched one any more.
LEMMA UntouchedOne ==
    ASSUME Types, UntouchedInv, NEW c \in Copy, UNCHANGED session,
           shutdown'.copies = shutdown.copies, untouched' \subseteq untouched,
           ~EmptyWindow /\ c \in untouched' => Untouched(c)',
           \A d \in Copy : d # c => /\ queue'[d] = queue[d] /\ disk'[d] = disk[d]
                                    /\ open'[d] = open[d] /\ pending'[d] = pending[d]
                                    /\ model'[d] = model[d]
                                    /\ d \in unrestored => d \in unrestored'
    PROVE  UntouchedInv'
<1>1. ASSUME ~EmptyWindow, NEW d \in untouched' PROVE Untouched(d)'
  <2>1. d \in Copy /\ Untouched(d)
    BY <1>1, UntouchedIs DEF Types
  <2>2. CASE d = c
    BY <1>1, <2>2
  <2>3. CASE d # c
    BY <2>1, <2>3 DEF Untouched
  <2> QED  BY <2>2, <2>3
<1> QED  BY <1>1, UntouchedNext

LEMMA UntouchedCopy ==
    ASSUME Types, QueueInv, SessionInv, UntouchedInv, NEW c \in Copy,
           BackupTimer(c) \/ Operation(c) \/ WorkingCopy(c) \/ RestoreBackup(c)
    PROVE  UntouchedInv'
<1> USE DEF diskVars, copyVars, serviceVars, trackerVars
<1>0. /\ queue \in [Copy -> Seq(Task)] /\ queue[c] \in Seq(Task)
      /\ open \in [Copy -> {"closed", "opening", "open"}]
      /\ disk \in [Copy -> Empty..MaxText] /\ model \in [Copy -> Unknown..MaxText]
      /\ pending \in [Copy -> {"none", "timer", "backup", "discard"}]
  BY DEF Types
<1>1. CASE BackupTimer(c)
  <2>1. UntouchedInv /\ pending[c] = "timer" =>
           ~(~EmptyWindow /\ c \in untouched)
    BY UntouchedIs DEF Untouched
  <2>2. /\ \A d \in Copy : d # c => queue'[d] = queue[d] /\ pending'[d] = pending[d]
        /\ UNCHANGED <<session, shutdown, untouched, disk, open, model, unrestored>>
    BY <1>0, <1>1 DEF BackupTimer
  <2> QED  BY <1>1, <2>1, <2>2, UntouchedOne DEF BackupTimer
<1>2. CASE Operation(c)
  <2>1. queue[c] # <<>> /\ Head(queue[c]).kind # "read"
    BY <1>2 DEF Operation, SkipWrite, StartWrite, EndWrite, StartDelete, EndDelete,
                OperationFails, Running
  <2>2. queue[c][1].kind # "read" /\ 1 \in DOMAIN queue[c]
    BY <1>0, <2>1, TailIs
  <2>3. ~(~EmptyWindow /\ c \in untouched)
    BY <2>2, UntouchedIs DEF Untouched
  <2>4. /\ UNCHANGED <<session, untouched, open, unrestored>>
        /\ \A d \in Copy : d # c => disk'[d] = disk[d] /\ model'[d] = model[d]
    BY <1>0, <1>2 DEF Operation, SkipWrite, StartWrite, EndWrite, StartDelete, EndDelete,
                      OperationFails
  <2>5. /\ \A d \in Copy : d # c => queue'[d] = queue[d] /\ pending'[d] = pending[d]
        /\ shutdown'.copies = shutdown.copies
    <3>1. ASSUME NEW ok \in BOOLEAN, Ends(c, ok)
          PROVE  /\ \A d \in Copy : d # c => queue'[d] = queue[d] /\ pending'[d] = pending[d]
                 /\ shutdown'.copies = shutdown.copies
      BY <1>0, <2>1, <3>1, SessionEnds DEF Ends
    <3>2. ASSUME Begin(c), UNCHANGED <<pending, shutdown>>
          PROVE  /\ \A d \in Copy : d # c => queue'[d] = queue[d] /\ pending'[d] = pending[d]
                 /\ shutdown'.copies = shutdown.copies
      BY <1>0, <3>2 DEF Begin
    <3> QED
      BY <1>2, <3>1, <3>2 DEF Operation, SkipWrite, StartWrite, EndWrite, StartDelete, EndDelete,
                              OperationFails
  <2> QED  BY <2>3, <2>4, <2>5, UntouchedOne
<1>3. CASE Open(c)
  <2> DEFINE t == NewTask("read", "copy", c)
  <2>1. t \in Task /\ t.kind = "read"
    BY NewTaskIs
  <2>2. queue'[c] = Append(queue[c], t) /\ \A d \in Copy : d # c => queue'[d] = queue[d]
    BY <1>0, <1>3 DEF Open
  <2> HIDE DEF t
  <2>3. /\ UNCHANGED <<session, shutdown, untouched, disk, pending, model, unrestored>>
        /\ open'[c] = "opening" /\ \A d \in Copy : d # c => open'[d] = open[d]
    BY <1>0, <1>3 DEF Open
  <2>4. ASSUME ~EmptyWindow, c \in untouched PROVE Untouched(c)'
    <3>1. Untouched(c)
      BY <2>4, UntouchedIs
    <3>2. \A i \in DOMAIN queue'[c] : queue'[c][i].kind = "read"
      BY <1>0, <2>1, <2>2, <3>1, AppendIs DEF Untouched
    <3> QED  BY <2>3, <3>1, <3>2 DEF Untouched
  <2> QED  BY <2>2, <2>3, <2>4, UntouchedOne
<1>4. CASE Resolve(c)
  <2>1. /\ untouched' = untouched \ {c}
        /\ UNCHANGED <<session, shutdown, disk, model, unrestored>>
        /\ \A d \in Copy : d # c => /\ queue'[d] = queue[d] /\ pending'[d] = pending[d]
                                    /\ open'[d] = open[d]
    BY <1>0, <1>4 DEF Resolve
  <2> QED  BY <2>1, UntouchedOne
<1>5. CASE Edit(c) \/ Save(c) \/ Revert(c) \/ Close(c) \/ RestoreBackup(c)
  <2>1. open[c] = "open"
    BY <1>5 DEF Edit, Save, Revert, Close, RestoreBackup, Modified
  <2>2. ~(~EmptyWindow /\ c \in untouched)
    BY <2>1, UntouchedIs DEF Untouched
  <2>3. /\ UNCHANGED <<session, shutdown, untouched, disk, model>>
        /\ \A d \in Copy : d # c => open'[d] = open[d] /\ (d \in unrestored => d \in unrestored')
    BY <1>0, <1>5 DEF Edit, Save, Revert, Close, RestoreBackup, NoLongerDirty
  <2>4. \A d \in Copy : d # c => queue'[d] = queue[d] /\ pending'[d] = pending[d]
    BY <1>0, <1>5 DEF Edit, Save, Revert, Close, RestoreBackup, NoLongerDirty, Ignored,
                      ScheduleBackup, DiscardBackup
  <2> QED  BY <2>2, <2>3, <2>4, UntouchedOne
<1> QED  BY <1>1, <1>2, <1>3, <1>4, <1>5 DEF WorkingCopy

LEMMA UntouchedSession ==
    ASSUME Types, QueueInv, SessionInv, UntouchedInv
    PROVE  /\ ResolveModel => UntouchedInv'
           /\ ResolveBackupsToRestore => UntouchedInv'
           /\ Down => UntouchedInv'
           /\ Start => UntouchedInv'
<1> USE DEF diskVars, copyVars, serviceVars, trackerVars
<1>0. untouched \subseteq Copy
  BY DEF Types
<1>1. ASSUME ResolveModel PROVE UntouchedInv'
  <2>1. ASSUME ~EmptyWindow, NEW c \in untouched PROVE Untouched(c)'
    <3>1. Untouched(c) /\ c \in Copy
      BY <1>0, <2>1, UntouchedIs
    <3>2. model'[c] # Unknown
      BY <1>1, <3>1 DEF ResolveModel, Untouched, Missing, Unknown
    <3>3. /\ UNCHANGED <<disk, open, pending, queue, shutdown>> /\ session' = "resolved"
      BY <1>1 DEF ResolveModel
    <3> QED  BY <3>1, <3>2, <3>3 DEF Untouched
  <2> QED  BY <1>1, <2>1, UntouchedNext DEF ResolveModel
<1>2. ASSUME ResolveBackupsToRestore PROVE UntouchedInv'
  <2>1. ASSUME ~EmptyWindow, NEW c \in untouched PROVE Untouched(c)'
    <3>1. Untouched(c) /\ c \in Copy
      BY <1>0, <2>1, UntouchedIs
    <3>2. /\ UNCHANGED <<disk, model, open, pending, queue, shutdown>> /\ session = "resolved"
          /\ unrestored' = {d \in Copy : model[d] # Unknown /\ disk[d] >= 0}
      BY <1>2 DEF ResolveBackupsToRestore
    <3> QED  BY <3>1, <3>2 DEF Untouched
  <2> QED  BY <1>2, <2>1, UntouchedNext DEF ResolveBackupsToRestore
<1>3. ASSUME Down PROVE UntouchedInv'
  BY <1>3, UntouchedNext DEF Down
<1>4. ASSUME Start PROVE UntouchedInv'
  <2>1. ASSUME NEW c \in untouched' PROVE Untouched(c)'
    <3>1. c \in Copy /\ disk[c] >= 0 /\ session' = "starting"
          /\ UNCHANGED <<disk, open, pending, queue, shutdown>>
      BY <1>4, <2>1 DEF Start
    <3>2. queue[c] = <<>> /\ open[c] = "closed" /\ pending[c] = "none" /\ shutdown.copies = {}
      BY <1>4, <3>1 DEF Start, SessionInv
    <3> QED  BY <3>1, <3>2 DEF Untouched
  <2> QED  BY <2>1, UntouchedNext
<1> QED  BY <1>1, <1>2, <1>3, <1>4

LEMMA UntouchedShutdown ==
    ASSUME Types, QueueInv, SessionInv, UntouchedInv, Shutdown
    PROVE  UntouchedInv'
<1> USE DEF diskVars, copyVars, serviceVars, trackerVars, shutdownUnchanged
<1>c. /\ shutdown.copies \in SUBSET Copy /\ Modified \in SUBSET Copy
      /\ queue \in [Copy -> Seq(Task)] /\ untouched \subseteq Copy
      /\ shutdown \in ShutdownType
  BY DEF Types, ShutdownType, Modified
<1>p. \A p \in Phase : [shutdown EXCEPT !.phase = p].copies = shutdown.copies
  BY EnteredIs
<1>q. /\ "acknowledged" \in Phase /\ "leaving" \in Phase
  BY DEF Phase
<1>a. Acknowledge \/ Enters("leaving") \/ Veto => shutdown'.copies \subseteq shutdown.copies
  BY <1>p, <1>q, NoShutdownIs DEF Acknowledge, Enters, Veto
\* What a shutdown leaves as it is.
<1>k. ASSUME UNCHANGED <<disk, session, open, model, untouched, unrestored>>,
             \A c \in Copy : pending'[c] \in {"none", pending[c]},
             ~EmptyWindow => \A c \in untouched : c \notin shutdown'.copies,
             ~EmptyWindow => \A c \in untouched : \A i \in DOMAIN queue'[c] :
                \/ i = 1 /\ queue[c] # <<>> /\ queue'[c][1].kind = queue[c][1].kind
                \/ \E j \in DOMAIN queue[c] : queue'[c][i].kind = queue[c][j].kind
      PROVE  UntouchedInv'
  <2>1. ASSUME ~EmptyWindow, NEW c \in untouched PROVE Untouched(c)'
    <3>1. Untouched(c) /\ c \in Copy
      BY <1>c, <2>1, UntouchedIs
    <3>2. queue[c] # <<>> => queue[c][1].kind = "read"
      BY <1>c, <3>1, TailIs DEF Untouched
    <3>3. \A i \in DOMAIN queue'[c] : queue'[c][i].kind = "read"
      BY <1>k, <2>1, <3>1, <3>2 DEF Untouched
    <3> QED  BY <1>k, <2>1, <3>1, <3>3 DEF Untouched
  <2> QED  BY <1>k, <2>1, UntouchedNext
<1>s. ~EmptyWindow => \A c \in untouched : c \notin shutdown.copies /\ c \notin Modified
  BY UntouchedIs DEF Untouched, Modified
<1>u. ASSUME UNCHANGED <<disk, session, open, model, untouched, unrestored, pending, queue>>,
             shutdown'.copies \subseteq shutdown.copies
      PROVE  UntouchedInv'
  BY <1>k, <1>s, <1>u
<1>n. ASSUME NEW C \in SUBSET Copy, NoVeto(C),
             UNCHANGED <<disk, session, open, model, untouched, unrestored, pending>>,
             session = "ready" /\ ~EmptyWindow => \A c \in untouched : c \notin C
      PROVE  UntouchedInv'
  <2>1. shutdown'.copies = shutdown.copies
    BY <1>n, NoVetoIs
  <2>2. ~EmptyWindow => \A c \in untouched : queue'[c] = queue[c]
    BY <1>c, <1>n, NoVetoIs
  <2> QED  BY <1>k, <1>n, <1>s, <2>1, <2>2
<1>h. ASSUME NEW C \in SUBSET Copy, HandleModified(C), C \in {shutdown.copies, Modified},
             UNCHANGED <<disk, session, open, model, untouched, unrestored, pending>>
      PROVE  UntouchedInv'
  <2>1. PICK toBackup \in {C, {}, C \cap Scratchpad} : BackUp(C, toBackup)
    BY <1>h DEF HandleModified
  <2>2. shutdown'.copies = C /\ \A c \in Copy \ C : queue'[c] = queue[c]
    BY <1>h, <2>1, BackUpIs
  <2> QED  BY <1>c, <1>h, <1>k, <1>s, <2>2
<1>z. ASSUME NEW o \in {"tracker", "shutdown"}, queue' = [c \in Copy |-> Cancel(queue[c], o)],
             UNCHANGED <<disk, session, open, model, untouched, unrestored>>,
             \A c \in Copy : pending'[c] \in {"none", pending[c]},
             shutdown'.copies \subseteq shutdown.copies \cup Modified
      PROVE  UntouchedInv'
  <2>1. ASSUME NEW c \in untouched, NEW i \in DOMAIN queue'[c]
        PROVE  \/ i = 1 /\ queue[c] # <<>> /\ queue'[c][1].kind = queue[c][1].kind
               \/ \E j \in DOMAIN queue[c] : queue'[c][i].kind = queue[c][j].kind
    <3>1. queue'[c] = Cancel(queue[c], o) /\ queue[c] \in Seq(Task) /\ OneOf(queue[c], o)
      BY <1>c, <1>z, CancelAllIs
    <3>2. o # "nobody"
      OBVIOUS
    <3>3. queue[c] # <<>> => queue'[c][1].kind = queue[c][1].kind
      BY <3>1, <3>2, CancelIs
    <3>4. queue[c] # <<>>
      BY <2>1, <3>1, <3>2, CancelIs
    <3>5. i = 1 \/ \E j \in DOMAIN queue[c] : i <= j /\ queue'[c][i] = queue[c][j]
      BY <3>1, <3>2, CancelIs
    <3> QED  BY <3>3, <3>4, <3>5
  <2> QED  BY <1>k, <1>s, <1>z, <2>1
<1>1. CASE BeginShutdown
  <2>1. shutdown'.copies = Modified
    BY <1>1 DEF BeginShutdown, NoShutdown
  <2> QED  BY <1>1, <1>z, <2>1 DEF BeginShutdown, CancelBackupOperations
<1>2. CASE DiscardRest
  <2>1. {c \in Copy : model[c] # Unknown} \ Except \in SUBSET Copy
    OBVIOUS
  <2>2. session = "ready" /\ ~EmptyWindow => \A c \in untouched : c \in Except
    BY UntouchedIs DEF Except, Untouched
  <2> QED  BY <1>2, <1>n, <2>1, <2>2 DEF DiscardRest
<1>3. CASE DiscardHome
  <2>1. ~EmptyWindow => untouched = {}
    BY <1>3, UntouchedIs DEF DiscardHome, Except, Untouched
  <2> QED  BY <1>3, <2>1, UntouchedNext DEF DiscardHome
<1>4. CASE AutoSave
  <2>1. shutdown'.copies = shutdown.copies
    BY <1>4, <1>c DEF AutoSave, ShutdownType
  <2> QED  BY <1>4, <1>u, <2>1 DEF AutoSave
<1>5. CASE NoAutoSave
  BY <1>5, <1>c, <1>h DEF NoAutoSave
<1>6. CASE AutoSaveEnds
  BY <1>6, <1>c, <1>h, <1>n, <1>s DEF AutoSaveEnds
<1>7. CASE BackupEnds
  <2>1. shutdown'.copies \subseteq shutdown.copies
    <3>1. CASE Acknowledge
      BY <1>a, <3>1
    <3>2. CASE shutdown' = [shutdown EXCEPT
                               !.phase = IF BackupError THEN "error" ELSE "confirm",
                               !.copies = @ \ shutdown.backups]
      <4>1. shutdown'.copies = shutdown.copies \ shutdown.backups
        BY <1>c, <3>2 DEF ShutdownType
      <4> QED  BY <4>1
    <3> QED  BY <1>7, <3>1, <3>2 DEF BackupEnds
  <2> QED  BY <1>7, <1>z, <2>1 DEF BackupEnds
<1>8. CASE ErrorDialog
  BY <1>8, <1>a, <1>u DEF ErrorDialog
<1>9. CASE ConfirmSave
  <2>1. shutdown'.copies = shutdown.copies
    BY <1>9, <1>c DEF ConfirmSave, ShutdownType
  <2> QED  BY <1>9, <1>u, <2>1 DEF ConfirmSave
<1>10. CASE SaveEnds
  <2>1. CASE Veto /\ UNCHANGED queue
    BY <1>10, <1>a, <1>u, <2>1 DEF SaveEnds
  <2>2. CASE NoVeto(shutdown.copies)
    BY <1>10, <1>c, <1>n, <1>s, <2>2 DEF SaveEnds
  <2> QED  BY <1>10, <2>1, <2>2 DEF SaveEnds
<1>11. CASE ConfirmDontSave
  BY <1>11, <1>c, <1>n, <1>s DEF ConfirmDontSave
<1>12. CASE ConfirmCancel
  BY <1>12, <1>a, <1>u DEF ConfirmCancel
<1>13. CASE DiscardEnds
  <2>1. ASSUME NEW c \in untouched, NEW i \in DOMAIN queue'[c]
        PROVE  \E j \in DOMAIN queue[c] : queue'[c][i].kind = queue[c][j].kind
    <3>1. queue'[c] = Disowned(queue[c]) /\ queue[c] \in Seq(Task)
      BY <1>13, <1>c, DisownAllIs
    <3>2. /\ DOMAIN Disowned(queue[c]) = DOMAIN queue[c]
          /\ \A j \in DOMAIN queue[c] : Disowned(queue[c])[j].kind = queue[c][j].kind
      BY <3>1, DisownedIs
    <3> QED  BY <2>1, <3>1, <3>2
  <2> QED  BY <1>13, <1>a, <1>k, <1>s, <2>1 DEF DiscardEnds
<1>14. CASE WillShutdown
  BY <1>14, <1>a, <1>z DEF WillShutdown, CancelBackupOperations
<1>15. CASE Exit
  BY <1>15, UntouchedSession DEF Exit
<1>16. CASE ConfirmFails
  BY <1>16, <1>u, ConfirmFailsIs
<1> QED
  BY <1>1, <1>2, <1>3, <1>4, <1>5, <1>6, <1>7, <1>8, <1>9, <1>10, <1>11, <1>12, <1>13, <1>14,
     <1>15, <1>16 DEF Shutdown

LEMMA UntouchedStep ==
    ASSUME Types, QueueInv, SessionInv, UntouchedInv, [Next]_vars
    PROVE  UntouchedInv'
<1>1. CASE UNCHANGED vars
  BY <1>1 DEF UntouchedInv, vars, diskVars, copyVars, serviceVars, trackerVars
<1>2. CASE Next
  BY <1>2, UntouchedCopy, UntouchedSession, UntouchedShutdown DEF Next, Crash
<1> QED  BY <1>1, <1>2

-----------------------------------------------------------------------------
(* Theorems of every window *)

LEMMA InvInit == Init => BackupInv
<1> SUFFICES ASSUME Init PROVE BackupInv
  OBVIOUS
<1>1. Types
  <2>1. MaxText \in Nat /\ MaxSession \in Nat \ {0} /\ {} \in SUBSET Copy /\ <<>> \in Seq(Task)
    BY BoundAssumption
  <2>2. /\ 0 \in 0..MaxText /\ Missing \in Empty..MaxText /\ Unknown \in Unknown..MaxText
        /\ 1 \in 1..MaxSession
    BY <2>1 DEF Missing, Empty, Unknown
  <2>3. /\ disk \in [Copy -> Empty..MaxText] /\ model \in [Copy -> Unknown..MaxText]
        /\ file \in [Copy -> 0..MaxText] /\ text \in [Copy -> 0..MaxText]
        /\ version \in [Copy -> 0..MaxText] /\ \A c \in Copy : version[c] <= edits
        /\ edits \in 0..MaxText
    BY <2>2 DEF Init
  <2>4. /\ open \in [Copy -> {"closed", "opening", "open"}] /\ modified \in [Copy -> BOOLEAN]
        /\ queue \in [Copy -> Seq(Task)]
        /\ pending \in [Copy -> {"none", "timer", "backup", "discard"}]
    BY <2>1 DEF Init
  <2>5. /\ suspended \in BOOLEAN /\ unrestored \in SUBSET Copy /\ missed \in SUBSET Copy
        /\ stale \in SUBSET Copy /\ untouched \in SUBSET Copy /\ given \in SUBSET Copy
        /\ session \in {"down", "starting", "resolved", "ready"} /\ shutdown \in ShutdownType
        /\ sessions \in 1..MaxSession
    BY <2>1, <2>2, NoShutdownIs DEF Init
  <2> QED  BY <2>3, <2>4, <2>5 DEF Types
<1>2. QueueInv /\ SessionInv
  BY NoShutdownIs DEF Init, QueueInv, SessionInv, Fits, Has1, HasKind
<1>3. StepInv /\ CleanInv /\ UntouchedInv
  BY NoShutdownIs DEF Init, StepInv, CleanInv, UntouchedInv, HasKind, Missing
<1> QED  BY <1>1, <1>2, <1>3 DEF BackupInv

\* BackupInv holds in every state: of any number of working copies, edits and sessions,
\* with failures of every operation, crashes at any step, and working copies that
\* change while a shutdown is handled.
THEOREM BackupInvariant == Spec => []BackupInv
<1>1. BackupInv /\ [Next]_vars => BackupInv'
  BY TypesStep, QueueStep, SessionStep, StepStep, CleanStep, UntouchedStep DEF BackupInv
<1> QED  BY <1>1, InvInit, PTL DEF Spec

\* Every variable keeps its type, only the head of an operation queue runs, and the
\* tracker's entry in pendingBackupOperations stands for an operation that is queued.
THEOREM BackupTypes == Spec => []TypeOK
<1>1. BackupInv => TypeOK
  <2> SUFFICES ASSUME BackupInv PROVE TypeOK
    OBVIOUS
  <2>1. ASSUME NEW c \in Copy
        PROVE  /\ \A i \in DOMAIN queue[c] : queue[c][i].begun => i = 1
               /\ pending[c] \in {"backup", "discard"} <=>
                     \E i \in DOMAIN queue[c] : queue[c][i].owner = "tracker"
    BY DEF BackupInv, QueueInv, Fits
  <2> QED  BY <2>1 DEF BackupInv, Types, TypeOK
<1> QED  BY <1>1, BackupInvariant, PTL

\* discardBackup: when nothing is pending or queued, what is saved, reverted or closed
\* has no backup that the next session would restore, unless an operation failed or was
\* dropped by a shutdown: a discard queues behind every write that could make one.
THEOREM CleanTheorem == Spec => []CleanIsDiscarded
<1>1. BackupInv => CleanIsDiscarded
  <2> SUFFICES ASSUME BackupInv, session = "ready", shutdown.phase = "off",
                      NEW c \in Copy \ (Modified \cup untouched \cup missed), queue[c] = <<>>
               PROVE  disk[c] < 0
    BY DEF CleanIsDiscarded
  <2>1. ~Has1(queue[c], "delete", "tracker")
    BY DEF Has1
  <2>2. ~(disk[c] >= 0)
    BY <2>1 DEF BackupInv, CleanInv, Early
  <2>3. disk[c] \in Int
    BY BoundAssumption DEF BackupInv, Types, Empty
  <2> QED  BY <2>2, <2>3
<1> QED  BY <1>1, BackupInvariant, PTL

\* backup and doDiscardBackup: between operations the model of the backup service lists
\* no backup without a file and misses none that is complete, also after an operation
\* that failed in the middle.
THEOREM InStepTheorem == Spec => []ModelIsInStep
<1>1. BackupInv => ModelIsInStep
  BY DEF BackupInv, StepInv, ModelIsInStep, Begun
<1> QED  BY <1>1, BackupInvariant, PTL

\* A step of the session leaves the backup of an untouched copy as it is.
LEMMA UntouchedDisk ==
    ASSUME BackupInv, [Next]_vars, ~EmptyWindow, NEW c \in untouched, session' # "down"
    PROVE  disk'[c] = disk[c]
<1>0. c \in Copy /\ Untouched(c) /\ queue[c] \in Seq(Task) /\ disk \in [Copy -> Empty..MaxText]
  BY UntouchedIs DEF BackupInv, Types
<1>1. CASE UNCHANGED disk
  BY <1>1
<1>2. CASE \E d \in Copy : StartWrite(d) \/ EndWrite(d) \/ StartDelete(d)
  <2>1. PICK d \in Copy : StartWrite(d) \/ EndWrite(d) \/ StartDelete(d)
    BY <1>2
  <2>2. queue[d] # <<>> /\ Head(queue[d]).kind # "read"
    BY <2>1 DEF StartWrite, EndWrite, StartDelete, Running
  <2>3. d # c
    BY <1>0, <2>2, TailIs DEF Untouched
  <2> QED  BY <1>0, <2>1, <2>3 DEF StartWrite, EndWrite, StartDelete
<1>3. CASE DiscardHome
  BY <1>0, <1>3 DEF DiscardHome, Except, Untouched
<1> QED
  BY <1>1, <1>2, <1>3
     DEF Next, BackupTimer, Operation, SkipWrite, EndDelete, OperationFails, WorkingCopy, Open,
         Resolve, Edit, Save, Revert, Close, RestoreBackup, ResolveModel,
         ResolveBackupsToRestore, Shutdown, BeginShutdown, DiscardRest, AutoSave, NoAutoSave,
         AutoSaveEnds, BackupEnds, ErrorDialog, ConfirmSave, SaveEnds, ConfirmDontSave,
         ConfirmCancel, ConfirmFails, DiscardEnds, WillShutdown, Exit, Crash, Down, Start, vars,
         diskVars, shutdownUnchanged

\* discardBackupsBeforeShutdown: a backup of an earlier session is neither written nor
\* deleted before its editor opens, whenever the window closes and however often.
THEOREM UntouchedTheorem == Spec => UntouchedIsKept
<1>1. BackupInv /\ [Next]_vars =>
         [~EmptyWindow => \A c \in untouched : session' # "down" => disk'[c] = disk[c]]_vars
  BY UntouchedDisk
<1> QED  BY <1>1, BackupInvariant, PTL DEF Spec, UntouchedIsKept

-----------------------------------------------------------------------------
(* A shutdown without interference *)

\* Everything known of a working copy holds while neither it nor the phase changes.
LEMMA CopyFrame ==
    ASSUME NEW d \in Copy, CopyInv(d), shutdown'.phase = shutdown.phase,
           queue'[d] = queue[d], disk'[d] = disk[d], text'[d] = text[d], open'[d] = open[d],
           modified'[d] = modified[d], version'[d] = version[d], model'[d] = model[d],
           pending'[d] = pending[d], d \in missed => d \in missed', d \in stale => d \in stale',
           d \in given => d \in given', d \in shutdown'.backups => d \in shutdown.backups
    PROVE  CopyInv(d)'
<1>1. (d \in Modified' <=> d \in Modified) /\ (Early' <=> Early) /\ (Has(d)' <=> Has(d))
  BY DEF Modified, Early, Has
<1>2. Stored(d)' <=> Stored(d)
  BY DEF Stored
<1>3. Owned(d)' /\ Quiet(d)' /\ Backed(d)' /\ (open'[d] # "open" => version'[d] = 0)
  <2>1. Owned(d)'
    BY <1>1 DEF CopyInv, Owned
  <2>2. Quiet(d)'
    BY DEF CopyInv, Quiet
  <2>3. Backed(d)'
    BY <1>1 DEF CopyInv, Backed
  <2> QED  BY <2>1, <2>2, <2>3 DEF CopyInv
<1>4. Versions(d) => Versions(d)'
  <2>1. (OpenVersions(d)' <=> OpenVersions(d)) /\ (ClosedVersions(d)' <=> ClosedVersions(d))
    BY DEF OpenVersions, ClosedVersions
  <2> QED  BY <1>1, <1>2, <2>1 DEF Versions
<1>5. Kept(d) => Kept(d)'
  BY <1>1, <1>2 DEF Kept
<1> QED  BY <1>1, <1>3, <1>4, <1>5 DEF CopyInv

LEMMA PhaseFrame ==
    ASSUME Types, PhaseInv, shutdown'.phase = shutdown.phase,
           \/ shutdown.phase = "off"
           \/ /\ shutdown'.copies = shutdown.copies /\ shutdown'.saving = shutdown.saving
              /\ shutdown'.count = shutdown.count
              /\ shutdown.backups \subseteq shutdown'.backups
              /\ \A c \in Copy : c \in Modified' <=> c \in Modified
    PROVE  PhaseInv'
<1>1. CASE shutdown.phase = "off"
  BY <1>1 DEF PhaseInv, Early
<1>2. CASE /\ shutdown'.copies = shutdown.copies /\ shutdown'.saving = shutdown.saving
           /\ shutdown'.count = shutdown.count
           /\ shutdown.backups \subseteq shutdown'.backups
           /\ \A c \in Copy : c \in Modified' <=> c \in Modified
  <2>1. Modified' = Modified
    BY <1>2 DEF Modified
  <2>2. Early' <=> Early
    BY DEF Early
  <2> QED  BY <1>2, <2>1, <2>2 DEF PhaseInv
<1> QED  BY <1>1, <1>2

\* A step of one working copy.
LEMMA ExitOne ==
    ASSUME Types, ExitInv, NEW c \in Copy, shutdown'.phase = shutdown.phase, CopyInv(c)',
           \/ shutdown.phase = "off"
           \/ /\ shutdown'.copies = shutdown.copies /\ shutdown'.saving = shutdown.saving
              /\ shutdown'.count = shutdown.count
              /\ shutdown.backups \subseteq shutdown'.backups
              /\ UNCHANGED <<open, modified>>,
           shutdown'.backups \subseteq shutdown.backups \cup {c},
           \A d \in Copy : d # c =>
              /\ queue'[d] = queue[d] /\ disk'[d] = disk[d] /\ text'[d] = text[d]
              /\ open'[d] = open[d] /\ modified'[d] = modified[d] /\ version'[d] = version[d]
              /\ model'[d] = model[d] /\ pending'[d] = pending[d]
              /\ d \in missed => d \in missed'
              /\ (d \in stale => d \in stale') /\ (d \in given => d \in given')
    PROVE  ExitInv'
<1>1. PhaseInv'
  BY PhaseFrame DEF ExitInv, Modified
<1>2. ASSUME NEW d \in Copy, d # c PROVE CopyInv(d)'
  <2>1. d \in shutdown'.backups => d \in shutdown.backups
    BY <1>2
  <2> QED  BY <1>2, <2>1, CopyFrame DEF ExitInv
<1> QED  BY <1>1, <1>2 DEF ExitInv

\* What is stored needs no operation but writes that will be skipped.
LEMMA StoredHead ==
    ASSUME Types, NEW c \in Copy, queue[c] # <<>>, CopyInv(c), c \in Modified, c \notin stale,
           (Early /\ Has(c)) \/ (~Early /\ c \notin given)
    PROVE  queue[c][1].kind = "write" /\ queue[c][1].version = model[c] /\ ~queue[c][1].begun
<1>1. Stored(c)
  BY DEF CopyInv, Versions, Kept, Modified
<1>2. 1 \in DOMAIN queue[c]
  BY TailIs DEF Types
<1> QED  BY <1>1, <1>2 DEF Stored

LEMMA TailKeeps ==
    ASSUME Types, QueueInv, NEW c \in Copy, queue[c] # <<>>, queue'[c] = Tail(queue[c]),
           text'[c] = text[c], version'[c] = version[c], modified'[c] = modified[c],
           open'[c] = open[c]
    PROVE  /\ disk'[c] = disk[c] /\ model'[c] = model[c] /\ Stored(c) => Stored(c)'
           /\ model'[c] <= version[c] /\ OpenVersions(c) => OpenVersions(c)'
           /\ ClosedVersions(c) /\ queue[c][1].kind # "read"
                 /\ ~(queue[c][1].kind = "delete" /\ queue[c][1].owner = "tracker")
              => ClosedVersions(c)'
           /\ \A k, o : Has1(Tail(queue[c]), k, o) => Has1(queue[c], k, o)
<1>0. queue[c] \in Seq(Task) /\ 1 \in DOMAIN queue[c]
  BY TailIs DEF Types
<1>1. /\ \A i \in DOMAIN Tail(queue[c]) : /\ i + 1 \in DOMAIN queue[c]
                                          /\ Tail(queue[c])[i] = queue[c][i + 1]
      /\ \A i \in DOMAIN queue[c] : i # 1 => /\ i - 1 \in DOMAIN Tail(queue[c])
                                             /\ Tail(queue[c])[i - 1] = queue[c][i]
  BY <1>0, TailIs
<1>2. ASSUME disk'[c] = disk[c], model'[c] = model[c], Stored(c) PROVE Stored(c)'
  BY <1>1, <1>2 DEF Stored
<1>3. ASSUME model'[c] <= version[c], OpenVersions(c) PROVE OpenVersions(c)'
  BY <1>1, <1>3 DEF OpenVersions
<1>4. ASSUME ClosedVersions(c), queue[c][1].kind # "read",
             ~(queue[c][1].kind = "delete" /\ queue[c][1].owner = "tracker")
      PROVE  ClosedVersions(c)'
  <2>1. PICK i \in DOMAIN queue[c] : queue[c][i].kind = "delete" /\ queue[c][i].owner = "tracker"
    BY <1>0, <1>4 DEF ClosedVersions, Has1
  <2>2. i # 1
    BY <1>4, <2>1
  <2>3. Has1(Tail(queue[c]), "delete", "tracker")
    BY <1>1, <2>1, <2>2 DEF Has1
  <2> QED  BY <2>3 DEF ClosedVersions
<1>5. ASSUME NEW k, NEW o, Has1(Tail(queue[c]), k, o) PROVE Has1(queue[c], k, o)
  BY <1>1, <1>5 DEF Has1
<1> QED  BY <1>2, <1>3, <1>4, <1>5

\* The head of a queue has ended.
LEMMA ExitEnds ==
    ASSUME BackupInv, ExitInv, NEW c \in Copy, NEW ok \in BOOLEAN, queue[c] # <<>>, Ends(c, ok),
           UNCHANGED <<text, open, modified, version, given>>,
           \A d \in Copy : d # c => disk'[d] = disk[d] /\ model'[d] = model[d],
           Early /\ c \notin stale' => Versions(c)', ~Early => Kept(c)', Backed(c)'
    PROVE  ExitInv'
<1> DEFINE t == queue[c][1]
<1>0. Types /\ QueueInv /\ SessionInv /\ CopyInv(c) /\ queue[c] \in Seq(Task)
  BY DEF BackupInv, ExitInv, Types
<1>1. /\ Only(c, Tail(queue[c]), IF t.owner = "tracker" THEN "none" ELSE pending[c])
      /\ Tail(queue[c]) \in Seq(Task) /\ t \in Task
      /\ (IF t.owner = "tracker" THEN "none" ELSE pending[c])
            \in {"none", "timer", "backup", "discard"}
      /\ missed' = IF ok \/ t.owner = "nobody" THEN missed ELSE missed \cup {c}
      /\ shutdown' = IF t.owner # "shutdown" \/ t.kind = "delete" THEN shutdown
                     ELSE IF ok THEN [shutdown EXCEPT !.backups = @ \cup {c}]
                     ELSE [shutdown EXCEPT !.failed = TRUE]
      /\ stale' = IF ~ok /\ t.kind = "delete" THEN stale \cup {c}
                  ELSE IF ok /\ t.begun /\ t.owner # "nobody" THEN stale \ {c}
                  ELSE stale
  BY <1>0, EndsIs
<1> HIDE DEF t
<1>2. /\ queue'[c] = Tail(queue[c]) /\ pending'[c] \in {"none", pending[c]}
      /\ \A d \in Copy : d # c => queue'[d] = queue[d] /\ pending'[d] = pending[d]
  <2>1. PICK p \in {"none", "timer", "backup", "discard"} :
          p \in {"none", pending[c]} /\ Only(c, Tail(queue[c]), p)
    BY <1>1
  <2>2. /\ queue \in [Copy -> Seq(Task)]
        /\ pending \in [Copy -> {"none", "timer", "backup", "discard"}]
    BY <1>0 DEF Types
  <2>3. /\ queue'[c] = Tail(queue[c]) /\ pending'[c] = p
        /\ \A d \in Copy : d # c => queue'[d] = queue[d] /\ pending'[d] = pending[d]
    BY <2>1, <2>2 DEF Only
  <2> QED  BY <2>1, <2>3
<1>3. /\ shutdown'.phase = shutdown.phase /\ shutdown'.copies = shutdown.copies
      /\ shutdown'.saving = shutdown.saving /\ shutdown'.count = shutdown.count
      /\ shutdown.backups \subseteq shutdown'.backups
      /\ shutdown'.backups \subseteq shutdown.backups \cup {c}
  BY <1>0, <1>1 DEF Types, ShutdownType
<1>4. Owned(c)'
  <2>1. /\ \A i \in DOMAIN Tail(queue[c]) : /\ i + 1 \in DOMAIN queue[c] /\ i \in Int /\ i # 0
                                            /\ Tail(queue[c])[i] = queue[c][i + 1]
        /\ Len(Tail(queue[c])) = Len(queue[c]) - 1 /\ Len(queue[c]) \in Nat
    BY <1>0, TailIs
  <2>2. (c \in Modified' <=> c \in Modified) /\ (Early' <=> Early)
    BY <1>3 DEF Modified, Early
  <2>3. Owned(c)
    BY <1>0 DEF CopyInv
  <2> SUFFICES ASSUME NEW i \in DOMAIN queue'[c]
        PROVE  /\ queue'[c][i].owner \in {"tracker", "shutdown"} /\ queue'[c][i].kind = "write" =>
                     /\ c \in Modified' /\ i = Len(queue'[c])
                     /\ queue'[c][i].version = version'[c] /\ queue'[c][i].text = text'[c]
               /\ Early' /\ queue'[c][i].owner = "tracker" /\ queue'[c][i].kind = "delete" =>
                     ~modified'[c]
               /\ Early' /\ queue'[c][i].owner = "nobody" => i = 1
               /\ queue'[c][i].kind = "read" => i = Len(queue'[c])
    BY DEF Owned
  <2>4. /\ i + 1 \in DOMAIN queue[c] /\ queue'[c][i] = queue[c][i + 1] /\ i + 1 # 1
        /\ (i + 1 = Len(queue[c]) => i = Len(queue'[c]))
    BY <1>2, <2>1
  <2> QED  BY <2>2, <2>3, <2>4 DEF Owned
<1>5. Quiet(c)' /\ (open'[c] # "open" => version'[c] = 0)
  BY <1>0, <1>2, <1>3 DEF CopyInv, Quiet
<1>6. CopyInv(c)'
  <2>1. Early' <=> Early
    BY <1>3 DEF Early
  <2> QED  BY <1>4, <1>5, <2>1 DEF CopyInv
<1>7. \A d \in Copy : d # c => (d \in missed => d \in missed') /\ (d \in stale => d \in stale')
  BY <1>1
<1> QED  BY <1>0, <1>2, <1>3, <1>6, <1>7, ExitOne

LEMMA ExitSkip ==
    ASSUME BackupInv, ExitInv, NEW c \in Copy, SkipWrite(c) \/ OperationFails(c)
    PROVE  ExitInv'
<1> USE DEF diskVars, copyVars
<1> DEFINE t == queue[c][1]
<1>0. Types /\ QueueInv /\ SessionInv /\ CopyInv(c) /\ queue[c] \in Seq(Task) /\ queue[c] # <<>>
      /\ queue \in [Copy -> Seq(Task)] /\ Head(queue[c]) = t /\ t \in Task /\ 1 \in DOMAIN queue[c]
      /\ Fits(queue[c], pending[c])
  <2>1. queue[c] # <<>>
    BY DEF SkipWrite, OperationFails, Running
  <2> QED  BY <2>1, TailIs DEF BackupInv, ExitInv, Types, QueueInv
<1>1. PICK ok \in BOOLEAN : Ends(c, ok) /\ (ok <=> SkipWrite(c)) /\ (~ok => OperationFails(c))
  <2>1. CASE SkipWrite(c)
    BY <2>1 DEF SkipWrite
  <2>2. CASE ~SkipWrite(c)
    BY <2>2 DEF OperationFails
  <2> QED  BY <2>1, <2>2
<1>2. /\ UNCHANGED <<disk, text, open, modified, version, model, given>>
      /\ t.kind \in {"write", "delete"}
      /\ ok => t.kind = "write" /\ ~t.begun /\ model[c] = t.version
  BY <1>0, <1>1 DEF SkipWrite, OperationFails, Running
<1>3. /\ queue' = [queue EXCEPT ![c] = Tail(queue[c])]
      /\ pending' = [pending EXCEPT ![c] = IF t.owner = "tracker" THEN "none" ELSE @]
      /\ missed' = IF ok \/ t.owner = "nobody" THEN missed ELSE missed \cup {c}
      /\ shutdown' = IF t.owner # "shutdown" \/ t.kind = "delete" THEN shutdown
                     ELSE IF ok THEN [shutdown EXCEPT !.backups = @ \cup {c}]
                     ELSE [shutdown EXCEPT !.failed = TRUE]
      /\ stale' = IF ~ok /\ t.kind = "delete" THEN stale \cup {c}
                  ELSE IF ok /\ t.begun /\ t.owner # "nobody" THEN stale \ {c}
                  ELSE stale
  BY <1>0, <1>1 DEF Ends
<1>o. t.owner \in {"tracker", "shutdown"} /\ t.kind = "write" =>
         t.version = version[c] /\ t.text = text[c] /\ c \in Modified
  BY <1>0 DEF CopyInv, Owned
<1> HIDE DEF t
<1>4. /\ queue'[c] = Tail(queue[c]) /\ stale \subseteq stale'
      /\ (c \notin stale' => t.kind = "write" /\ c \notin stale)
      /\ (t.owner # "tracker" => pending'[c] = pending[c])
      /\ missed \subseteq missed'
  BY <1>0, <1>2, <1>3 DEF Types
<1>5. Stored(c) => Stored(c)'
  BY <1>0, <1>2, <1>4, TailKeeps
<1>h. Has(c)' <=> Has(c)
  BY <1>2 DEF Has
<1>6. ASSUME Early, c \notin stale' PROVE Versions(c)'
  <2>1. Versions(c)
    BY <1>0, <1>4, <1>6 DEF CopyInv
  <2>2. OpenVersions(c) => OpenVersions(c)'
    BY <1>0, <1>2, <1>4, TailKeeps DEF OpenVersions
  <2>3. ClosedVersions(c) => ClosedVersions(c)'
    BY <1>0, <1>2, <1>4, <1>6, TailKeeps DEF t
  <2>4. ASSUME modified'[c], c \notin missed', pending'[c] = "none" PROVE Has(c)
    <3>1. CASE t.owner = "tracker"
      <4>1. ok /\ t.kind = "write"
        BY <1>3, <1>4, <1>6, <2>4, <3>1
      <4> QED  BY <1>2, <1>o, <3>1, <4>1 DEF Has
    <3>2. CASE t.owner # "tracker"
      BY <1>2, <1>4, <2>1, <2>4, <3>2 DEF Versions
    <3> QED  BY <3>1, <3>2
  <2> QED  BY <1>2, <1>5, <1>h, <2>1, <2>2, <2>3, <2>4 DEF Versions
<1>7. ASSUME ~Early PROVE Kept(c)'
  <2>1. Kept(c)
    BY <1>0, <1>7 DEF CopyInv
  <2>2. Has1(Tail(queue[c]), "delete", "shutdown") => Has1(queue[c], "delete", "shutdown")
    BY <1>0, KindsTail
  <2> QED  BY <1>2, <1>4, <1>5, <1>h, <2>1, <2>2 DEF Kept, Modified
<1>8. Backed(c)'
  <2>0. shutdown'.phase = shutdown.phase
    BY <1>0, <1>1, SessionEnds
  <2>1. CASE c \in shutdown.backups
    BY <1>0, <1>2, <1>4, <1>h, <2>0, <2>1 DEF CopyInv, Backed, Modified
  <2>2. CASE c \notin shutdown.backups /\ c \in shutdown'.backups
    <3>1. ok /\ t.owner = "shutdown" /\ t.kind = "write"
      BY <1>0, <1>2, <1>3, <2>2 DEF Types, ShutdownType
    <3>2. Has(c)
      BY <1>2, <1>o, <3>1 DEF Has
    <3> QED  BY <1>h, <3>2 DEF Backed
  <2> QED  BY <2>1, <2>2 DEF Backed
<1> QED  BY <1>0, <1>1, <1>2, <1>6, <1>7, <1>8, ExitEnds

LEMMA ExitEndWrite ==
    ASSUME BackupInv, ExitInv, NEW c \in Copy, EndWrite(c)
    PROVE  ExitInv'
<1> USE DEF copyVars
<1> DEFINE t == queue[c][1]
<1>0. Types /\ QueueInv /\ SessionInv /\ CopyInv(c) /\ queue[c] \in Seq(Task) /\ queue[c] # <<>>
      /\ queue \in [Copy -> Seq(Task)] /\ Head(queue[c]) = t /\ t \in Task /\ 1 \in DOMAIN queue[c]
      /\ Fits(queue[c], pending[c]) /\ disk \in [Copy -> Empty..MaxText]
      /\ model \in [Copy -> Unknown..MaxText]
  <2>1. queue[c] # <<>>
    BY DEF EndWrite, Running
  <2> QED  BY <2>1, TailIs DEF BackupInv, ExitInv, Types, QueueInv
<1>1. /\ Ends(c, TRUE) /\ UNCHANGED <<text, open, modified, version, given, session>>
      /\ t.kind = "write" /\ t.begun
      /\ disk'[c] = (IF disk[c] = Missing THEN Missing ELSE t.text) /\ model'[c] = t.version
      /\ \A d \in Copy : d # c => disk'[d] = disk[d] /\ model'[d] = model[d]
  BY <1>0 DEF EndWrite, Running
<1>2. /\ queue' = [queue EXCEPT ![c] = Tail(queue[c])]
      /\ pending' = [pending EXCEPT ![c] = IF t.owner = "tracker" THEN "none" ELSE @]
      /\ missed' = missed
      /\ shutdown' = IF t.owner # "shutdown" \/ t.kind = "delete" THEN shutdown
                     ELSE [shutdown EXCEPT !.backups = @ \cup {c}]
      /\ stale' = IF t.owner # "nobody" THEN stale \ {c} ELSE stale
  BY <1>0, <1>1 DEF Ends
<1>d. ASSUME Early PROVE disk'[c] = t.text
  <2>1. session \in {"resolved", "ready"}
    <3>1. session \notin {"down", "starting"}
      BY <1>0 DEF SessionInv
    <3> QED  BY <1>0, <3>1 DEF Types
  <2>2. disk[c] = Empty
    BY <1>0, <1>1, <1>d, <2>1 DEF BackupInv, StepInv, Begun, Early
  <2> QED  BY <1>1, <2>2 DEF Empty, Missing
<1>o. t.owner \in {"tracker", "shutdown"} =>
         t.version = version[c] /\ t.text = text[c] /\ c \in Modified /\ 1 = Len(queue[c])
  BY <1>0, <1>1 DEF CopyInv, Owned
<1>w. t.owner \in {"tracker", "shutdown", "nobody"}
  BY <1>0, <1>1 DEF Task, Fits
\* What begins is not stored yet.
<1>s. ~(c \in Modified /\ c \notin stale /\ ((Early /\ Has(c)) \/ (~Early /\ c \notin given)))
  BY <1>0, <1>1, StoredHead
<1>p. shutdown'.phase = shutdown.phase
  BY <1>0, <1>1, SessionEnds
<1>3. CASE t.owner \in {"tracker", "shutdown"}
  <2>1. Tail(queue[c]) = <<>>
    <3>1. Tail(queue[c]) \in Seq(Task) /\ Len(Tail(queue[c])) = Len(queue[c]) - 1
      BY <1>0, TailIs
    <3>2. Len(queue[c]) = 1
      BY <1>3, <1>o
    <3>3. Len(Tail(queue[c])) = 0
      BY <3>1, <3>2
    <3> QED  BY <3>1, <3>3, EmptySeq
  <2>2. queue'[c] = <<>> /\ Has(c)'
    BY <1>0, <1>1, <1>2, <1>3, <1>o, <2>1 DEF Has
  <2>3. Early
    <3>1. t.owner = "tracker" => pending[c] = "backup"
      BY <1>0, <1>1 DEF Fits
    <3>2. t.owner = "tracker" => shutdown.phase = "off"
      BY <1>0, <3>1 DEF CopyInv, Quiet
    <3>3. t.owner = "shutdown" => shutdown.phase = "backup"
      BY <1>0, <1>1 DEF QueueInv, Has1
    <3> QED  BY <1>3, <3>2, <3>3 DEF Early
  <2>4. Stored(c)'
    BY <1>1, <1>3, <1>d, <1>o, <2>2, <2>3 DEF Stored
  <2>5. model'[c] <= version'[c]
    BY <1>0, <1>1, <1>3, <1>o DEF Task
  <2>6. OpenVersions(c)' /\ open'[c] = "open"
    BY <1>1, <1>3, <1>o, <2>2, <2>5 DEF OpenVersions, Modified
  <2>7. Versions(c)'
    BY <2>2, <2>4, <2>6 DEF Versions
  <2> QED  BY <1>0, <1>1, <2>2, <2>3, <2>7, ExitEnds DEF Backed
<1>4. CASE t.owner = "nobody"
  <2>1. UNCHANGED <<pending, missed, shutdown, stale>> /\ queue'[c] = Tail(queue[c])
    BY <1>0, <1>1, <1>2, <1>4 DEF Types
  <2>2. ASSUME Early, c \notin stale PROVE Versions(c)'
    <3>1. Versions(c)
      BY <1>0, <2>2 DEF CopyInv
    <3>2. ASSUME open[c] = "open" PROVE OpenVersions(c)'
      <4>1. OpenVersions(c) /\ t.version <= version[c]
        BY <1>0, <1>1, <3>1, <3>2 DEF Versions, OpenVersions
      <4> QED  BY <1>0, <1>1, <2>1, <4>1, TailKeeps
    <3>3. open[c] # "open" => ClosedVersions(c)'
      BY <1>0, <1>1, <1>4, <2>1, <3>1, TailKeeps DEF Versions
    <3>4. ASSUME modified[c], t.version = version[c] PROVE Stored(c)'
      <4>1. open[c] = "open" /\ c \in Modified
        BY <1>0, <3>4 DEF QueueInv, Modified
      <4>2. t.text = text[c]
        BY <1>0, <1>1, <3>1, <3>4, <4>1 DEF Versions, OpenVersions
      <4>3. ASSUME NEW i \in DOMAIN Tail(queue[c])
            PROVE  /\ Tail(queue[c])[i].kind = "write" /\ ~Tail(queue[c])[i].begun
                   /\ Tail(queue[c])[i].version = version[c]
        <5>1. /\ i + 1 \in DOMAIN queue[c] /\ i + 1 # 1 /\ Tail(queue[c])[i] = queue[c][i + 1]
              /\ queue[c][i + 1] \in Task
          BY <1>0, TailIs
        <5> DEFINE u == queue[c][i + 1]
        <5>2. u.owner # "nobody" /\ ~u.begun
          BY <1>0, <2>2, <5>1 DEF CopyInv, Owned, Fits
        <5>3. u.kind # "read" /\ u.owner # "copy"
          BY <1>0, <4>1, <5>1 DEF QueueInv, HasKind, Fits
        <5>4. u.owner \in {"tracker", "shutdown"} /\ u.kind \in {"write", "delete"}
          BY <5>1, <5>2, <5>3 DEF Task
        <5>5. ~(u.owner = "tracker" /\ u.kind = "delete")
          BY <1>0, <2>2, <3>4, <5>1 DEF CopyInv, Owned
        <5>6. ~(u.owner = "shutdown" /\ u.kind = "delete")
          BY <1>0, <2>2, <5>1 DEF QueueInv, Has1, Early
        <5>7. u.kind = "write" => u.version = version[c]
          BY <1>0, <5>1, <5>4 DEF CopyInv, Owned
        <5> QED  BY <5>1, <5>2, <5>4, <5>5, <5>6, <5>7
      <4>4. disk'[c] = text'[c] /\ model'[c] = version[c]
        BY <1>1, <1>d, <2>2, <3>4, <4>2
      <4> QED  BY <2>1, <4>3, <4>4 DEF Stored
    <3>5. ~(modified[c] /\ c \notin missed /\ pending[c] = "none")
      <4>1. modified[c] => c \in Modified
        BY <1>0 DEF QueueInv, Modified
      <4> QED  BY <1>s, <2>2, <3>1, <4>1 DEF Versions
    <3> QED  BY <1>1, <2>1, <3>2, <3>3, <3>4, <3>5 DEF Versions, Has
  <2>3. ASSUME ~Early PROVE Kept(c)'
    <3>1. Has1(Tail(queue[c]), "delete", "shutdown") => Has1(queue[c], "delete", "shutdown")
      BY <1>0, KindsTail
    <3> QED  BY <1>0, <1>1, <1>s, <2>1, <2>3, <3>1 DEF Kept, CopyInv, Modified
  <2>4. Backed(c)'
    BY <1>0, <1>1, <1>s, <2>1 DEF CopyInv, Backed, Early, Modified
  <2> QED  BY <1>0, <1>1, <2>1, <2>2, <2>3, <2>4, ExitEnds
<1> QED  BY <1>3, <1>4, <1>w

LEMMA ExitEndDelete ==
    ASSUME BackupInv, ExitInv, NEW c \in Copy, EndDelete(c)
    PROVE  ExitInv'
<1> USE DEF diskVars, copyVars
<1> DEFINE t == queue[c][1]
<1>0. Types /\ QueueInv /\ SessionInv /\ CopyInv(c) /\ queue[c] \in Seq(Task) /\ queue[c] # <<>>
      /\ queue \in [Copy -> Seq(Task)] /\ Head(queue[c]) = t /\ t \in Task /\ 1 \in DOMAIN queue[c]
      /\ Fits(queue[c], pending[c]) /\ model \in [Copy -> Unknown..MaxText]
      /\ version[c] \in 0..MaxText
  <2>1. queue[c] # <<>>
    BY DEF EndDelete, Running
  <2> QED  BY <2>1, TailIs DEF BackupInv, ExitInv, Types, QueueInv
<1>1. /\ Ends(c, TRUE) /\ UNCHANGED <<disk, text, open, modified, version, given, session>>
      /\ t.kind = "delete" /\ t.begun /\ model'[c] = Unknown
      /\ \A d \in Copy : d # c => model'[d] = model[d]
  BY <1>0 DEF EndDelete, Running
<1>2. /\ queue' = [queue EXCEPT ![c] = Tail(queue[c])]
      /\ pending' = [pending EXCEPT ![c] = IF t.owner = "tracker" THEN "none" ELSE @]
      /\ missed' = missed /\ shutdown' = shutdown
      /\ stale' = IF t.owner # "nobody" THEN stale \ {c} ELSE stale
  BY <1>0, <1>1 DEF Ends
<1>m. model'[c] <= 0 /\ model'[c] <= version[c] /\ model'[c] # version[c]
  BY <1>0, <1>1, BoundAssumption DEF Unknown
<1>w. t.owner \in {"tracker", "shutdown", "nobody"}
  BY <1>0, <1>1 DEF Task, Fits
\* What is stored needs no delete.
<1>s. ~(c \in Modified /\ c \notin stale /\ ((Early /\ Has(c)) \/ (~Early /\ c \notin given)))
  BY <1>0, <1>1, StoredHead
<1>h. ~Has(c)'
  BY <1>1, <1>m DEF Has
<1>t. queue'[c] = Tail(queue[c])
  BY <1>0, <1>2
<1>d. ~Early /\ c \in Modified \ given => t.owner # "shutdown"
  BY <1>0, <1>1 DEF CopyInv, Kept, Has1
<1>3. CASE t.owner = "tracker"
  <2>1. pending[c] = "discard"
    BY <1>0, <1>1, <1>3 DEF Fits
  <2>2. shutdown.phase = "off"
    BY <1>0, <2>1 DEF CopyInv, Quiet
  <2>3. Early /\ ~modified[c]
    BY <1>0, <1>1, <1>3, <2>2 DEF CopyInv, Owned, Early
  <2>4. \A i \in DOMAIN Tail(queue[c]) : Tail(queue[c])[i].kind = "read"
    <3>1. \A i \in DOMAIN Tail(queue[c]) : /\ i + 1 \in DOMAIN queue[c] /\ 1 < i + 1
                                           /\ Tail(queue[c])[i] = queue[c][i + 1]
      BY <1>0, TailIs
    <3> QED  BY <1>0, <1>3, <3>1 DEF Fits
  <2>5. OpenVersions(c)' /\ ClosedVersions(c)'
    BY <1>1, <1>m, <1>t, <2>4 DEF OpenVersions, ClosedVersions
  <2>6. Versions(c)'
    BY <1>1, <2>3, <2>5 DEF Versions
  <2>7. Backed(c)'
    BY <1>1, <2>3 DEF Backed, Modified
  <2> QED  BY <1>0, <1>1, <2>3, <2>6, <2>7, ExitEnds
<1>4. CASE t.owner = "shutdown"
  <2>1. shutdown.phase = "discarding"
    BY <1>0, <1>1, <1>4 DEF QueueInv, Has1
  <2>2. ~Early
    BY <2>1 DEF Early
  <2>3. Kept(c)'
    BY <1>1, <1>4, <1>d, <2>2 DEF Kept, Modified
  <2>4. Backed(c)'
    BY <1>2, <2>1 DEF Backed
  <2> QED  BY <1>0, <1>1, <2>2, <2>3, <2>4, ExitEnds
<1>5. CASE t.owner = "nobody"
  <2>1. UNCHANGED <<pending, missed, shutdown, stale>>
    BY <1>0, <1>2, <1>5 DEF Types
  <2>2. ASSUME Early, c \notin stale PROVE Versions(c)'
    <3>1. Versions(c)
      BY <1>0, <2>2 DEF CopyInv
    <3>2. open[c] = "open" => OpenVersions(c)'
      BY <1>0, <1>1, <1>m, <1>t, <3>1, TailKeeps DEF Versions
    <3>3. open[c] # "open" => ClosedVersions(c)'
      BY <1>0, <1>1, <1>5, <1>t, <3>1, TailKeeps DEF Versions
    <3>4. ~(modified[c] /\ c \notin missed /\ pending[c] = "none")
      <4>1. modified[c] => c \in Modified
        BY <1>0 DEF QueueInv, Modified
      <4> QED  BY <1>s, <2>2, <3>1, <4>1 DEF Versions
    <3> QED  BY <1>1, <1>h, <2>1, <3>2, <3>3, <3>4 DEF Versions
  <2>3. ASSUME ~Early PROVE Kept(c)'
    <3>1. Has1(Tail(queue[c]), "delete", "shutdown") => Has1(queue[c], "delete", "shutdown")
      BY <1>0, KindsTail
    <3> QED  BY <1>0, <1>1, <1>s, <1>t, <2>1, <2>3, <3>1 DEF Kept, CopyInv, Modified
  <2>4. Backed(c)'
    BY <1>0, <1>1, <1>s, <2>1 DEF CopyInv, Backed, Early, Modified
  <2> QED  BY <1>0, <1>1, <2>1, <2>2, <2>3, <2>4, ExitEnds
<1> QED  BY <1>3, <1>4, <1>5, <1>w

\* A write of another version begins, or a delete.
LEMMA ExitBegin ==
    ASSUME BackupInv, ExitInv, NEW c \in Copy, StartWrite(c) \/ StartDelete(c)
    PROVE  ExitInv'
<1> USE DEF copyVars, trackerVars
<1> DEFINE t == queue[c][1]
           q == [queue[c] EXCEPT ![1].begun = TRUE]
<1>0. Types /\ QueueInv /\ SessionInv /\ CopyInv(c) /\ queue[c] \in Seq(Task) /\ queue[c] # <<>>
      /\ Head(queue[c]) = t /\ disk \in [Copy -> Empty..MaxText]
  <2>1. queue[c] # <<>>
    BY DEF StartWrite, StartDelete, Running
  <2> QED  BY <2>1, TailIs DEF BackupInv, ExitInv, Types, QueueInv
<1>1. /\ Begin(c) /\ UNCHANGED <<text, open, modified, version, model, pending, session, shutdown,
                                 missed, stale, given>>
      /\ t.kind = "delete" \/ t.version # model[c]
      /\ \A d \in Copy : d # c => disk'[d] = disk[d]
  BY <1>0 DEF StartWrite, StartDelete, Running
<1>2. /\ queue'[c] = q /\ \A d \in Copy : d # c => queue'[d] = queue[d]
  BY <1>0, <1>1, BegunIs
<1>3. /\ DOMAIN q = DOMAIN queue[c] /\ Len(q) = Len(queue[c])
      /\ \A i \in DOMAIN q : /\ q[i].kind = queue[c][i].kind /\ q[i].owner = queue[c][i].owner
                             /\ q[i].version = queue[c][i].version
                             /\ q[i].text = queue[c][i].text
  BY <1>0, BeginIs
<1> HIDE DEF q
<1>s. ~(c \in Modified /\ c \notin stale /\ ((Early /\ Has(c)) \/ (~Early /\ c \notin given)))
  BY <1>0, <1>1, StoredHead
<1>4. /\ (c \in Modified' <=> c \in Modified) /\ (Early' <=> Early) /\ (Has(c)' <=> Has(c))
  BY <1>1 DEF Modified, Early, Has
<1>5. Owned(c)'
  BY <1>0, <1>1, <1>2, <1>3, <1>4 DEF CopyInv, Owned
<1>6. \A kind, owner : Has1(q, kind, owner) <=> Has1(queue[c], kind, owner)
  BY <1>3 DEF Has1
<1>7. ASSUME Early, c \notin stale PROVE Versions(c)'
  <2>1. Versions(c)
    BY <1>0, <1>7 DEF CopyInv
  <2>2. OpenVersions(c) => OpenVersions(c)'
    BY <1>1, <1>2, <1>3 DEF OpenVersions
  <2>3. ClosedVersions(c) => ClosedVersions(c)'
    BY <1>1, <1>2, <1>3, <1>6 DEF ClosedVersions
  <2>4. ~(modified[c] /\ Has(c))
    <3>1. modified[c] => c \in Modified
      BY <1>0 DEF QueueInv, Modified
    <3> QED  BY <1>s, <1>7, <3>1
  <2> QED  BY <1>1, <1>4, <2>1, <2>2, <2>3, <2>4 DEF Versions
<1>8. ASSUME ~Early PROVE Kept(c)'
  BY <1>0, <1>1, <1>2, <1>4, <1>6, <1>8, <1>s DEF CopyInv, Kept
<1>9. Backed(c)' /\ Quiet(c)'
  BY <1>0, <1>1, <1>4 DEF CopyInv, Backed, Quiet
<1>10. CopyInv(c)'
  BY <1>0, <1>1, <1>4, <1>5, <1>7, <1>8, <1>9 DEF CopyInv
<1> QED  BY <1>0, <1>1, <1>2, <1>10, ExitOne

LEMMA ExitOperation ==
    ASSUME BackupInv, ExitInv, NEW c \in Copy, Operation(c)
    PROVE  ExitInv'
BY ExitSkip, ExitEndWrite, ExitEndDelete, ExitBegin DEF Operation

\* Every operation of r does what one of q does.
Similar(q, r) ==
    \A i \in DOMAIN r : \E j \in DOMAIN q :
        /\ r[i].kind = q[j].kind /\ r[i].version = q[j].version
        /\ r[i].text = q[j].text /\ r[i].begun = q[j].begun

LEMMA CancelSimilar ==
    ASSUME NEW q \in Seq(Task), NEW o \in {"tracker", "shutdown"}, OneOf(q, o)
    PROVE  /\ Similar(q, Cancel(q, o))
           /\ \A i \in DOMAIN Cancel(q, o) : Cancel(q, o)[i].owner = "nobody" =>
                 i = 1 \/ \E j \in DOMAIN q : i <= j /\ q[j].owner = "nobody"
<1> DEFINE r == Cancel(q, o)
<1>1. o # "nobody"
  OBVIOUS
<1>2. /\ r \in Seq(Task) /\ (r = <<>> <=> q = <<>>)
      /\ q # <<>> => /\ r[1].kind = q[1].kind /\ r[1].begun = q[1].begun
                     /\ r[1].version = q[1].version /\ r[1].text = q[1].text
      /\ \A i \in DOMAIN r : i = 1 \/ \E j \in DOMAIN q : i <= j /\ r[i] = q[j]
  BY <1>1, CancelIs
<1> HIDE DEF r
<1>3. q # <<>> => 1 \in DOMAIN q
  BY TailIs
<1>4. ASSUME NEW i \in DOMAIN r
      PROVE  \E j \in DOMAIN q : /\ r[i].kind = q[j].kind /\ r[i].version = q[j].version
                                 /\ r[i].text = q[j].text /\ r[i].begun = q[j].begun
  <2>1. CASE i = 1
    <3>1. q # <<>>
      BY <1>2
    <3> QED  BY <1>2, <1>3, <2>1, <3>1
  <2>2. CASE i # 1
    BY <1>2, <2>2
  <2> QED  BY <2>1, <2>2
<1> QED  BY <1>2, <1>4 DEF r, Similar

\* While no shutdown is handled, what is left of a queue without the operation of the
\* tracker is nobody's: it runs, and does what it did before.
LEMMA Leftover ==
    ASSUME Types, QueueInv, NEW c \in Copy, CopyInv(c), shutdown.phase = "off",
           open[c] # "opening"
    PROVE  LET r == Cancel(queue[c], "tracker")
           IN  /\ r \in Seq(Task) /\ Similar(queue[c], r)
               /\ \A i \in DOMAIN r : /\ r[i].owner = "nobody" /\ i = 1
                                      /\ r[i].kind \in {"write", "delete"}
<1> DEFINE r == Cancel(queue[c], "tracker")
<1>0. queue[c] \in Seq(Task) /\ OneOf(queue[c], "tracker") /\ Fits(queue[c], pending[c])
  BY FitsOneOf DEF Types, QueueInv
<1>1. /\ r \in Seq(Task) /\ Similar(queue[c], r)
      /\ \A i \in DOMAIN r : r[i].owner # "tracker"
      /\ \A i \in DOMAIN r : r[i].owner = "nobody" =>
            i = 1 \/ \E j \in DOMAIN queue[c] : i <= j /\ queue[c][j].owner = "nobody"
  BY <1>0, CancelSimilar, CancelIs
<1>2. Fits(r, "none") /\ \A i \in DOMAIN queue[c] : queue[c][i].owner = "nobody" => i = 1
  BY CancelledIs DEF CopyInv, Owned, Early
<1>3. ASSUME NEW i \in DOMAIN queue[c]
      PROVE  queue[c][i].owner # "shutdown" /\ queue[c][i].kind # "read"
  <2>1. queue[c][i].kind # "read"
    BY <1>3 DEF QueueInv, HasKind
  <2> QED  BY <1>3, <2>1, Idle
<1>4. ~HasKind(r, "read") /\ ~Has1(r, "write", "shutdown") /\ ~Has1(r, "delete", "shutdown")
  <2>1. ~HasKind(queue[c], "read") /\ \A k : ~Has1(queue[c], k, "shutdown")
    BY <1>3 DEF HasKind, Has1
  <2> QED  BY <1>0, <2>1, KindsCancel
<1> HIDE DEF r
<1>5. ASSUME NEW i \in DOMAIN r
      PROVE  r[i].owner = "nobody" /\ i = 1 /\ r[i].kind \in {"write", "delete"}
  <2>1. r[i] \in Task /\ i \in Int /\ 1 <= i
    BY <1>1, <1>5
  <2>2. r[i].kind \in {"write", "delete"} /\ r[i].owner \notin {"tracker", "copy", "shutdown"}
    BY <1>1, <1>2, <1>4, <1>5, <2>1 DEF Task, HasKind, Has1, Fits
  <2>3. r[i].owner = "nobody"
    BY <2>1, <2>2 DEF Task
  <2>4. i = 1
    <3>1. ASSUME NEW j \in DOMAIN queue[c], i <= j, queue[c][j].owner = "nobody" PROVE i = 1
      BY <1>2, <2>1, <3>1
    <3> QED  BY <1>1, <1>5, <2>3, <3>1
  <2> QED  BY <2>2, <2>3, <2>4
<1> QED  BY <1>1, <1>5 DEF r

\* A backup is discarded while no shutdown is handled.
LEMMA ExitDiscard ==
    ASSUME BackupInv, ExitInv, NEW c \in Copy, shutdown.phase = "off", open[c] = "open",
           DiscardBackup(c), UNCHANGED <<disk, model, shutdown, stale, given>>, ~modified'[c],
           \/ open'[c] = "open" /\ version'[c] = version[c]
           \/ open'[c] = "closed" /\ version'[c] = 0,
           \A d \in Copy : d # c => /\ text'[d] = text[d] /\ open'[d] = open[d]
                                    /\ modified'[d] = modified[d] /\ version'[d] = version[d]
    PROVE  ExitInv'
<1> DEFINE r == Cancel(queue[c], "tracker")
           t == NewTask("delete", "tracker", c)
<1>0. Types /\ QueueInv /\ CopyInv(c) /\ queue \in [Copy -> Seq(Task)]
      /\ pending \in [Copy -> {"none", "timer", "backup", "discard"}] /\ queue[c] \in Seq(Task)
  BY DEF BackupInv, ExitInv, Types
<1>1. /\ r \in Seq(Task) /\ Similar(queue[c], r)
      /\ \A i \in DOMAIN r : r[i].owner = "nobody" /\ i = 1 /\ r[i].kind \in {"write", "delete"}
  BY <1>0, Leftover
<1>2. t \in Task /\ t.kind = "delete" /\ t.owner = "tracker"
  BY <1>0, NewTaskIs
<1>3. /\ queue' = [queue EXCEPT ![c] = Append(r, t)]
      /\ pending' = [pending EXCEPT ![c] = "discard"] /\ missed' = missed \ {c}
  BY DEF DiscardBackup
<1> HIDE DEF r, t
<1>4. /\ queue'[c] = Append(r, t)
      /\ \A d \in Copy : d # c => queue'[d] = queue[d] /\ pending'[d] = pending[d]
  BY <1>0, <1>3
<1>5. \A i \in DOMAIN queue'[c] :
         \/ i \in DOMAIN r /\ queue'[c][i] = r[i]
         \/ queue'[c][i] = t
  BY <1>1, <1>2, <1>4, AppendIs
<1>6. Owned(c)'
  BY <1>1, <1>2, <1>5 DEF Owned
<1>7. Has1(queue'[c], "delete", "tracker")
  BY <1>1, <1>2, <1>4, KindsAppend
<1>8. c \notin stale => Versions(c)'
  <2>1. ASSUME c \notin stale, open'[c] = "open" PROVE OpenVersions(c)'
    <3>1. OpenVersions(c) /\ version'[c] = version[c]
      BY <1>0, <2>1 DEF CopyInv, Versions, Early
    <3>2. ASSUME NEW i \in DOMAIN queue'[c], queue'[c][i].kind = "write"
          PROVE  queue'[c][i].version <= version[c]
      <4>1. i \in DOMAIN r /\ queue'[c][i] = r[i]
        BY <1>2, <1>5, <3>2
      <4> QED  BY <1>1, <3>1, <3>2, <4>1 DEF Similar, OpenVersions
    <3> QED  BY <3>1, <3>2 DEF OpenVersions
  <2>2. ClosedVersions(c)'
    BY <1>7 DEF ClosedVersions
  <2> QED  BY <2>1, <2>2 DEF Versions
<1>9. CopyInv(c)'
  <2>1. Backed(c)' /\ Quiet(c)' /\ (open'[c] # "open" => version'[c] = 0) /\ Early'
    BY <1>0 DEF Backed, Quiet, CopyInv, Early
  <2> QED  BY <1>6, <1>8, <2>1 DEF CopyInv
<1> QED  BY <1>0, <1>3, <1>4, <1>9, ExitOne DEF Types, ShutdownType

LEMMA ExitTimer ==
    ASSUME BackupInv, ExitInv, NEW c \in Copy, BackupTimer(c)
    PROVE  ExitInv'
<1> USE DEF diskVars, copyVars
<1>0. Types /\ QueueInv /\ CopyInv(c) /\ queue \in [Copy -> Seq(Task)]
      /\ pending \in [Copy -> {"none", "timer", "backup", "discard"}] /\ queue[c] \in Seq(Task)
      /\ pending[c] = "timer"
  BY DEF BackupInv, ExitInv, Types, BackupTimer
<1>1. /\ UNCHANGED <<disk, text, open, modified, version, model, session, shutdown, stale, given>>
      /\ pending'[c] \in {"none", "backup"} /\ missed \subseteq missed'
      /\ \A d \in Copy : d # c => queue'[d] = queue[d] /\ pending'[d] = pending[d]
  BY <1>0 DEF BackupTimer
<1>2. shutdown.phase = "off" /\ Early /\ Early'
  BY <1>0, <1>1 DEF CopyInv, Quiet, Early
<1>3. (c \in Modified' <=> c \in Modified) /\ (Has(c)' <=> Has(c))
  BY <1>1 DEF Modified, Has
<1>b. Backed(c)' /\ Quiet(c)' /\ (open'[c] # "open" => version'[c] = 0)
  BY <1>0, <1>1, <1>2 DEF Backed, Quiet, CopyInv
<1>4. CASE UNCHANGED queue
  <2>1. Owned(c)'
    BY <1>0, <1>1, <1>2, <1>3, <1>4 DEF CopyInv, Owned
  <2>2. ASSUME c \notin stale PROVE Versions(c)'
    <3>1. Versions(c)
      BY <1>0, <1>2, <2>2 DEF CopyInv
    <3>2. /\ OpenVersions(c) => OpenVersions(c)'
          /\ ClosedVersions(c) => ClosedVersions(c)'
      BY <1>1, <1>4 DEF OpenVersions, ClosedVersions
    <3>3. Stored(c) => Stored(c)'
      BY <1>1, <1>4 DEF Stored
    <3>4. modified[c] /\ c \notin missed' /\ pending'[c] = "none" => Has(c)
      <4>1. CASE queue'[c] = Append(queue[c], NewTask("write", "tracker", c))
        <5>1. NewTask("write", "tracker", c) \in Task
          BY <1>0, NewTaskIs
        <5>2. Len(queue'[c]) = Len(queue[c]) + 1 /\ Len(queue[c]) \in Nat
          BY <1>0, <4>1, <5>1, AppendIs
        <5> QED  BY <1>4, <5>2
      <4>2. CASE queue'[c] # Append(queue[c], NewTask("write", "tracker", c))
        BY <1>0, <4>2 DEF BackupTimer
      <4> QED  BY <4>1, <4>2
    <3> QED  BY <1>1, <1>3, <3>1, <3>2, <3>3, <3>4 DEF Versions
  <2>3. CopyInv(c)'
    BY <1>1, <1>2, <1>b, <2>1, <2>2 DEF CopyInv
  <2> QED  BY <1>0, <1>1, <1>2, <2>3, ExitOne DEF Types, ShutdownType
<1>5. CASE /\ modified[c] /\ ~Has(c) /\ pending'[c] = "backup" /\ missed' = missed
           /\ queue' = [queue EXCEPT ![c] = Append(@, NewTask("write", "tracker", c))]
  <2> DEFINE t == NewTask("write", "tracker", c)
  <2>1. /\ t \in Task /\ t.kind = "write" /\ t.owner = "tracker" /\ t.version = version[c]
        /\ t.text = text[c]
    BY <1>0, NewTaskIs
  <2>2. queue'[c] = Append(queue[c], t)
    BY <1>0, <1>5
  <2> HIDE DEF t
  <2>3. /\ \A i \in DOMAIN queue'[c] : \/ i \in DOMAIN queue[c] /\ queue'[c][i] = queue[c][i]
                                       \/ i = Len(queue'[c]) /\ queue'[c][i] = t
    BY <1>0, <2>1, <2>2, AppendIs
  <2>4. c \in Modified
    BY <1>0, <1>5 DEF QueueInv, Modified
  <2>5. ASSUME NEW i \in DOMAIN queue[c]
        PROVE  /\ queue[c][i].owner \notin {"tracker", "shutdown"} /\ queue[c][i].kind # "read"
               /\ queue[c][i].owner = "nobody" => i = 1
    <3>1. queue[c][i].owner # "tracker" /\ queue[c][i].owner # "shutdown"
      BY <1>0, <1>2, Idle
    <3>2. queue[c][i].kind # "read"
      BY <1>0, <2>4 DEF QueueInv, HasKind, Modified
    <3> QED  BY <1>0, <1>2, <3>1, <3>2 DEF CopyInv, Owned
  <2>6. Owned(c)'
    BY <1>1, <1>3, <2>1, <2>3, <2>4, <2>5 DEF Owned
  <2>7. ASSUME c \notin stale PROVE Versions(c)'
    <3>1. OpenVersions(c) /\ open[c] = "open" /\ version[c] \in 0..MaxText
      BY <1>0, <1>2, <2>4, <2>7 DEF CopyInv, Versions, Modified, Types
    <3>2. OpenVersions(c)'
      BY <1>1, <2>1, <2>3, <3>1 DEF OpenVersions
    <3> QED  BY <1>1, <1>3, <1>5, <3>1, <3>2 DEF Versions
  <2>8. CopyInv(c)'
    BY <1>1, <1>2, <1>b, <2>6, <2>7 DEF CopyInv
  <2> QED  BY <1>0, <1>1, <1>2, <2>8, ExitOne DEF Types, ShutdownType
<1>6. \/ UNCHANGED queue
      \/ /\ modified[c] /\ ~Has(c) /\ pending'[c] = "backup" /\ missed' = missed
         /\ queue' = [queue EXCEPT ![c] = Append(@, NewTask("write", "tracker", c))]
  BY <1>0 DEF BackupTimer
<1> QED  BY <1>4, <1>5, <1>6

LEMMA ExitOpen ==
    ASSUME BackupInv, ExitInv, Interference = {}, NEW c \in Copy, Open(c)
    PROVE  ExitInv'
<1> USE DEF diskVars, trackerVars
<1> DEFINE t == NewTask("read", "copy", c)
<1>0. Types /\ QueueInv /\ CopyInv(c) /\ queue \in [Copy -> Seq(Task)] /\ queue[c] \in Seq(Task)
      /\ open \in [Copy -> {"closed", "opening", "open"}] /\ shutdown.phase = "off"
      /\ open[c] = "closed"
  BY DEF BackupInv, ExitInv, Types, Open, Free
<1>1. /\ UNCHANGED <<disk, text, modified, version, model, pending, session, shutdown, missed,
                     stale, given>>
      /\ open'[c] = "opening" /\ queue'[c] = Append(queue[c], t)
      /\ \A d \in Copy : d # c => queue'[d] = queue[d] /\ open'[d] = open[d]
  BY <1>0 DEF Open
<1>2. t \in Task /\ t.kind = "read" /\ t.owner = "copy"
  BY <1>0, NewTaskIs
<1> HIDE DEF t
<1>3. /\ \A i \in DOMAIN queue'[c] : \/ i \in DOMAIN queue[c] /\ queue'[c][i] = queue[c][i]
                                     \/ i = Len(queue'[c]) /\ queue'[c][i] = t
  BY <1>0, <1>1, <1>2, AppendIs
<1>4. Early /\ Early' /\ c \notin Modified /\ ~modified[c] /\ \A i \in DOMAIN queue[c] : queue[c][i].kind # "read"
  BY <1>0, <1>1 DEF Early, Modified, QueueInv, HasKind
<1>5. Owned(c)'
  BY <1>0, <1>1, <1>2, <1>3, <1>4 DEF Owned, CopyInv
<1>6. ASSUME c \notin stale PROVE Versions(c)'
  <2>1. ClosedVersions(c)
    BY <1>0, <1>4, <1>6 DEF CopyInv, Versions
  <2>2. Has1(queue[c], "delete", "tracker") => Has1(queue'[c], "delete", "tracker")
    BY <1>0, <1>1, <1>2, KindsAppend
  <2>3. ClosedVersions(c)'
    BY <1>1, <1>2, <1>3, <2>1, <2>2 DEF ClosedVersions
  <2> QED  BY <1>1, <1>4, <2>3 DEF Versions
<1>7. CopyInv(c)'
  <2>1. Backed(c)' /\ Quiet(c)' /\ (open'[c] # "open" => version'[c] = 0)
    BY <1>0, <1>1 DEF Backed, Quiet, CopyInv
  <2> QED  BY <1>1, <1>4, <1>5, <1>6, <2>1 DEF CopyInv
<1> QED  BY <1>0, <1>1, <1>7, ExitOne DEF Types, ShutdownType

LEMMA ExitResolve ==
    ASSUME BackupInv, ExitInv, NEW c \in Copy, Resolve(c)
    PROVE  ExitInv'
<1> DEFINE restored == model[c] # Unknown /\ disk[c] >= 0
<1>0. Types /\ QueueInv /\ SessionInv /\ CopyInv(c) /\ queue \in [Copy -> Seq(Task)]
      /\ open \in [Copy -> {"closed", "opening", "open"}] /\ queue[c] \in Seq(Task)
      /\ text \in [Copy -> 0..MaxText] /\ modified \in [Copy -> BOOLEAN]
      /\ pending \in [Copy -> {"none", "timer", "backup", "discard"}]
      /\ model[c] \in Unknown..MaxText /\ version[c] \in 0..MaxText
  BY DEF BackupInv, ExitInv, Types
<1>1. /\ queue[c] # <<>> /\ Head(queue[c]).kind = "read"
      /\ open' = [open EXCEPT ![c] = "open"]
      /\ text' = [text EXCEPT ![c] = IF restored THEN disk[c] ELSE file[c]]
      /\ modified' = [modified EXCEPT ![c] = restored]
      /\ UNCHANGED <<disk, version, model, session, shutdown, stale, given>>
  BY DEF Resolve, Running, diskVars
<1>2. queue[c][1].kind = "read" /\ 1 \in DOMAIN queue[c]
  BY <1>0, <1>1, TailIs
<1>3. open[c] = "opening" /\ 1 = Len(queue[c])
  BY <1>0, <1>2 DEF QueueInv, HasKind, CopyInv, Owned
<1>4. shutdown.phase = "off" /\ Early /\ Early' /\ ~suspended
  BY <1>0, <1>1, <1>3 DEF CopyInv, Quiet, Early, SessionInv
<1>5. Tail(queue[c]) = <<>> /\ Cancel(Tail(queue[c]), "tracker") = <<>>
  <2>1. Tail(queue[c]) \in Seq(Task) /\ Len(Tail(queue[c])) = Len(queue[c]) - 1
    BY <1>0, <1>1, TailIs
  <2>2. Len(Tail(queue[c])) = 0
    BY <1>3, <2>1
  <2>3. Tail(queue[c]) = <<>>
    BY <2>1, <2>2, EmptySeq
  <2> QED  BY <2>3 DEF Cancel, OperationOf
<1>6. /\ restored => /\ queue' = [queue EXCEPT ![c] = Cancel(Tail(queue[c]), "tracker")]
                     /\ pending' = [pending EXCEPT ![c] = "timer"] /\ missed' = missed \ {c}
      /\ ~restored => /\ queue' = [queue EXCEPT ![c] = Tail(queue[c])]
                      /\ missed' = missed /\ pending' = pending
  BY <1>4 DEF Resolve
<1> HIDE DEF restored
<1>7. /\ queue'[c] = <<>> /\ (restored => pending'[c] = "timer")
      /\ \A d \in Copy : d # c => /\ queue'[d] = queue[d] /\ pending'[d] = pending[d]
                                  /\ d \in missed => d \in missed'
  <2>1. CASE restored
    BY <1>0, <1>5, <1>6, <2>1
  <2>2. CASE ~restored
    BY <1>0, <1>5, <1>6, <2>2
  <2> QED  BY <2>1, <2>2
<1>8. /\ \A d \in Copy : d # c => /\ text'[d] = text[d] /\ open'[d] = open[d]
                                  /\ modified'[d] = modified[d]
      /\ open'[c] = "open" /\ modified'[c] = restored /\ (restored => text'[c] = disk[c])
  BY <1>0, <1>1
<1>9. c \notin stale => Versions(c)'
  <2>1. SUFFICES ASSUME c \notin stale PROVE Versions(c)'
    OBVIOUS
  <2>2. Versions(c) /\ ~Has1(queue[c], "delete", "tracker")
    <3>1. \A i \in DOMAIN queue[c] : i = 1
      BY <1>0, <1>3
    <3> QED  BY <1>0, <1>2, <1>4, <2>1, <3>1 DEF CopyInv, Has1
  <2>3. model[c] <= 0 /\ version[c] = 0
    BY <1>0, <1>3, <2>2 DEF Versions, ClosedVersions, CopyInv
  <2>4. restored => Has(c)'
    <3>1. model[c] # Unknown => model[c] = 0
      <4>1. model[c] \in (-1)..MaxText /\ MaxText \in Nat
        BY <1>0, BoundAssumption DEF Unknown
      <4> QED  BY <2>3, <4>1 DEF Unknown
    <3> QED  BY <1>1, <2>3, <3>1 DEF restored, Has
  <2>5. OpenVersions(c)'
    BY <1>1, <1>7, <2>3 DEF OpenVersions
  <2>6. restored => Stored(c)'
    BY <1>1, <1>7, <1>8 DEF Stored
  <2> QED  BY <1>8, <2>4, <2>5, <2>6 DEF Versions
<1>10. CopyInv(c)'
  <2>1. Owned(c)' /\ Backed(c)' /\ Quiet(c)'
    BY <1>1, <1>4, <1>7 DEF Owned, Backed, Quiet
  <2> QED  BY <1>1, <1>4, <1>8, <1>9, <2>1 DEF CopyInv
<1> QED  BY <1>0, <1>1, <1>4, <1>7, <1>8, <1>10, ExitOne DEF Types, ShutdownType

LEMMA ExitEdit ==
    ASSUME BackupInv, ExitInv, Interference = {}, NEW c \in Copy, Edit(c)
    PROVE  ExitInv'
<1> USE DEF diskVars
<1> DEFINE r == Cancel(queue[c], "tracker")
<1>0. Types /\ QueueInv /\ SessionInv /\ CopyInv(c) /\ queue \in [Copy -> Seq(Task)]
      /\ text \in [Copy -> 0..MaxText] /\ modified \in [Copy -> BOOLEAN]
      /\ version \in [Copy -> 0..MaxText] /\ queue[c] \in Seq(Task)
      /\ pending \in [Copy -> {"none", "timer", "backup", "discard"}]
      /\ model[c] \in Unknown..MaxText
      /\ shutdown.phase = "off" /\ open[c] = "open"
  BY DEF BackupInv, ExitInv, Types, Edit, Free
<1>1. /\ ~suspended /\ Early /\ Early'
      /\ UNCHANGED <<disk, open, model, session, shutdown, stale, given>>
      /\ modified' = [modified EXCEPT ![c] = TRUE] /\ version' = [version EXCEPT ![c] = @ + 1]
      /\ \A d \in Copy : d # c => text'[d] = text[d]
  BY <1>0 DEF SessionInv, Edit, Early
<1>2. /\ queue' = [queue EXCEPT ![c] = r] /\ pending' = [pending EXCEPT ![c] = "timer"]
      /\ missed' = missed \ {c}
  BY <1>1 DEF Edit, ScheduleBackup
<1>3. /\ r \in Seq(Task) /\ Similar(queue[c], r)
      /\ \A i \in DOMAIN r : r[i].owner = "nobody" /\ i = 1 /\ r[i].kind \in {"write", "delete"}
  BY <1>0, Leftover
<1> HIDE DEF r
<1>4. /\ queue'[c] = r /\ pending'[c] = "timer" /\ version'[c] = version[c] + 1
      /\ \A d \in Copy : d # c => /\ queue'[d] = queue[d] /\ pending'[d] = pending[d]
                                  /\ version'[d] = version[d] /\ modified'[d] = modified[d]
  BY <1>0, <1>1, <1>2
<1>5. Owned(c)'
  BY <1>3, <1>4 DEF Owned
<1>6. ASSUME c \notin stale PROVE Versions(c)'
  <2>1. OpenVersions(c) /\ version[c] \in Int /\ model[c] \in Int
    BY <1>0, <1>1, <1>6, BoundAssumption DEF CopyInv, Versions, Unknown
  <2>2. ASSUME NEW i \in DOMAIN r, r[i].kind = "write"
        PROVE  r[i].version <= version[c] /\ r[i].version \in Int
    <3>1. r[i] \in Task
      BY <1>3
    <3> QED  BY <1>3, <2>1, <2>2, <3>1 DEF Similar, OpenVersions, Task
  <2>3. model[c] <= version'[c] /\ model[c] # version'[c]
    BY <1>4, <2>1 DEF OpenVersions
  <2>4. OpenVersions(c)'
    <3>1. \A i \in DOMAIN queue'[c] : queue'[c][i].kind = "write" =>
             queue'[c][i].version <= version'[c] /\ queue'[c][i].version # version'[c]
      BY <1>4, <2>1, <2>2
    <3> QED  BY <1>1, <2>3, <3>1 DEF OpenVersions
  <2> QED  BY <1>0, <1>1, <1>4, <2>3, <2>4 DEF Versions, Has
<1>7. CopyInv(c)'
  <2>1. Backed(c)' /\ Quiet(c)'
    BY <1>0, <1>1 DEF Backed, Quiet
  <2> QED  BY <1>0, <1>1, <1>5, <1>6, <2>1 DEF CopyInv
<1> QED  BY <1>0, <1>1, <1>2, <1>4, <1>7, ExitOne DEF Types, ShutdownType

\* A save of the shutdown ends.
LEMMA ExitSaved ==
    ASSUME BackupInv, ExitInv, NEW c \in Copy, c \in shutdown.saving, c \in Modified,
           shutdown.phase # "off", NoLongerDirty(c),
           UNCHANGED <<disk, open, text, version, model, session, shutdown, given>>
    PROVE  ExitInv'
<1>0. Types /\ QueueInv /\ SessionInv /\ CopyInv(c) /\ PhaseInv
      /\ modified \in [Copy -> BOOLEAN] /\ shutdown.phase \in Phase
      /\ pending \in [Copy -> {"none", "timer", "backup", "discard"}]
  BY DEF BackupInv, ExitInv, Types, ShutdownType
<1>1. shutdown.phase \in {"autosave", "saving"} /\ Early /\ Early' /\ suspended
  BY <1>0 DEF PhaseInv, Phase, Early, SessionInv
<1>2. /\ modified' = [modified EXCEPT ![c] = FALSE] /\ stale' = stale \cup {c}
      /\ UNCHANGED <<queue, pending>> /\ missed' = missed \cup {c}
  BY <1>1 DEF NoLongerDirty, Ignored
<1>3. ~modified'[c] /\ \A d \in Copy : d # c => modified'[d] = modified[d]
  BY <1>0, <1>2
<1>4. \A i \in DOMAIN queue[c] : queue[c][i].owner \notin {"tracker", "shutdown"}
  <2>1. pending[c] = "none"
    BY <1>0, <1>1 DEF SessionInv
  <2> QED  BY <1>0, <1>1, <2>1, Idle
<1>5. CopyInv(c)'
  <2>1. Owned(c)'
    BY <1>0, <1>1, <1>2, <1>4 DEF CopyInv, Owned
  <2>2. Quiet(c)' /\ Backed(c)' /\ (open'[c] # "open" => version'[c] = 0) /\ c \in stale'
    BY <1>0, <1>2, <1>3 DEF CopyInv, Quiet, Backed, Modified
  <2> QED  BY <1>1, <2>1, <2>2 DEF CopyInv
<1>6. \A d \in Copy : d # c => CopyInv(d)'
  BY <1>2, <1>3, CopyFrame DEF ExitInv
<1>7. PhaseInv'
  <2>1. Modified' \subseteq Modified
    BY <1>3 DEF Modified
  <2>2. shutdown.phase = "saving" => Modified' \cup shutdown.copies = Modified \cup shutdown.copies
    <3>1. \A d \in Copy : d # c => (d \in Modified' <=> d \in Modified)
      BY <1>3 DEF Modified
    <3>2. Modified \subseteq Copy /\ Modified' \subseteq Copy
      BY DEF Modified
    <3> QED  BY <1>0, <3>1, <3>2 DEF PhaseInv
  <2> QED  BY <1>0, <1>1, <2>1, <2>2 DEF PhaseInv
<1> QED  BY <1>5, <1>6, <1>7 DEF ExitInv

LEMMA ExitWorkingCopy ==
    ASSUME BackupInv, ExitInv, Interference = {}, NEW c \in Copy, WorkingCopy(c)
    PROVE  ExitInv'
<1>0. Types /\ QueueInv /\ SessionInv /\ modified \in [Copy -> BOOLEAN]
      /\ open \in [Copy -> {"closed", "opening", "open"}] /\ text \in [Copy -> 0..MaxText]
      /\ version \in [Copy -> 0..MaxText]
  BY DEF BackupInv, Types
<1>1. ASSUME NoLongerDirty(c), shutdown.phase = "off" PROVE DiscardBackup(c) /\ stale' = stale
  BY <1>0, <1>1 DEF NoLongerDirty, SessionInv
<1>2. CASE Save(c)
  <2>1. CASE shutdown.phase = "off"
    <3>1. /\ UNCHANGED <<disk, open, text, version, model, shutdown, given>> /\ NoLongerDirty(c)
          /\ open[c] = "open"
      BY <1>2 DEF Save, Modified
    <3>2. modified' = [modified EXCEPT ![c] = FALSE]
      BY <3>1 DEF NoLongerDirty
    <3> QED  BY <1>0, <1>1, <2>1, <3>1, <3>2, ExitDiscard
  <2>2. CASE shutdown.phase # "off"
    BY <1>2, <2>2, ExitSaved DEF Save, Free
  <2> QED  BY <2>1, <2>2
<1>3. CASE Revert(c)
  <2>1. /\ UNCHANGED <<disk, open, version, model, shutdown, given>> /\ NoLongerDirty(c)
        /\ open[c] = "open" /\ text' = [text EXCEPT ![c] = file[c]] /\ shutdown.phase = "off"
    BY <1>3 DEF Revert, Modified, Free, diskVars
  <2>2. modified' = [modified EXCEPT ![c] = FALSE]
    BY <2>1 DEF NoLongerDirty
  <2> QED  BY <1>0, <1>1, <2>1, <2>2, ExitDiscard
<1>4. CASE Close(c)
  <2>1. /\ UNCHANGED <<disk, text, modified, model, shutdown, given>> /\ ~modified[c]
        /\ open[c] = "open" /\ shutdown.phase = "off"
        /\ open' = [open EXCEPT ![c] = "closed"] /\ version' = [version EXCEPT ![c] = 0]
    BY <1>4 DEF Close, Free, diskVars
  <2>2. DiscardBackup(c) /\ stale' = stale
    BY <1>0, <1>4, <2>1 DEF Close, SessionInv
  <2>3. open'[c] = "closed" /\ version'[c] = 0
    BY <1>0, <2>1
  <2> QED  BY <1>0, <2>1, <2>2, <2>3, ExitDiscard
<1> QED  BY <1>2, <1>3, <1>4, ExitOpen, ExitResolve, ExitEdit DEF WorkingCopy

LEMMA ExitSession ==
    ASSUME BackupInv, ExitInv
    PROVE  /\ ResolveModel => ExitInv'
           /\ ResolveBackupsToRestore => ExitInv'
           /\ \A c \in Copy : RestoreBackup(c) => ExitInv'
           /\ Down => ExitInv'
           /\ Start => ExitInv'
<1> USE DEF diskVars, copyVars, serviceVars, trackerVars
<1>0. Types /\ QueueInv /\ SessionInv /\ PhaseInv
  BY DEF BackupInv, ExitInv
<1>k. ASSUME UNCHANGED <<disk, copyVars, serviceVars, pending, shutdown, missed, stale, given>>
      PROVE  ExitInv'
  <2>1. \A c \in Copy : CopyInv(c)'
    BY <1>k, CopyFrame DEF ExitInv
  <2>2. PhaseInv'
    BY <1>0, <1>k, PhaseFrame DEF Modified
  <2> QED  BY <2>1, <2>2 DEF ExitInv
<1>1. ASSUME ResolveModel PROVE ExitInv'
  <2>1. /\ UNCHANGED <<disk, copyVars, queue, pending, shutdown, missed, stale, given>>
        /\ model' = [c \in Copy |-> IF disk[c] = Missing THEN Unknown ELSE 0]
        /\ session = "starting"
    BY <1>1 DEF ResolveModel
  <2>2. ASSUME NEW c \in Copy PROVE CopyInv(c)'
    <3>1. /\ queue[c] = <<>> /\ open[c] = "closed" /\ ~modified[c] /\ c \notin Modified
          /\ CopyInv(c)
      BY <1>0, <2>1 DEF SessionInv, QueueInv, Modified, ExitInv
    <3>2. model'[c] <= 0
      BY <2>1 DEF Unknown
    <3>3. c \notin Modified' /\ (Early' <=> Early) /\ queue'[c] = <<>> /\ open'[c] = "closed"
          /\ ~modified'[c]
      BY <2>1, <3>1 DEF Modified, Early
    <3>4. Owned(c)' /\ Backed(c)' /\ Kept(c)'
      BY <3>3 DEF Owned, Backed, Kept
    <3>5. Quiet(c)' /\ (open'[c] # "open" => version'[c] = 0)
      BY <2>1, <3>1 DEF CopyInv, Quiet
    <3>6. Versions(c)'
      BY <3>2, <3>3 DEF Versions, ClosedVersions
    <3> QED  BY <3>4, <3>5, <3>6 DEF CopyInv
  <2>3. PhaseInv'
    BY <1>0, <2>1, PhaseFrame DEF Modified
  <2> QED  BY <2>2, <2>3 DEF ExitInv
<1>2. ASSUME ResolveBackupsToRestore PROVE ExitInv'
  BY <1>2, <1>k DEF ResolveBackupsToRestore
<1>3. ASSUME NEW c \in Copy, RestoreBackup(c) PROVE ExitInv'
  BY <1>3, <1>k DEF RestoreBackup
<1>4. ASSUME Down PROVE ExitInv'
  <2>1. shutdown'.phase = "off" /\ Early'
    BY <1>4, NoShutdownIs DEF Down, Early
  <2>2. ASSUME NEW c \in Copy PROVE CopyInv(c)'
    <3>1. /\ queue'[c] = <<>> /\ open'[c] = "closed" /\ ~modified'[c] /\ version'[c] = 0
          /\ model'[c] = Unknown
      BY <1>4 DEF Down
    <3>2. Owned(c)' /\ Quiet(c)' /\ Backed(c)'
      BY <2>1, <3>1 DEF Owned, Quiet, Backed
    <3>3. Versions(c)'
      BY <3>1 DEF Versions, ClosedVersions, Unknown
    <3> QED  BY <2>1, <3>1, <3>2, <3>3 DEF CopyInv
  <2>3. PhaseInv'
    BY <2>1 DEF PhaseInv
  <2> QED  BY <2>2, <2>3 DEF ExitInv
<1>5. ASSUME Start PROVE ExitInv'
  BY <1>5, <1>k DEF Start
<1> QED  BY <1>1, <1>2, <1>3, <1>4, <1>5

\* What is stored or restorable stays so while no operation is added.
LEMMA SimilarKeeps ==
    ASSUME NEW c \in Copy, Similar(queue[c], queue'[c]), disk'[c] = disk[c], text'[c] = text[c],
           version'[c] = version[c], model'[c] = model[c], modified'[c] => modified[c]
    PROVE  /\ Stored(c) => Stored(c)'
           /\ OpenVersions(c) => OpenVersions(c)'
           /\ model[c] <= 0 /\ (\A i \in DOMAIN queue[c] : queue[c][i].kind = "read") =>
                 ClosedVersions(c)'
BY DEF Similar, Stored, OpenVersions, ClosedVersions

\* While a shutdown is handled nobody waits for a write but the shutdown for its backups,
\* and no editor opens.
LEMMA NoneOwned ==
    ASSUME BackupInv', shutdown'.phase \notin {"off", "backup"}, NEW c \in Copy,
           pending'[c] = "none", open'[c] # "opening",
           Early' => \A i \in DOMAIN queue'[c] : queue'[c][i].owner = "nobody" => i = 1
    PROVE  Owned(c)'
<1>1. ASSUME NEW i \in DOMAIN queue'[c]
      PROVE  /\ queue'[c][i].owner # "tracker" /\ queue'[c][i].kind # "read"
             /\ queue'[c][i].owner = "shutdown" => queue'[c][i].kind # "write"
  <2>1. Fits(queue'[c], pending'[c])
    BY DEF BackupInv, QueueInv
  <2>2. queue'[c][i].owner # "tracker"
    BY <2>1 DEF Fits
  <2>3. queue'[c][i].kind # "read"
    BY DEF BackupInv, QueueInv, HasKind
  <2>4. queue'[c][i].owner = "shutdown" => queue'[c][i].kind # "write"
    BY DEF BackupInv, QueueInv, Has1
  <2> QED  BY <2>2, <2>3, <2>4
<1> QED  BY <1>1 DEF Owned

\* The shutdown goes on to discard, or ends.
LEMMA LateStep ==
    ASSUME BackupInv, ExitInv, BackupInv', shutdown.phase # "off",
           shutdown'.phase \in {"discarding", "acknowledged", "leaving"},
           UNCHANGED <<open, version>>, \A c \in Copy : pending'[c] \in {"none", pending[c]},
           \A c \in Copy : c \in Modified' \ given' =>
              /\ ~Has1(queue'[c], "delete", "shutdown")
              /\ c \notin stale' => Has(c)' /\ Stored(c)',
           shutdown'.saving \cap Modified' = {}
    PROVE  ExitInv'
<1>1. ~Early' /\ shutdown'.phase \notin {"off", "begun", "backup", "error", "confirm", "saving"}
  BY DEF Early
<1>2. ASSUME NEW c \in Copy PROVE CopyInv(c)'
  <2>1. pending'[c] = "none" /\ open'[c] # "opening" /\ (open'[c] # "open" => version'[c] = 0)
    BY DEF ExitInv, CopyInv, Quiet
  <2>2. Owned(c)'
    BY <1>1, <2>1, NoneOwned
  <2>3. Kept(c)' /\ Quiet(c)' /\ Backed(c)'
    BY <1>1, <2>1 DEF Kept, Quiet, Backed
  <2> QED  BY <1>1, <2>1, <2>2, <2>3 DEF CopyInv
<1>3. PhaseInv'
  BY <1>1 DEF PhaseInv
<1> QED  BY <1>2, <1>3 DEF ExitInv

\* A modified working copy that the shutdown took for backed up is stored.
LEMMA BackedStored ==
    ASSUME BackupInv, ExitInv, shutdown.phase \in {"backup", "error", "confirm", "saving"},
           NEW c \in Copy, c \in shutdown.backups, c \in Modified, c \notin stale
    PROVE  Has(c) /\ Stored(c)
<1>1. Early /\ CopyInv(c) /\ modified[c]
  BY DEF ExitInv, Early, Modified
<1>2. Has(c)
  BY <1>1 DEF CopyInv, Backed
<1> QED  BY <1>1, <1>2 DEF CopyInv, Versions

LEMMA ExitNoVeto ==
    ASSUME BackupInv, ExitInv, BackupInv', NEW C \in SUBSET Copy, NoVeto(C),
           shutdown.phase \in {"begun", "autosave", "confirm", "saving"},
           UNCHANGED <<disk, text, open, version, model, stale, pending>>,
           \A c \in Copy : modified'[c] => modified[c],
           \A c \in Copy : c \in Modified' \ given' =>
              c \notin C /\ (c \notin stale => Has(c) /\ Stored(c)),
           shutdown.saving \cap Modified' = {}
    PROVE  ExitInv'
<1>0. Types /\ QueueInv
  BY DEF BackupInv
<1>1. /\ shutdown'.saving = shutdown.saving
      /\ shutdown'.phase \in {"discarding", "acknowledged"}
      /\ \A c \in Copy \ C : queue'[c] = queue[c]
  BY <1>0, NoVetoIs
<1>2. ASSUME NEW c \in Copy, c \in Modified' \ given'
      PROVE  /\ ~Has1(queue'[c], "delete", "shutdown")
             /\ c \notin stale' => Has(c)' /\ Stored(c)'
  <2>1. queue'[c] = queue[c]
    BY <1>1, <1>2
  <2>2. ~Has1(queue[c], "delete", "shutdown")
    BY <1>0 DEF QueueInv
  <2>3. Similar(queue[c], queue'[c])
    BY <2>1 DEF Similar
  <2> QED  BY <1>2, <2>1, <2>2, <2>3, SimilarKeeps DEF Has
<1> QED  BY <1>1, <1>2, LateStep

\* A shutdown begins or goes on; all it adds to the queues is backups.
LEMMA EarlyStep ==
    ASSUME BackupInv, ExitInv, Early, Early', shutdown'.phase # "off",
           UNCHANGED <<disk, open, text, version, model, modified>>,
           stale \subseteq stale', missed \subseteq missed',
           \A c \in Copy : pending'[c] = "none" /\ open[c] # "opening",
           \A c \in Copy \ stale' : pending[c] # "discard",
           \A c \in Copy \ missed' : pending[c] = "none",
           \A c \in Copy : Owned(c)' /\ Backed(c)',
           \A c \in Copy :
              \/ Similar(queue[c], queue'[c])
              \/ /\ c \in Modified /\ ~Has(c)
                 /\ queue'[c] = Append(queue[c], NewTask("write", "shutdown", c)),
           PhaseInv'
    PROVE  ExitInv'
<1>0. Types /\ QueueInv /\ \A c \in Copy : CopyInv(c) /\ queue[c] \in Seq(Task)
  BY DEF BackupInv, ExitInv, Types
<1>1. ASSUME NEW c \in Copy \ stale' PROVE Versions(c)'
  <2>1. Versions(c) /\ pending'[c] = "none" /\ ~Has1(queue[c], "delete", "tracker")
    <3>1. ~Has1(queue[c], "delete", "tracker")
      BY <1>0, <1>1 DEF QueueInv, Fits, Has1
    <3> QED  BY <1>0, <1>1, <3>1 DEF CopyInv
  <2>2. Has(c)' <=> Has(c)
    BY DEF Has
  <2>3. modified[c] /\ c \notin missed' => Has(c)
    BY <1>1, <2>1 DEF Versions
  <2>4. CASE Similar(queue[c], queue'[c])
    <3>1. (OpenVersions(c) => OpenVersions(c)') /\ (Stored(c) => Stored(c)')
      BY <2>4, SimilarKeeps
    <3>2. ClosedVersions(c) => ClosedVersions(c)'
      BY <2>1, <2>4, SimilarKeeps DEF ClosedVersions
    <3> QED  BY <2>1, <2>2, <2>3, <3>1, <3>2 DEF Versions
  <2>5. CASE /\ c \in Modified /\ ~Has(c)
             /\ queue'[c] = Append(queue[c], NewTask("write", "shutdown", c))
    <3> DEFINE t == NewTask("write", "shutdown", c)
    <3>1. t \in Task /\ t.version = version[c] /\ t.text = text[c]
      BY <1>0, NewTaskIs
    <3>2. queue'[c] = Append(queue[c], t)
      BY <2>5
    <3> HIDE DEF t
    <3>3. \A i \in DOMAIN queue'[c] : \/ i \in DOMAIN queue[c] /\ queue'[c][i] = queue[c][i]
                                      \/ queue'[c][i] = t
      BY <1>0, <3>1, <3>2, AppendIs
    <3>4. OpenVersions(c) /\ open[c] = "open" /\ version[c] \in 0..MaxText
      BY <1>0, <2>1, <2>5 DEF Versions, Modified, Types
    <3>5. OpenVersions(c)'
      BY <3>1, <3>3, <3>4 DEF OpenVersions
    <3> QED  BY <2>1, <2>2, <2>3, <2>5, <3>4, <3>5 DEF Versions
  <2> QED  BY <2>4, <2>5
<1>2. ASSUME NEW c \in Copy PROVE CopyInv(c)'
  <2>1. Quiet(c)' /\ (open'[c] # "open" => version'[c] = 0)
    BY <1>0 DEF CopyInv, Quiet
  <2> QED  BY <1>1, <2>1 DEF CopyInv
<1> QED  BY <1>2 DEF ExitInv

\* The tracker resumes after a veto.
LEMMA ExitVeto ==
    ASSUME BackupInv, ExitInv, Early, Veto,
           UNCHANGED <<disk, open, text, version, model, modified, queue, pending, missed, stale>>
    PROVE  ExitInv'
<1>1. shutdown'.phase = "off" /\ Early'
  BY NoShutdownIs DEF Veto, Early
<1>2. ASSUME NEW c \in Copy PROVE CopyInv(c)'
  <2>1. CopyInv(c) /\ (c \in Modified' <=> c \in Modified) /\ (Has(c)' <=> Has(c))
    BY DEF ExitInv, Modified, Has
  <2>2. Owned(c)'
    BY <1>1, <2>1 DEF CopyInv, Owned
  <2>3. Quiet(c)' /\ Backed(c)' /\ (open'[c] # "open" => version'[c] = 0)
    BY <1>1, <2>1 DEF CopyInv, Quiet, Backed
  <2>4. Versions(c) => Versions(c)'
    <3>1. (OpenVersions(c) => OpenVersions(c)') /\ (ClosedVersions(c) => ClosedVersions(c)')
          /\ (Stored(c) => Stored(c)')
      BY DEF OpenVersions, ClosedVersions, Stored
    <3> QED  BY <2>1, <3>1 DEF Versions
  <2> QED  BY <1>1, <2>1, <2>2, <2>3, <2>4 DEF CopyInv
<1>3. PhaseInv'
  BY <1>1 DEF PhaseInv
<1> QED  BY <1>2, <1>3 DEF ExitInv

\* The backups of the shutdown are asked for.
LEMMA ExitBackUp ==
    ASSUME BackupInv, ExitInv, BackupInv', shutdown.phase \in {"begun", "autosave"},
           Interference = {}, HandleModified(Modified),
           UNCHANGED <<disk, open, text, version, model, modified, stale, missed, pending>>
    PROVE  ExitInv'
<1>0. Types /\ QueueInv /\ SessionInv /\ Early
      /\ Modified \in SUBSET Copy /\ \A c \in Copy : CopyInv(c) /\ queue[c] \in Seq(Task)
  BY DEF BackupInv, ExitInv, Early, Modified, Types
<1>1. PICK toBackup \in {Modified, {}, Modified \cap Scratchpad} : BackUp(Modified, toBackup)
  BY DEF HandleModified
<1>2. toBackup \in SUBSET Copy /\ toBackup \subseteq Modified
  BY <1>0
<1>3. /\ shutdown'.phase = "backup" /\ shutdown'.copies = Modified /\ shutdown'.saving = {}
      /\ shutdown'.backups = {c \in toBackup : Has(c)}
      /\ \A c \in Copy : queue'[c] = IF c \in toBackup /\ ~Has(c)
                                     THEN Append(queue[c], NewTask("write", "shutdown", c))
                                     ELSE queue[c]
  BY <1>0, <1>1, <1>2, BackUpIs
<1>4. Early' /\ Modified' = Modified
  BY <1>3 DEF Early, Modified
<1>5. \A c \in Copy : pending[c] = "none" /\ open[c] # "opening"
  BY <1>0 DEF CopyInv, Quiet
<1>6. ASSUME NEW c \in Copy PROVE Owned(c)'
  <2>1. ASSUME NEW i \in DOMAIN queue[c]
        PROVE  /\ queue[c][i].owner \notin {"tracker", "shutdown"} /\ queue[c][i].kind # "read"
               /\ queue[c][i].owner = "nobody" => i = 1
    <3>1. queue[c][i].owner # "tracker" /\ queue[c][i].owner # "shutdown"
      BY <1>0, <1>5, Idle
    <3>2. queue[c][i].kind # "read"
      BY <1>0, <1>5 DEF QueueInv, HasKind
    <3> QED  BY <1>0, <3>1, <3>2 DEF CopyInv, Owned
  <2>2. CASE queue'[c] = queue[c]
    BY <2>1, <2>2 DEF Owned
  <2>3. CASE c \in Modified /\ queue'[c] = Append(queue[c], NewTask("write", "shutdown", c))
    <3> DEFINE t == NewTask("write", "shutdown", c)
    <3>1. /\ t \in Task /\ t.kind = "write" /\ t.owner = "shutdown" /\ t.version = version[c]
          /\ t.text = text[c]
      BY <1>0, NewTaskIs
    <3>2. queue'[c] = Append(queue[c], t)
      BY <2>3
    <3> HIDE DEF t
    <3>3. \A i \in DOMAIN queue'[c] : \/ i \in DOMAIN queue[c] /\ queue'[c][i] = queue[c][i]
                                      \/ i = Len(queue'[c]) /\ queue'[c][i] = t
      BY <1>0, <3>1, <3>2, AppendIs
    <3> QED  BY <1>4, <2>1, <2>3, <3>1, <3>3 DEF Owned
  <2> QED  BY <1>2, <1>3, <2>2, <2>3
<1>7. ASSUME NEW c \in Copy
      PROVE  \/ Similar(queue[c], queue'[c])
             \/ /\ c \in Modified /\ ~Has(c)
                /\ queue'[c] = Append(queue[c], NewTask("write", "shutdown", c))
  BY <1>2, <1>3 DEF Similar
<1>8. ASSUME NEW c \in Copy PROVE Backed(c)'
  BY <1>3 DEF Backed, Has
<1>9. PhaseInv'
  BY <1>3, <1>4 DEF PhaseInv
<1> QED  BY <1>0, <1>3, <1>4, <1>5, <1>6, <1>7, <1>8, <1>9, EarlyStep

\* When the count went down by what was to be saved, all of it is saved.
LEMMA AllSaved ==
    ASSUME NEW M \in SUBSET Copy, NEW C \in SUBSET Copy,
           ~(Cardinality(M \cup C) - Cardinality(M) < Cardinality(C))
    PROVE  M \cap C = {}
<1>1. IsFiniteSet(M) /\ IsFiniteSet(C) /\ IsFiniteSet(M \cap C)
  <2>1. M \cap C \subseteq Copy
    OBVIOUS
  <2> QED  BY <2>1, CopyAssumption, FS_Subset
<1>2. Cardinality(M \cup C) = Cardinality(M) + Cardinality(C) - Cardinality(M \cap C)
  BY <1>1, FS_Union
<1>3. /\ Cardinality(M) \in Nat /\ Cardinality(C) \in Nat /\ Cardinality(M \cap C) \in Nat
  BY <1>1, FS_CardinalityType
<1>4. Cardinality(M \cap C) = 0
  BY <1>2, <1>3
<1> QED  BY <1>1, <1>4, FS_EmptySet

LEMMA ExitShutdown ==
    ASSUME BackupInv, ExitInv, Interference = {}, Shutdown, BackupInv'
    PROVE  ExitInv'
<1> USE DEF diskVars, copyVars, serviceVars, trackerVars, shutdownUnchanged
<1>0. Types /\ QueueInv /\ SessionInv /\ PhaseInv /\ shutdown \in ShutdownType
      /\ shutdown.copies \in SUBSET Copy /\ Modified \in SUBSET Copy
      /\ queue \in [Copy -> Seq(Task)]
  BY DEF BackupInv, ExitInv, Types, ShutdownType, Modified
<1>1. \A c \in Copy : /\ CopyInv(c) /\ queue[c] \in Seq(Task)
                      /\ OneOf(queue[c], "tracker") /\ OneOf(queue[c], "shutdown")
  BY <1>0, FitsOneOf DEF ExitInv, QueueInv
<1>2. shutdown.phase # "off" => \A c \in Copy : pending[c] = "none" /\ open[c] # "opening"
  BY <1>1 DEF CopyInv, Quiet
<1>p. \A p \in Phase : LET s == [shutdown EXCEPT !.phase = p]
                       IN  /\ s.phase = p /\ s.copies = shutdown.copies
                           /\ s.saving = shutdown.saving /\ s.backups = shutdown.backups
                           /\ s.count = shutdown.count
  BY <1>0, EnteredIs
<1>q. /\ "acknowledged" \in Phase /\ "leaving" \in Phase
  BY DEF Phase
<1>a. Acknowledge => shutdown'.phase = "acknowledged" /\ shutdown'.saving = shutdown.saving
  BY <1>p, <1>q DEF Acknowledge, Enters
<1>e. shutdown.phase \in {"off", "begun", "autosave", "backup", "error", "confirm", "saving"} =>
         Early
  BY DEF Early
<1>n. Early => \A c \in Copy : \A i \in DOMAIN queue[c] : queue[c][i].owner = "nobody" => i = 1
  BY <1>1 DEF CopyInv, Owned
\* What cancelling leaves behind.
<1>c. ASSUME NEW o \in {"tracker", "shutdown"}, queue' = [c \in Copy |-> Cancel(queue[c], o)],
             NEW c \in Copy
      PROVE  /\ Similar(queue[c], queue'[c])
             /\ Early => \A i \in DOMAIN queue'[c] : queue'[c][i].owner = "nobody" => i = 1
  <2>1. queue'[c] = Cancel(queue[c], o) /\ OneOf(queue[c], o) /\ Cancel(queue[c], o) \in Seq(Task)
    BY <1>0, <1>1, <1>c, CancelAllIs, CancelIs
  <2>2. /\ Similar(queue[c], queue'[c])
        /\ \A i \in DOMAIN queue'[c] : queue'[c][i].owner = "nobody" =>
              i = 1 \/ \E j \in DOMAIN queue[c] : i <= j /\ queue[c][j].owner = "nobody"
    BY <1>1, <2>1, CancelSimilar
  <2>3. ASSUME Early, NEW i \in DOMAIN queue'[c], queue'[c][i].owner = "nobody" PROVE i = 1
    <3>1. i \in Int /\ 1 <= i
      BY <2>1
    <3>2. ASSUME NEW j \in DOMAIN queue[c], i <= j, queue[c][j].owner = "nobody" PROVE i = 1
      <4>1. j = 1
        BY <1>n, <2>3, <3>2
      <4> QED  BY <3>1, <3>2, <4>1
    <3> QED  BY <2>2, <2>3, <3>2
  <2> QED  BY <2>2, <2>3
\* The phase changes, and only that.
<1>f. ASSUME UNCHANGED <<disk, open, text, version, model, modified, stale, missed, pending, queue>>,
             shutdown.phase # "off", Early, Early', shutdown'.phase \notin {"off", "backup"},
             PhaseInv', \A c \in Copy : Backed(c)'
      PROVE  ExitInv'
  <2>1. \A c \in Copy : Owned(c)'
    BY <1>2, <1>f, <1>n, NoneOwned
  <2>2. \A c \in Copy : Similar(queue[c], queue'[c])
    BY <1>f DEF Similar
  <2> QED  BY <1>2, <1>f, <2>1, <2>2, EarlyStep
<1>3. CASE BeginShutdown
  <2>1. /\ shutdown' = [NoShutdown EXCEPT !.phase = "begun", !.copies = Modified]
        /\ CancelBackupOperations /\ missed' = missed \cup {c \in Copy : pending[c] # "none"}
        /\ stale' = stale \cup {c \in Copy : pending[c] = "discard"}
        /\ UNCHANGED <<disk, open, text, version, model, modified>> /\ shutdown.phase = "off"
        /\ \A c \in Copy : open[c] # "opening"
    BY <1>3 DEF BeginShutdown
  <2>2. /\ shutdown'.phase = "begun" /\ shutdown'.copies = Modified /\ shutdown'.saving = {}
        /\ Modified' = Modified /\ Early /\ Early'
    BY <2>1 DEF NoShutdown, Modified, Early
  <2>3. /\ queue' = [c \in Copy |-> Cancel(queue[c], "tracker")]
        /\ \A c \in Copy : pending'[c] = "none"
    BY <2>1 DEF CancelBackupOperations
  <2>4. \A c \in Copy : Owned(c)'
    BY <1>c, <2>1, <2>2, <2>3, NoneOwned
  <2>5. PhaseInv' /\ \A c \in Copy : Backed(c)'
    BY <2>2 DEF PhaseInv, Backed
  <2> QED  BY <1>c, <2>1, <2>2, <2>3, <2>4, <2>5, EarlyStep
<1>4. CASE DiscardRest
  <2>1. shutdown.phase = "begun" /\ Modified = {} /\ shutdown.saving = {}
    BY <1>0, <1>4 DEF DiscardRest, PhaseInv
  <2>2. {c \in Copy : model[c] # Unknown} \ Except \in SUBSET Copy
    OBVIOUS
  <2>3. Modified' = {}
    BY <1>4, <2>1 DEF DiscardRest, Modified
  <2> QED  BY <1>4, <2>1, <2>2, <2>3, ExitNoVeto DEF DiscardRest
<1>5. CASE DiscardHome
  <2>1. shutdown.phase = "begun" /\ Modified = {} /\ shutdown.saving = {}
    BY <1>0, <1>5 DEF DiscardHome, PhaseInv
  <2>2. Modified' = {} /\ Acknowledge /\ UNCHANGED <<open, version, pending>>
    BY <1>5, <2>1 DEF DiscardHome, Modified
  <2> QED  BY <1>a, <2>1, <2>2, LateStep
<1>6. CASE AutoSave
  <2>1. shutdown.phase = "begun" /\ shutdown'.phase = "autosave"
    BY <1>0, <1>6 DEF AutoSave, ShutdownType
  <2>2. Early' /\ PhaseInv' /\ \A c \in Copy : Backed(c)'
    BY <2>1 DEF Early, PhaseInv, Backed
  <2> QED  BY <1>6, <1>e, <1>f, <2>1, <2>2 DEF AutoSave
<1>7. CASE NoAutoSave
  <2>1. shutdown.phase = "begun" /\ shutdown.copies = Modified
    BY <1>0, <1>7 DEF NoAutoSave, PhaseInv
  <2> QED  BY <1>7, <2>1, ExitBackUp DEF NoAutoSave
<1>8. CASE AutoSaveEnds
  <2>1. shutdown.phase = "autosave" /\ Modified' = Modified
    BY <1>8 DEF AutoSaveEnds, Modified
  <2>2. CASE Modified = {}
    BY <1>0, <1>8, <2>1, <2>2, ExitNoVeto DEF AutoSaveEnds
  <2>3. CASE Modified # {}
    BY <1>8, <2>1, <2>3, ExitBackUp DEF AutoSaveEnds
  <2> QED  BY <2>2, <2>3
<1>9. CASE BackupEnds
  <2>1. /\ shutdown.phase = "backup" /\ Modified' = Modified /\ shutdown.copies = Modified
        /\ shutdown.saving = {} /\ queue' = [c \in Copy |-> Cancel(queue[c], "shutdown")]
        /\ UNCHANGED <<disk, open, text, version, model, modified, stale, missed, pending, given>>
    BY <1>0, <1>9 DEF BackupEnds, Modified, PhaseInv
  <2>2. CASE shutdown.backups = shutdown.copies
    <3>1. Acknowledge
      BY <1>9, <2>2 DEF BackupEnds
    <3>2. ASSUME NEW c \in Copy, c \in Modified' \ given'
          PROVE  /\ ~Has1(queue'[c], "delete", "shutdown")
                 /\ c \notin stale' => Has(c)' /\ Stored(c)'
      <4>1. ~Has1(queue'[c], "delete", "shutdown")
        BY <1>a, <3>1 DEF BackupInv, QueueInv
      <4>2. c \notin stale => Has(c) /\ Stored(c)
        BY <2>1, <2>2, <3>2, BackedStored
      <4>3. Similar(queue[c], queue'[c])
        BY <1>c, <2>1
      <4> QED  BY <2>1, <4>1, <4>2, <4>3, SimilarKeeps DEF Has
    <3> QED  BY <1>a, <2>1, <3>1, <3>2, LateStep
  <2>3. CASE shutdown.backups # shutdown.copies
    <3>1. /\ shutdown'.phase \in {"error", "confirm"} /\ shutdown'.saving = {}
          /\ shutdown'.copies = shutdown.copies \ shutdown.backups
          /\ shutdown'.backups = shutdown.backups
      BY <1>0, <1>9, <2>1, <2>3 DEF BackupEnds, ShutdownType
    <3>2. Early /\ Early' /\ PhaseInv'
      BY <2>1, <3>1 DEF Early, PhaseInv
    <3>3. \A c \in Copy : Owned(c)'
      BY <1>2, <1>c, <2>1, <3>1, <3>2, NoneOwned
    <3>4. \A c \in Copy : Backed(c)'
      BY <1>1, <2>1, <3>1 DEF CopyInv, Backed, Has
    <3> QED  BY <1>2, <1>c, <2>1, <3>1, <3>2, <3>3, <3>4, EarlyStep
  <2> QED  BY <2>2, <2>3
\* The user leaves without what is neither saved nor backed up.
<1>g. ASSUME shutdown.phase \in {"error", "confirm"}, NEW c \in Copy, c \in Modified,
             c \notin shutdown.copies
      PROVE  c \notin stale => Has(c) /\ Stored(c)
  <2>1. c \in shutdown.backups
    BY <1>0, <1>g DEF PhaseInv
  <2> QED  BY <1>g, <2>1, BackedStored
<1>10. CASE ErrorDialog
  <2>0. /\ shutdown.phase = "error" /\ shutdown.saving = {}
        /\ UNCHANGED <<disk, open, text, version, model, modified, stale, missed, pending, queue>>
    BY <1>0, <1>10 DEF ErrorDialog, PhaseInv
  <2>1. CASE Veto
    BY <1>e, <2>0, <2>1, ExitVeto
  <2>2. CASE Acknowledge /\ given' = shutdown.copies
    <3>1. ASSUME NEW c \in Copy, c \in Modified' \ given'
          PROVE  /\ ~Has1(queue'[c], "delete", "shutdown")
                 /\ c \notin stale' => Has(c)' /\ Stored(c)'
      <4>1. ~Has1(queue'[c], "delete", "shutdown")
        BY <1>a, <2>2 DEF BackupInv, QueueInv
      <4>2. c \notin stale => Has(c) /\ Stored(c)
        BY <1>g, <2>0, <2>2, <3>1 DEF Modified
      <4> QED  BY <2>0, <4>1, <4>2 DEF Has, Stored
    <3> QED  BY <1>a, <2>0, <2>2, <3>1, LateStep
  <2> QED  BY <1>10, <2>1, <2>2 DEF ErrorDialog
<1>11. CASE ConfirmSave
  <2>1. /\ shutdown.phase = "confirm" /\ shutdown'.phase = "saving"
        /\ shutdown'.saving = shutdown.copies /\ shutdown'.copies = shutdown.copies
        /\ shutdown'.backups = shutdown.backups /\ shutdown'.count = Cardinality(Modified)
        /\ UNCHANGED <<disk, open, text, version, model, modified, stale, missed, pending, queue>>
    <3>1. shutdown.phase = "confirm" /\ shutdown.saving \cup shutdown.copies = shutdown.copies
      BY <1>0, <1>11 DEF ConfirmSave, PhaseInv
    <3> QED  BY <1>0, <1>11, <3>1 DEF ConfirmSave, ShutdownType
  <2>2. Modified' = Modified /\ Modified \cup shutdown.copies = Modified /\ Early /\ Early'
    BY <1>0, <2>1 DEF Modified, PhaseInv, Early
  <2>3. PhaseInv'
    BY <1>0, <2>1, <2>2 DEF PhaseInv
  <2>4. \A c \in Copy : Backed(c)'
    BY <1>1, <2>1, <2>2 DEF CopyInv, Backed, Has
  <2> QED  BY <1>f, <2>1, <2>2, <2>3, <2>4
<1>12. CASE SaveEnds
  <2>0. /\ shutdown.phase = "saving" /\ Modified' = Modified /\ shutdown.saving = shutdown.copies
        /\ shutdown.count = Cardinality(Modified \cup shutdown.copies)
        /\ UNCHANGED <<disk, open, text, version, model, modified, stale, missed, pending>>
    BY <1>0, <1>12 DEF SaveEnds, Modified, PhaseInv
  <2>1. CASE shutdown.count - Cardinality(Modified) < Cardinality(shutdown.copies)
    BY <1>12, <1>e, <2>0, <2>1, ExitVeto DEF SaveEnds
  <2>2. CASE ~(shutdown.count - Cardinality(Modified) < Cardinality(shutdown.copies))
    <3>1. NoVeto(shutdown.copies) /\ UNCHANGED given
      BY <1>12, <2>2 DEF SaveEnds
    <3>2. Modified \cap shutdown.copies = {}
      BY <1>0, <2>0, <2>2, AllSaved
    <3>3. ASSUME NEW c \in Copy, c \in Modified' \ given'
          PROVE  c \notin shutdown.copies /\ (c \notin stale => Has(c) /\ Stored(c))
      <4>1. c \in Modified /\ c \notin shutdown.copies
        BY <2>0, <3>2, <3>3
      <4>2. c \in shutdown.backups
        BY <1>0, <2>0, <4>1 DEF PhaseInv
      <4> QED  BY <2>0, <4>1, <4>2, BackedStored
    <3> QED  BY <1>0, <2>0, <3>1, <3>2, <3>3, ExitNoVeto
  <2> QED  BY <2>1, <2>2
<1>13. CASE ConfirmDontSave
  <2>1. /\ shutdown.phase = "confirm" /\ given' = shutdown.copies /\ NoVeto(shutdown.copies)
        /\ UNCHANGED <<disk, open, text, version, model, stale, pending>>
        /\ \A c \in Copy : modified'[c] => modified[c]
    BY <1>13 DEF ConfirmDontSave
  <2>2. \A c \in Copy : c \in Modified' => c \in Modified
    BY <2>1 DEF Modified
  <2>3. shutdown.saving \cap Modified' = {}
    BY <1>0, <2>1 DEF PhaseInv
  <2> QED  BY <1>0, <1>g, <2>1, <2>2, <2>3, ExitNoVeto
<1>14. CASE ConfirmCancel
  BY <1>14, <1>e, ExitVeto DEF ConfirmCancel
\* From here on nothing changes but the owners of what is queued.
<1>l. ASSUME ~Early, shutdown'.phase \in {"acknowledged", "leaving"},
             shutdown'.saving = shutdown.saving, \A c \in Copy : Similar(queue[c], queue'[c]),
             UNCHANGED <<disk, open, text, version, model, modified, stale, given>>,
             \A c \in Copy : pending'[c] \in {"none", pending[c]}
      PROVE  ExitInv'
  <2>1. Modified' = Modified /\ shutdown.phase # "off"
    BY <1>l DEF Modified, Early
  <2>2. ASSUME NEW c \in Copy, c \in Modified' \ given'
        PROVE  /\ ~Has1(queue'[c], "delete", "shutdown")
               /\ c \notin stale' => Has(c)' /\ Stored(c)'
    <3>1. ~Has1(queue'[c], "delete", "shutdown")
      BY <1>l DEF BackupInv, QueueInv
    <3>2. c \notin stale => Has(c) /\ Stored(c)
      BY <1>1, <1>l, <2>1, <2>2 DEF CopyInv, Kept
    <3> QED  BY <1>l, <3>1, <3>2, SimilarKeeps DEF Has
  <2>3. shutdown'.saving \cap Modified' = {}
    BY <1>0, <1>l, <2>1 DEF PhaseInv
  <2> QED  BY <1>l, <2>1, <2>2, <2>3, LateStep
<1>15. CASE DiscardEnds
  <2>1. ASSUME NEW c \in Copy PROVE Similar(queue[c], queue'[c])
    <3>1. queue'[c] = Disowned(queue[c])
      BY <1>0, <1>15, DisownAllIs
    <3>2. /\ DOMAIN Disowned(queue[c]) = DOMAIN queue[c]
          /\ \A i \in DOMAIN queue[c] :
                /\ Disowned(queue[c])[i].kind = queue[c][i].kind
                /\ Disowned(queue[c])[i].begun = queue[c][i].begun
                /\ Disowned(queue[c])[i].text = queue[c][i].text
                /\ Disowned(queue[c])[i].version = queue[c][i].version
      BY <1>1, DisownedIs
    <3> QED  BY <3>1, <3>2 DEF Similar
  <2>2. ~Early
    BY <1>15 DEF DiscardEnds, Early
  <2> QED  BY <1>15, <1>a, <1>l, <2>1, <2>2 DEF DiscardEnds
<1>16. CASE WillShutdown
  <2>1. ~Early /\ shutdown'.phase = "leaving" /\ shutdown'.saving = shutdown.saving
    BY <1>16, <1>p, <1>q DEF WillShutdown, Enters, Early
  <2>2. /\ queue' = [c \in Copy |-> Cancel(queue[c], "tracker")]
        /\ \A c \in Copy : pending'[c] = "none"
    BY <1>16 DEF WillShutdown, CancelBackupOperations
  <2> QED  BY <1>16, <1>c, <1>l, <2>1, <2>2 DEF WillShutdown
<1>17. CASE Exit
  BY <1>17, ExitSession DEF Exit
<1>18. CASE ConfirmFails
  <2>1. /\ shutdown.phase = "confirm" /\ shutdown'.phase = "error"
        /\ shutdown'.saving = shutdown.saving /\ shutdown'.copies = shutdown.copies
        /\ shutdown'.backups = shutdown.backups
        /\ UNCHANGED <<disk, open, text, version, model, modified, stale, missed, pending, queue>>
    BY <1>0, <1>18, ConfirmFailsIs
  <2>2. Modified' = Modified /\ Early /\ Early'
    BY <2>1 DEF Modified, Early
  <2>3. PhaseInv'
    BY <1>0, <2>1, <2>2 DEF PhaseInv
  <2>4. \A c \in Copy : Backed(c)'
    BY <1>1, <2>1, <2>2 DEF CopyInv, Backed, Has
  <2> QED  BY <1>f, <2>1, <2>2, <2>3, <2>4
<1> QED
  BY <1>3, <1>4, <1>5, <1>6, <1>7, <1>8, <1>9, <1>10, <1>11, <1>12, <1>13, <1>14, <1>15, <1>16,
     <1>17, <1>18 DEF Shutdown

LEMMA ExitStep ==
    ASSUME BackupInv, ExitInv, Interference = {}, [Next]_vars, BackupInv'
    PROVE  ExitInv'
<1>1. CASE UNCHANGED vars
  <2> USE DEF vars, diskVars, copyVars, serviceVars, trackerVars
  <2>1. \A c \in Copy : CopyInv(c)'
    BY <1>1, CopyFrame DEF ExitInv
  <2>2. PhaseInv'
    BY <1>1, PhaseFrame DEF ExitInv, BackupInv, Modified
  <2> QED  BY <2>1, <2>2 DEF ExitInv
<1>2. CASE Next
  BY <1>2, ExitTimer, ExitOperation, ExitWorkingCopy, ExitSession, ExitShutdown DEF Next, Crash
<1> QED  BY <1>1, <1>2

LEMMA ExitInit == Init => ExitInv
<1> SUFFICES ASSUME Init PROVE ExitInv
  OBVIOUS
<1>1. shutdown.phase = "off" /\ Early
  BY NoShutdownIs DEF Init, Early
<1>2. ASSUME NEW c \in Copy PROVE CopyInv(c)
  <2>1. /\ queue[c] = <<>> /\ open[c] = "closed" /\ ~modified[c] /\ version[c] = 0
        /\ model[c] = Unknown
    BY DEF Init
  <2>2. Owned(c) /\ Quiet(c) /\ Backed(c)
    BY <1>1, <2>1 DEF Owned, Quiet, Backed
  <2>3. Versions(c)
    BY <2>1 DEF Versions, ClosedVersions, Unknown
  <2> QED  BY <1>1, <2>1, <2>2, <2>3 DEF CopyInv
<1>3. PhaseInv
  BY <1>1 DEF PhaseInv
<1> QED  BY <1>2, <1>3 DEF ExitInv

-----------------------------------------------------------------------------
(* Theorems of a shutdown without interference *)

\* Unless a working copy is changed by something else than the saves and reverts that
\* onFinalBeforeShutdown waits for, while it runs, backups, versions and the questions
\* of the shutdown keep the relations of ExitInv.
THEOREM ExitInvariant ==
    ASSUME Interference = {}
    PROVE  Spec => [](BackupInv /\ ExitInv)
<1>1. ExitInv /\ BackupInv /\ BackupInv' /\ [Next]_vars => ExitInv'
  BY ExitStep
<1>2. Init => ExitInv
  BY ExitInit
<1> QED  BY <1>1, <1>2, BackupInvariant, PTL DEF Spec

\* Hot exit (onFinalBeforeShutdown, noVeto, joinBackups): an acknowledged shutdown has
\* the last text of every modified working copy in its backup file, but for the copies
\* the user gave up and those of which an earlier discard was lost, whatever mixture of
\* auto saves, saves, backups and answers of the user led there, in whatever order the
\* queued operations ran or failed, for any number of working copies.  The hypothesis
\* excludes changes by the user, and auto saves that land after their wait was cancelled:
\* with the latter, the count of SaveEnds takes one save for another.
THEOREM KeepsTheorem ==
    ASSUME Interference = {}
    PROVE  Spec => []HotExitKeeps
<1>1. BackupInv /\ ExitInv => HotExitKeeps
  <2> SUFFICES ASSUME ExitInv, shutdown.phase \in {"acknowledged", "leaving"},
                      NEW c \in Modified \ (given \cup stale)
               PROVE  disk[c] = text[c]
    BY DEF HotExitKeeps
  <2>1. c \in Copy /\ ~Early
    BY DEF Modified, Early
  <2>2. Kept(c)
    BY <2>1 DEF ExitInv, CopyInv
  <2> QED  BY <2>2 DEF Kept, Stored
<1> QED  BY <1>1, ExitInvariant, PTL

\* scheduleBackup and the early return of backup: a modified working copy that has
\* nothing pending and nothing queued has its last text in its backup file, unless an
\* operation of it failed, was dropped by a shutdown, or left an old backup behind.
THEOREM BackedUpTheorem ==
    ASSUME Interference = {}
    PROVE  Spec => []BackedUp
<1>1. BackupInv /\ ExitInv => BackedUp
  <2> SUFFICES ASSUME ExitInv, NEW c \in Modified \ (missed \cup stale),
                      shutdown.phase = "off", pending[c] = "none"
               PROVE  disk[c] = text[c]
    BY DEF BackedUp
  <2>1. c \in Copy /\ modified[c] /\ Early
    BY DEF Modified, Early
  <2>2. Versions(c)
    BY <2>1 DEF ExitInv, CopyInv
  <2> QED  BY <2>1, <2>2 DEF Versions, Stored
<1> QED  BY <1>1, ExitInvariant, PTL

-----------------------------------------------------------------------------
(* What is saved does not come back *)

\* Copies of which an end of the session may leave an old backup.
Excused == Modified \cup stale \cup given

\* Every other one has no backup of this session, or the tracker is about to discard
\* it, in all the phases of a shutdown.
FreshInv == session # "down" => \A c \in Copy \ Excused : Good(c)

\* Until the decision nothing is given up, and behind a discard of the shutdown there
\* is nothing.
LateInv ==
    /\ Early => given = {}
    /\ \A c \in Copy : \A i \in DOMAIN queue[c] :
          queue[c][i].owner = "shutdown" /\ queue[c][i].kind = "delete" => i = Len(queue[c])

SavedInv == FreshInv /\ LateInv

\* A step of one working copy.
LEMMA FreshOne ==
    ASSUME FreshInv, NEW c \in Copy, UNCHANGED <<session, given>>,
           session # "down" /\ c \notin Excused' => Good(c)',
           \A d \in Copy : d # c => /\ queue'[d] = queue[d] /\ disk'[d] = disk[d]
                                    /\ open'[d] = open[d] /\ modified'[d] = modified[d]
                                    /\ d \in stale => d \in stale'
                                    /\ d \in untouched => d \in untouched'
    PROVE  FreshInv'
<1>1. ASSUME session' # "down", NEW d \in Copy \ Excused' PROVE Good(d)'
  <2>1. CASE d = c
    BY <1>1, <2>1
  <2>2. CASE d # c
    <3>1. d \notin Excused
      BY <1>1, <2>2 DEF Excused, Modified
    <3>2. Good(d)
      BY <1>1, <3>1 DEF FreshInv
    <3> QED  BY <2>2, <3>2 DEF Good
  <2> QED  BY <2>1, <2>2
<1> QED  BY <1>1 DEF FreshInv

\* A step that brings no write and no backup, and drops no discard.
LEMMA FreshKeep ==
    ASSUME FreshInv,
           session' # "down" => session # "down" /\ \A c \in Copy \ Excused' :
              /\ c \notin Excused
              /\ disk'[c] >= 0 /\ c \notin untouched' => disk[c] >= 0 /\ c \notin untouched
              /\ HasKind(queue'[c], "write") => HasKind(queue[c], "write")
              /\ Has1(queue[c], "delete", "tracker") => Has1(queue'[c], "delete", "tracker")
    PROVE  FreshInv'
<1>1. ASSUME session' # "down", NEW c \in Copy \ Excused' PROVE Good(c)'
  <2>1. Good(c)
    BY <1>1 DEF FreshInv
  <2> QED  BY <1>1, <2>1 DEF Good
<1> QED  BY <1>1 DEF FreshInv

\* Behind a discard of the tracker no write is queued.
LEMMA BehindDiscard ==
    ASSUME NEW q \in Seq(Task), NEW p, q # <<>>, Fits(q, p), Has1(q, "delete", "tracker")
    PROVE  \/ Has1(Tail(q), "delete", "tracker")
           \/ q[1].kind = "delete" /\ q[1].owner = "tracker" /\ ~HasKind(Tail(q), "write")
<1>1. PICK i \in DOMAIN q : q[i].kind = "delete" /\ q[i].owner = "tracker"
  BY DEF Has1
<1>2. CASE i # 1
  <2>1. i - 1 \in DOMAIN Tail(q) /\ Tail(q)[i - 1] = q[i]
    BY <1>2, TailIs
  <2> QED  BY <1>1, <2>1 DEF Has1
<1>3. CASE i = 1
  <2>1. \A j \in DOMAIN Tail(q) : j + 1 \in DOMAIN q /\ 1 < j + 1 /\ Tail(q)[j] = q[j + 1]
    BY TailIs
  <2>2. \A j \in DOMAIN Tail(q) : Tail(q)[j].kind = "read"
    BY <1>1, <1>3, <2>1 DEF Fits
  <2>3. "read" # "write"
    OBVIOUS
  <2> QED  BY <1>1, <1>3, <2>2, <2>3 DEF HasKind
<1> QED  BY <1>2, <1>3

\* The discard of a stale copy that somebody waited for has ended.
LEMMA StaleEnds ==
    ASSUME BackupInv, ExitInv, LateInv, NEW c \in Copy, queue[c] # <<>>, session # "down",
           queue[c][1].kind = "delete", queue[c][1].begun,
           queue[c][1].owner \in {"tracker", "shutdown"}
    PROVE  disk[c] = Missing /\ ~HasKind(Tail(queue[c]), "write")
<1> DEFINE q == queue[c]
<1>1. /\ q \in Seq(Task) /\ Fits(q, pending[c]) /\ 1 \in DOMAIN q
      /\ Types /\ QueueInv /\ SessionInv /\ StepInv
  <2>1. Types /\ QueueInv /\ SessionInv /\ StepInv
    BY DEF BackupInv
  <2>2. q \in Seq(Task)
    BY <2>1 DEF Types
  <2> QED  BY <2>1, <2>2, TailIs DEF QueueInv
<1>2. session \in {"resolved", "ready"}
  <2>1. session # "starting"
    BY <1>1 DEF SessionInv
  <2> QED  BY <1>1, <2>1 DEF Types
<1>3. CASE q[1].owner = "tracker"
  <2>1. pending[c] = "discard"
    BY <1>1, <1>3 DEF Fits
  <2>2. shutdown.phase = "off"
    BY <2>1 DEF ExitInv, CopyInv, Quiet
  <2>3. disk[c] = Missing
    BY <1>1, <1>2, <2>2 DEF StepInv, Begun
  <2>4. \A j \in DOMAIN Tail(q) : j + 1 \in DOMAIN q /\ 1 < j + 1 /\ Tail(q)[j] = q[j + 1]
    BY <1>1, TailIs
  <2>5. \A j \in DOMAIN Tail(q) : Tail(q)[j].kind = "read"
    BY <1>1, <1>3, <2>4 DEF Fits
  <2>6. "read" # "write"
    OBVIOUS
  <2> QED  BY <2>3, <2>5, <2>6 DEF HasKind
<1>4. CASE q[1].owner = "shutdown"
  <2>1. shutdown.phase = "discarding"
    BY <1>1, <1>4 DEF QueueInv, Has1
  <2>2. disk[c] = Missing
    BY <1>1, <1>2, <2>1 DEF StepInv, Begun
  <2>3. Len(q) = 1
    BY <1>1, <1>4 DEF LateInv
  <2>4. Tail(q) \in Seq(Task) /\ Len(Tail(q)) = 0
    BY <1>1, <2>3, TailIs
  <2> QED  BY <2>2, <2>4 DEF HasKind
<1> QED  BY <1>3, <1>4

\* The head of a queue has ended.
LEMMA FreshEnds ==
    ASSUME BackupInv, ExitInv, SavedInv, NEW c \in Copy, NEW ok \in BOOLEAN, session # "down",
           queue[c] # <<>>, Ends(c, ok), UNCHANGED <<open, modified, untouched, session, given>>,
           queue[c][1].kind = "write" \/ (queue[c][1].kind = "delete" /\ UNCHANGED disk),
           ok => queue[c][1].kind = "write" \/ queue[c][1].begun,
           \A d \in Copy : d # c => disk'[d] = disk[d]
    PROVE  FreshInv'
<1> DEFINE q == queue[c]
           t == q[1]
<1>1. /\ Types /\ QueueInv
      /\ q \in Seq(Task) /\ t \in Task /\ Fits(q, pending[c]) /\ 1 \in DOMAIN q
  <2>1. Types /\ QueueInv
    BY DEF BackupInv
  <2>2. q \in Seq(Task)
    BY <2>1 DEF Types
  <2> QED  BY <2>1, <2>2, TailIs DEF QueueInv
<1>2. /\ queue' = [queue EXCEPT ![c] = Tail(q)] /\ queue \in [Copy -> Seq(Task)]
      /\ stale' = IF ~ok /\ t.kind = "delete" THEN stale \cup {c}
                  ELSE IF ok /\ t.begun /\ t.owner # "nobody" THEN stale \ {c}
                  ELSE stale
  BY <1>1, EndsIs DEF Only, Types
<1>3. queue'[c] = Tail(q) /\ \A d \in Copy : d # c => queue'[d] = queue[d]
  BY <1>2
<1>4. \A d : d \in Modified' <=> d \in Modified
  BY DEF Modified
<1>5. ASSUME c \notin Excused' PROVE Good(c)'
  <2>1. c \notin Modified /\ c \notin given /\ c \notin stale' /\ (t.kind = "delete" => ok)
    BY <1>2, <1>4, <1>5 DEF Excused
  <2>2. t.kind = "write" \/ (t.kind = "delete" /\ t.begun /\ UNCHANGED disk)
    BY <2>1
  <2>3. CASE c \in stale
    <3>1. ok /\ t.begun /\ t.owner # "nobody"
      BY <1>2, <2>1, <2>3
    <3>2. t.owner \in {"tracker", "shutdown"}
      <4>1. t.kind # "read" /\ (t.kind = "read" <=> t.owner = "copy")
        BY <1>1, <2>2 DEF Fits
      <4> QED  BY <1>1, <3>1, <4>1 DEF Task
    <3>3. t.kind # "write"
      BY <1>1, <2>1, <3>2 DEF ExitInv, CopyInv, Owned
    <3>4. disk[c] = Missing /\ ~HasKind(Tail(q), "write")
      BY <2>2, <3>1, <3>2, <3>3, StaleEnds DEF SavedInv
    <3> QED  BY <1>3, <2>2, <3>3, <3>4 DEF Good, Missing
  <2>4. CASE c \notin stale
    <3>1. Good(c)
      BY <2>1, <2>4 DEF SavedInv, FreshInv, Excused
    <3>2. HasKind(Tail(q), "write") => HasKind(q, "write")
      BY <1>1, KindsTail
    <3>3. CASE Has1(q, "delete", "tracker")
      <4>1. CASE Has1(Tail(q), "delete", "tracker")
        BY <1>3, <4>1 DEF Good
      <4>2. CASE t.kind = "delete" /\ t.owner = "tracker" /\ ~HasKind(Tail(q), "write")
        <5>1. disk[c] = Missing
          BY <2>2, <4>2, StaleEnds DEF SavedInv
        <5> QED  BY <1>3, <2>2, <4>2, <5>1 DEF Good, Missing
      <4> QED  BY <1>1, <3>3, <4>1, <4>2, BehindDiscard
    <3>4. CASE ~Has1(q, "delete", "tracker")
      <4>1. ~HasKind(q, "write") /\ ~(disk[c] >= 0 /\ c \notin untouched)
        BY <3>1, <3>4 DEF Good
      <4>2. t.kind # "write"
        BY <1>1, <4>1 DEF HasKind
      <4> QED  BY <1>3, <2>2, <3>2, <4>1, <4>2 DEF Good
    <3> QED  BY <3>3, <3>4
  <2> QED  BY <2>3, <2>4
<1>6. \A d \in Copy : d # c => (d \in stale => d \in stale')
  BY <1>2
<1> QED  BY <1>3, <1>5, <1>6, FreshOne DEF SavedInv

\* An operation of the service goes on, ends or fails.
LEMMA FreshOperation ==
    ASSUME BackupInv, ExitInv, SavedInv, NEW c \in Copy, Operation(c)
    PROVE  FreshInv'
<1> USE DEF copyVars, trackerVars, diskVars
<1>0. /\ Types /\ QueueInv /\ SessionInv /\ queue[c] \in Seq(Task)
      /\ disk \in [Copy -> Empty..MaxText]
  BY DEF BackupInv, Types
<1>1. queue[c] # <<>> /\ Head(queue[c]) = queue[c][1]
  <2>1. queue[c] # <<>>
    BY DEF Operation, SkipWrite, StartWrite, EndWrite, StartDelete, EndDelete, OperationFails,
           Running
  <2> QED  BY <1>0, <2>1, TailIs
<1>u. session # "down"
  BY <1>0, Up
<1>b. ASSUME Begin(c), UNCHANGED <<open, modified, stale, untouched, session, given>>,
             disk'[c] < 0, disk'[c] \in Int, \A d \in Copy : d # c => disk'[d] = disk[d]
      PROVE  FreshInv'
  <2> DEFINE q == [queue[c] EXCEPT ![1].begun = TRUE]
  <2>1. queue'[c] = q /\ \A d \in Copy : d # c => queue'[d] = queue[d]
    BY <1>0, <1>1, <1>b, BegunIs
  <2>2. DOMAIN q = DOMAIN queue[c] /\ \A i \in DOMAIN q : /\ q[i].kind = queue[c][i].kind
                                                          /\ q[i].owner = queue[c][i].owner
    BY <1>0, <1>1, BeginIs
  <2> HIDE DEF q
  <2>3. \A kind, o : /\ HasKind(q, kind) <=> HasKind(queue[c], kind)
                     /\ Has1(q, kind, o) <=> Has1(queue[c], kind, o)
    BY <2>2 DEF HasKind, Has1
  <2>4. ASSUME c \notin Excused' PROVE Good(c)'
    <3>1. c \notin Excused
      BY <1>b, <2>4 DEF Excused, Modified
    <3>2. HasKind(queue[c], "write") => Has1(queue[c], "delete", "tracker")
      BY <1>u, <3>1 DEF SavedInv, FreshInv, Good
    <3> QED  BY <1>b, <2>1, <2>3, <3>2 DEF Good
  <2> QED  BY <1>b, <2>1, <2>4, FreshOne DEF SavedInv
<1>2. CASE SkipWrite(c)
  BY <1>u, <1>1, <1>2, FreshEnds DEF SkipWrite, Running
<1>3. CASE StartWrite(c)
  <2>1. /\ Begin(c) /\ UNCHANGED <<open, modified, stale, untouched, session, given>>
        /\ disk'[c] = Empty /\ \A d \in Copy : d # c => disk'[d] = disk[d]
    BY <1>0, <1>3 DEF StartWrite
  <2> QED  BY <1>b, <2>1 DEF Empty
<1>4. CASE EndWrite(c)
  <2>1. /\ queue[c][1].kind = "write" /\ Ends(c, TRUE)
        /\ UNCHANGED <<open, modified, untouched, session, given>>
        /\ \A d \in Copy : d # c => disk'[d] = disk[d]
    BY <1>0, <1>1, <1>4 DEF EndWrite, Running
  <2> QED  BY <1>u, <1>1, <2>1, FreshEnds
<1>5. CASE StartDelete(c)
  <2>1. /\ Begin(c) /\ UNCHANGED <<open, modified, stale, untouched, session, given>>
        /\ disk'[c] = Missing /\ \A d \in Copy : d # c => disk'[d] = disk[d]
    BY <1>0, <1>5 DEF StartDelete
  <2> QED  BY <1>b, <2>1 DEF Missing
<1>6. CASE EndDelete(c)
  <2>1. /\ queue[c][1].kind = "delete" /\ queue[c][1].begun /\ Ends(c, TRUE)
        /\ UNCHANGED <<disk, open, modified, untouched, session, given>>
    BY <1>1, <1>6 DEF EndDelete, Running
  <2> QED  BY <1>u, <1>1, <2>1, FreshEnds
<1>7. CASE OperationFails(c)
  <2>1. /\ Ends(c, FALSE) /\ UNCHANGED <<disk, open, modified, untouched, session, given>>
        /\ queue[c][1].kind \in {"write", "delete"}
    BY <1>1, <1>7 DEF OperationFails, Running
  <2> QED  BY <1>u, <1>1, <2>1, FreshEnds
<1> QED  BY <1>2, <1>3, <1>4, <1>5, <1>6, <1>7 DEF Operation

\* After an event of a working copy it is modified, or its backup is about to be
\* discarded, or it will not be.
LEMMA FreshEvent ==
    ASSUME BackupInv, FreshInv, NEW c \in Copy,
           UNCHANGED <<session, disk, untouched, given>>,
           \A d \in Copy : d # c => open'[d] = open[d] /\ modified'[d] = modified[d],
           \/ Ignored(c) /\ c \in Modified' \cup stale'
           \/ ScheduleBackup(c) /\ c \in Modified'
           \/ DiscardBackup(c),
           stale \subseteq stale'
    PROVE  FreshInv'
<1>0. Types /\ QueueInv /\ queue \in [Copy -> Seq(Task)]
  BY DEF BackupInv, Types
<1>1. \A d \in Copy : d # c => queue'[d] = queue[d]
  BY <1>0 DEF Ignored, ScheduleBackup, DiscardBackup
<1>2. ASSUME DiscardBackup(c) PROVE Has1(queue'[c], "delete", "tracker")
  <2> DEFINE q == Cancel(queue[c], "tracker")
             t == NewTask("delete", "tracker", c)
  <2>1. q \in Seq(Task) /\ t \in Task /\ t.kind = "delete" /\ t.owner = "tracker"
    BY <1>0, CancelledIs, NewTaskIs
  <2>2. queue'[c] = Append(q, t)
    BY <1>0, <1>2 DEF DiscardBackup
  <2> HIDE DEF q, t
  <2> QED  BY <2>1, <2>2, KindsAppend
<1> QED  BY <1>1, <1>2, FreshOne DEF Good, Excused

LEMMA FreshCopy ==
    ASSUME BackupInv, ExitInv, Interference = {}, SavedInv, NEW c \in Copy,
           BackupTimer(c) \/ WorkingCopy(c)
    PROVE  FreshInv'
<1> USE DEF diskVars, copyVars
<1>0. /\ Types /\ QueueInv /\ SessionInv /\ StepInv
      /\ queue \in [Copy -> Seq(Task)] /\ queue[c] \in Seq(Task)
      /\ modified[c] => open[c] = "open"
      /\ open \in [Copy -> {"closed", "opening", "open"}] /\ modified \in [Copy -> BOOLEAN]
  BY DEF BackupInv, Types, QueueInv
<1>u. session \in {"resolved", "ready"}
  <2>1. session \notin {"down", "starting"}
    BY <1>0, Up
  <2> QED  BY <1>0, <2>1 DEF Types
<1>1. CASE BackupTimer(c)
  <2>1. \A d \in Copy : d # c => queue'[d] = queue[d]
    BY <1>0, <1>1 DEF BackupTimer
  <2>2. /\ \A d : d \in Modified' <=> d \in Modified
        /\ UNCHANGED <<stale, given, disk, untouched, session, open, modified>>
    BY <1>1 DEF BackupTimer, Modified
  <2>3. ASSUME c \notin Excused' PROVE Good(c)'
    <3>1. c \notin Excused
      BY <2>2, <2>3 DEF Excused
    <3>2. UNCHANGED queue
      BY <1>0, <1>1, <3>1 DEF BackupTimer, Excused, Modified
    <3> QED  BY <1>u, <2>2, <3>1, <3>2 DEF SavedInv, FreshInv, Good
  <2> QED  BY <2>1, <2>2, <2>3, FreshOne DEF SavedInv
<1>2. CASE Open(c)
  <2> DEFINE t == NewTask("read", "copy", c)
  <2>1. t \in Task /\ t.kind = "read" /\ t.owner = "copy"
    BY <1>0, NewTaskIs
  <2>2. queue' = [queue EXCEPT ![c] = Append(queue[c], t)]
    BY <1>2 DEF Open
  <2> HIDE DEF t
  <2>3. /\ HasKind(queue'[c], "write") <=> HasKind(queue[c], "write")
        /\ Has1(queue'[c], "delete", "tracker") <=> Has1(queue[c], "delete", "tracker")
    BY <1>0, <2>1, <2>2, KindsAppend
  <2>4. /\ \A d \in Copy : d # c => queue'[d] = queue[d] /\ open'[d] = open[d]
        /\ c \notin Modified
    BY <1>0, <1>2, <2>2 DEF Open, Modified
  <2>5. UNCHANGED <<disk, untouched, stale, given, modified, session>>
    BY <1>2 DEF Open, trackerVars
  <2>6. ASSUME c \notin Excused' PROVE Good(c)'
    <3>1. Good(c)
      BY <1>u, <2>4, <2>5, <2>6 DEF SavedInv, FreshInv, Excused
    <3> QED  BY <2>3, <2>5, <3>1 DEF Good
  <2> QED  BY <2>4, <2>5, <2>6, FreshOne DEF SavedInv
<1>3. CASE Resolve(c)
  <2> DEFINE restored == model[c] # Unknown /\ disk[c] >= 0
             rest == Tail(queue[c])
  <2>1. /\ queue[c] # <<>> /\ Head(queue[c]).kind = "read" /\ open'[c] = "open"
        /\ modified' = [modified EXCEPT ![c] = restored]
        /\ untouched' = untouched \ {c} /\ UNCHANGED <<disk, session, stale, given>>
    BY <1>0, <1>3 DEF Resolve, Running
  <2>2. /\ restored /\ ~suspended => queue' = [queue EXCEPT ![c] = Cancel(rest, "tracker")]
        /\ ~(restored /\ ~suspended) => queue' = [queue EXCEPT ![c] = rest]
    BY <1>3 DEF Resolve
  <2>3. \A d \in Copy : d # c => /\ queue'[d] = queue[d] /\ open'[d] = open[d]
                                 /\ modified'[d] = modified[d]
    BY <1>0, <1>3, <2>1, <2>2 DEF Resolve
  <2>4. open[c] = "opening" /\ c \notin Modified
    <3>1. HasKind(queue[c], "read")
      BY <1>0, <2>1, TailIs DEF HasKind
    <3> QED  BY <1>0, <3>1 DEF QueueInv, Modified
  <2>5. shutdown.phase = "off"
    BY <2>4 DEF ExitInv, CopyInv, Quiet
  <2>6. ASSUME c \notin Excused' PROVE Good(c)'
    <3>1. ~restored
      BY <1>0, <2>1, <2>6 DEF Excused, Modified
    <3>2. queue'[c] = rest
      BY <1>0, <2>2, <3>1
    <3>3. Good(c) /\ ~(disk'[c] >= 0)
      BY <1>0, <1>u, <2>1, <2>4, <2>5, <2>6, <3>1
         DEF SavedInv, FreshInv, Excused, Good, StepInv
    <3>4. HasKind(rest, "write") => HasKind(queue[c], "write")
      BY <1>0, <2>1, KindsTail
    <3>5. ASSUME Has1(queue[c], "delete", "tracker") PROVE Has1(rest, "delete", "tracker")
      <4>1. Fits(queue[c], pending[c]) /\ queue[c][1].kind = "read"
        BY <1>0, <2>1, TailIs DEF QueueInv
      <4> QED  BY <1>0, <2>1, <3>5, <4>1, BehindDiscard
    <3> QED  BY <3>2, <3>3, <3>4, <3>5 DEF Good
  <2> HIDE DEF restored, rest
  <2> QED  BY <2>1, <2>3, <2>6, FreshOne DEF SavedInv
<1>4. CASE Edit(c)
  <2>1. /\ UNCHANGED <<session, disk, untouched, open, stale, given>> /\ open[c] = "open"
        /\ modified' = [modified EXCEPT ![c] = TRUE]
        /\ IF suspended THEN Ignored(c) ELSE ScheduleBackup(c)
    BY <1>4 DEF Edit
  <2>2. c \in Modified'
    BY <1>0, <2>1 DEF Modified
  <2> QED  BY <1>0, <2>1, <2>2, FreshEvent DEF SavedInv
<1>5. CASE Save(c) \/ Revert(c)
  <2>1. /\ UNCHANGED <<session, disk, untouched, open, given>> /\ NoLongerDirty(c)
    BY <1>5 DEF Save, Revert
  <2>2. /\ modified' = [modified EXCEPT ![c] = FALSE]
        /\ IF suspended THEN Ignored(c) ELSE DiscardBackup(c)
        /\ stale' = IF suspended THEN stale \cup {c} ELSE stale
    BY <2>1 DEF NoLongerDirty
  <2> QED  BY <1>0, <2>1, <2>2, FreshEvent DEF SavedInv
<1>6. CASE Close(c)
  <2>1. /\ UNCHANGED <<session, disk, untouched, modified, given>>
        /\ open' = [open EXCEPT ![c] = "closed"]
        /\ IF suspended THEN Ignored(c) ELSE DiscardBackup(c)
        /\ stale' = IF suspended THEN stale \cup {c} ELSE stale
    BY <1>6 DEF Close
  <2> QED  BY <1>0, <2>1, FreshEvent DEF SavedInv
<1> QED  BY <1>1, <1>2, <1>3, <1>4, <1>5, <1>6 DEF WorkingCopy

LEMMA FreshSession ==
    ASSUME BackupInv, FreshInv
    PROVE  /\ ResolveModel => FreshInv'
           /\ ResolveBackupsToRestore => FreshInv'
           /\ \A c \in Copy : RestoreBackup(c) => FreshInv'
           /\ Down => FreshInv'
           /\ Start => FreshInv'
<1> USE DEF diskVars, copyVars, serviceVars, trackerVars
<1>1. ASSUME \/ ResolveModel
             \/ ResolveBackupsToRestore
             \/ \E c \in Copy : RestoreBackup(c)
      PROVE  FreshInv'
  <2>1. /\ UNCHANGED <<disk, open, modified, stale, given, untouched, queue>>
        /\ session # "down"
    BY <1>1 DEF ResolveModel, ResolveBackupsToRestore, RestoreBackup
  <2> QED  BY <2>1, FreshKeep DEF Excused, Modified
<1>2. ASSUME Down PROVE FreshInv'
  BY <1>2 DEF Down, FreshInv
<1>3. ASSUME Start PROVE FreshInv'
  <2>1. /\ \A c \in Copy : queue'[c] = <<>>
        /\ disk' = disk /\ untouched' = {c \in Copy : disk[c] >= 0}
    BY <1>3 DEF Start, BackupInv, SessionInv
  <2>2. \A c \in Copy : ~HasKind(queue'[c], "write") /\ ~(disk'[c] >= 0 /\ c \notin untouched')
    BY <2>1 DEF HasKind
  <2> QED  BY <2>2 DEF FreshInv, Good
<1> QED  BY <1>1, <1>2, <1>3

LEMMA FreshShutdown ==
    ASSUME BackupInv, ExitInv, SavedInv, Shutdown
    PROVE  FreshInv'
<1> USE DEF diskVars, copyVars, serviceVars, trackerVars, shutdownUnchanged
<1>c. /\ Types /\ QueueInv /\ SessionInv
      /\ shutdown.copies \in SUBSET Copy /\ Modified \in SUBSET Copy
      /\ queue \in [Copy -> Seq(Task)]
  BY DEF BackupInv, Types, ShutdownType, Modified
<1>d. session # "down"
  <2>1. session = "down" => shutdown.phase = "off"
    BY <1>c, NoShutdownIs DEF SessionInv
  <2> QED
    BY <2>1, NoShutdownIs
       DEF Shutdown, BeginShutdown, DiscardRest, DiscardHome, AutoSave, NoAutoSave, AutoSaveEnds,
           BackupEnds, ErrorDialog, ConfirmSave, SaveEnds, ConfirmDontSave, ConfirmCancel,
           ConfirmFails, DiscardEnds, WillShutdown, Exit
<1>o. ASSUME NEW c \in Copy, shutdown.phase # "off"
      PROVE  ~Has1(queue[c], "delete", "tracker")
  <2>1. pending[c] = "none"
    BY <1>o DEF ExitInv, CopyInv, Quiet
  <2> QED  BY <1>c, <2>1, Idle DEF Has1
<1>g. shutdown.phase \in {"off", "begun", "autosave", "backup", "error", "confirm", "saving"} =>
         Early /\ given = {}
  BY DEF Early, SavedInv, LateInv
\* A step that changes at most the queues and what is given up.
<1>k. ASSUME shutdown.phase # "off", UNCHANGED <<disk, open, modified, untouched, session, stale>>,
             given \subseteq given',
             \A c \in Copy \ Excused : HasKind(queue'[c], "write") => HasKind(queue[c], "write")
      PROVE  FreshInv'
  <2>1. \A c \in Copy \ Excused' : c \notin Excused
    BY <1>k DEF Excused, Modified
  <2> QED  BY <1>d, <1>k, <1>o, <2>1, FreshKeep DEF SavedInv
<1>n. ASSUME NEW C \in SUBSET Copy, NoVeto(C), NEW c \in Copy, HasKind(queue'[c], "write")
      PROVE  HasKind(queue[c], "write")
  <2> DEFINE t == NewTask("delete", "shutdown", c)
  <2>1. t \in Task /\ t.kind # "write"
    BY <1>c, NewTaskIs
  <2>2. queue'[c] = queue[c] \/ queue'[c] = Append(queue[c], t)
    BY <1>c, <1>n, NoVetoIs
  <2>3. queue[c] \in Seq(Task)
    BY <1>c
  <2> HIDE DEF t
  <2>4. HasKind(Append(queue[c], t), "write") => HasKind(queue[c], "write")
    BY <2>1, <2>3, KindsAppend
  <2> QED  BY <1>n, <2>2, <2>4
<1>h. ASSUME NEW C \in SUBSET Copy, HandleModified(C), C \subseteq Modified
      PROVE  \A c \in Copy \ Excused : queue'[c] = queue[c]
  <2>1. PICK toBackup \in {C, {}, C \cap Scratchpad} : BackUp(C, toBackup)
    BY <1>h DEF HandleModified
  <2> QED  BY <1>c, <1>h, <2>1, BackUpIs DEF Excused
<1>1. CASE BeginShutdown
  <2>1. /\ CancelBackupOperations /\ stale' = stale \cup {c \in Copy : pending[c] = "discard"}
        /\ UNCHANGED <<disk, session, open, modified, untouched, given>>
    BY <1>1 DEF BeginShutdown
  <2>2. ASSUME NEW c \in Copy \ Excused'
        PROVE  /\ c \notin Excused
               /\ HasKind(queue'[c], "write") => HasKind(queue[c], "write")
               /\ ~Has1(queue[c], "delete", "tracker")
    <3>1. c \notin Excused /\ pending[c] # "discard"
      BY <2>1, <2>2 DEF Excused, Modified
    <3>2. queue'[c] = Cancel(queue[c], "tracker") /\ OneOf(queue[c], "tracker")
      BY <1>c, <2>1, CancelAllIs DEF CancelBackupOperations
    <3>3. Fits(queue[c], pending[c])
      BY <1>c DEF QueueInv
    <3>4. ~Has1(queue[c], "delete", "tracker")
      BY <3>1, <3>3 DEF Fits, Has1
    <3> QED  BY <1>c, <3>1, <3>2, <3>4, KindsCancel
  <2> QED  BY <1>d, <2>1, <2>2, FreshKeep DEF SavedInv
<1>2. CASE DiscardRest
  <2>1. {c \in Copy : model[c] # Unknown} \ Except \in SUBSET Copy
    OBVIOUS
  <2> QED  BY <1>2, <1>k, <1>n, <2>1 DEF DiscardRest
<1>3. CASE DiscardHome
  <2>1. PICK kept \in SUBSET Copy :
           /\ UNCHANGED <<queue, session, open, modified, untouched, given>>
           /\ shutdown.phase # "off" /\ stale' = stale \cup kept
           /\ \A c \in Copy \ kept : disk'[c] = Missing
    BY <1>3 DEF DiscardHome
  <2>2. \A c \in Copy \ Excused' : c \notin Excused /\ ~(disk'[c] >= 0)
    BY <2>1 DEF Missing, Excused, Modified
  <2> QED  BY <1>d, <1>o, <2>1, <2>2, FreshKeep DEF SavedInv
<1>4. CASE AutoSave
  BY <1>4, <1>k DEF AutoSave
<1>5. CASE NoAutoSave
  <2>1. shutdown.copies \subseteq Modified
    BY <1>5 DEF NoAutoSave, ExitInv, PhaseInv
  <2> QED  BY <1>5, <1>c, <1>h, <1>k, <2>1 DEF NoAutoSave
<1>6. CASE AutoSaveEnds
  <2>1. CASE NoVeto(shutdown.copies)
    BY <1>6, <1>c, <1>k, <1>n, <2>1 DEF AutoSaveEnds
  <2>2. CASE HandleModified(Modified)
    BY <1>6, <1>c, <1>h, <1>k, <2>2 DEF AutoSaveEnds
  <2> QED  BY <1>6, <2>1, <2>2 DEF AutoSaveEnds
<1>7. CASE BackupEnds
  <2>1. \A c \in Copy : HasKind(queue'[c], "write") => HasKind(queue[c], "write")
    <3>1. queue' = [c \in Copy |-> Cancel(queue[c], "shutdown")]
      BY <1>7 DEF BackupEnds
    <3> QED  BY <1>c, <3>1, CancelAllIs, KindsCancel
  <2> QED  BY <1>7, <1>k, <2>1 DEF BackupEnds
<1>8. CASE ErrorDialog
  BY <1>8, <1>g, <1>k DEF ErrorDialog, Veto
<1>9. CASE ConfirmSave
  BY <1>9, <1>k DEF ConfirmSave
<1>10. CASE SaveEnds
  <2>1. CASE Veto /\ UNCHANGED queue
    BY <1>10, <1>g, <1>k, <2>1 DEF SaveEnds, Veto
  <2>2. CASE NoVeto(shutdown.copies) /\ UNCHANGED given
    BY <1>10, <1>c, <1>k, <1>n, <2>2 DEF SaveEnds
  <2> QED  BY <1>10, <2>1, <2>2 DEF SaveEnds
<1>11. CASE ConfirmDontSave
  <2>1. PICK reverted \in SUBSET shutdown.copies :
           modified' = [c \in Copy |-> modified[c] /\ c \notin reverted]
    BY <1>11 DEF ConfirmDontSave
  <2>2. /\ given' = shutdown.copies /\ given = {} /\ NoVeto(shutdown.copies)
        /\ UNCHANGED <<disk, open, untouched, session, stale>> /\ shutdown.phase # "off"
    BY <1>11, <1>g DEF ConfirmDontSave
  <2>3. ASSUME NEW c \in Copy \ Excused' PROVE c \notin Excused
    <3>1. c \notin reverted
      BY <2>1, <2>2, <2>3 DEF Excused
    <3> QED  BY <2>1, <2>2, <2>3, <3>1 DEF Excused, Modified
  <2> QED  BY <1>c, <1>d, <1>n, <1>o, <2>2, <2>3, FreshKeep DEF SavedInv
<1>12. CASE ConfirmCancel
  BY <1>12, <1>g, <1>k DEF ConfirmCancel, Veto
<1>13. CASE DiscardEnds
  <2>1. ASSUME NEW c \in Copy, HasKind(queue'[c], "write") PROVE HasKind(queue[c], "write")
    <3>1. queue[c] \in Seq(Task) /\ queue'[c] = Disowned(queue[c])
      BY <1>13, <1>c, DisownAllIs
    <3>2. /\ DOMAIN Disowned(queue[c]) = DOMAIN queue[c]
          /\ \A i \in DOMAIN queue[c] : Disowned(queue[c])[i].kind = queue[c][i].kind
      BY <3>1, DisownedIs
    <3> QED  BY <2>1, <3>1, <3>2 DEF HasKind
  <2> QED  BY <1>13, <1>k, <2>1 DEF DiscardEnds
<1>14. CASE WillShutdown
  <2>1. \A c \in Copy : HasKind(queue'[c], "write") => HasKind(queue[c], "write")
    BY <1>14, <1>c, CancelAllIs, KindsCancel DEF WillShutdown, CancelBackupOperations
  <2> QED  BY <1>14, <1>k, <2>1 DEF WillShutdown
<1>15. CASE Exit
  BY <1>15, FreshSession DEF Exit, SavedInv
<1>16. CASE ConfirmFails
  BY <1>16, <1>c, <1>k, ConfirmFailsIs
<1> QED
  BY <1>1, <1>2, <1>3, <1>4, <1>5, <1>6, <1>7, <1>8, <1>9, <1>10, <1>11, <1>12, <1>13, <1>14,
     <1>15, <1>16 DEF Shutdown

LEMMA FreshStep ==
    ASSUME BackupInv, ExitInv, SavedInv, Interference = {}, [Next]_vars
    PROVE  FreshInv'
<1>1. CASE UNCHANGED vars
  BY <1>1, FreshKeep
     DEF SavedInv, Excused, Modified, vars, diskVars, copyVars, serviceVars
<1>2. CASE Next
  BY <1>2, FreshCopy, FreshOperation, FreshSession, FreshShutdown DEF Next, Crash, SavedInv
<1> QED  BY <1>1, <1>2

\* What the decision of a shutdown leaves: nothing is given up before it, and its
\* discards are the last operations.
LEMMA GivenStep ==
    ASSUME BackupInv, LateInv, [Next]_vars
    PROVE  Early' => given' = {}
<1> USE DEF shutdownUnchanged
<1>c. Types
  BY DEF BackupInv
<1>1. CASE UNCHANGED vars
  BY <1>1 DEF vars, Early, LateInv
<1>2. CASE UNCHANGED given /\ shutdown'.phase = shutdown.phase
  BY <1>2 DEF Early, LateInv
<1>3. CASE UNCHANGED given /\ Early
  BY <1>3 DEF LateInv
<1>4. CASE given' = {}
  BY <1>4
<1>5. CASE ~Early'
  BY <1>5
<1>n. ASSUME NEW C \in SUBSET Copy, NoVeto(C) PROVE ~Early'
  BY <1>c, <1>n, NoVetoIs DEF Early
<1>6. ASSUME NEW c \in Copy, BackupTimer(c) \/ WorkingCopy(c) \/ RestoreBackup(c)
      PROVE  Early' => given' = {}
  <2>1. UNCHANGED <<given, shutdown>>
    BY <1>6 DEF BackupTimer, WorkingCopy, Open, Resolve, Edit, Save, Revert, Close, RestoreBackup
  <2> QED  BY <1>2, <2>1
<1>7. ASSUME NEW c \in Copy, Operation(c) PROVE Early' => given' = {}
  <2>1. /\ UNCHANGED given
        /\ \/ UNCHANGED shutdown
           \/ \E ok \in BOOLEAN : Ends(c, ok)
    BY <1>7
       DEF Operation, SkipWrite, StartWrite, EndWrite, StartDelete, EndDelete, OperationFails
  <2>2. queue[c] # <<>> /\ QueueInv /\ SessionInv
    BY <1>7
       DEF Operation, SkipWrite, StartWrite, EndWrite, StartDelete, EndDelete, OperationFails,
           Running, BackupInv
  <2> QED  BY <1>2, <1>c, <2>1, <2>2, SessionEnds
<1>8. CASE ResolveModel \/ ResolveBackupsToRestore \/ Start
  BY <1>2, <1>8 DEF ResolveModel, ResolveBackupsToRestore, Start
<1>9. CASE Crash \/ Exit
  BY <1>4, <1>9 DEF Crash, Exit, Down
<1>10. CASE BeginShutdown \/ AutoSave \/ NoAutoSave \/ ConfirmSave
  BY <1>3, <1>10 DEF BeginShutdown, AutoSave, NoAutoSave, ConfirmSave, Early
<1>11. CASE AutoSaveEnds \/ BackupEnds
  BY <1>3, <1>11 DEF AutoSaveEnds, BackupEnds, Early
<1>12. CASE DiscardRest \/ DiscardHome
  BY <1>3, <1>12 DEF DiscardRest, DiscardHome, Early
<1>13. CASE ErrorDialog
  <2>1. Acknowledge => ~Early'
    BY <1>c, EnteredIs DEF Acknowledge, Enters, Early, Phase
  <2> QED  BY <1>4, <1>13, <2>1 DEF ErrorDialog, Veto
<1>14. CASE SaveEnds
  BY <1>3, <1>14, <1>4 DEF SaveEnds, Veto, Early
<1>15. CASE ConfirmDontSave
  <2>1. shutdown.copies \in SUBSET Copy /\ NoVeto(shutdown.copies)
    BY <1>15, <1>c DEF ConfirmDontSave, Types, ShutdownType
  <2> QED  BY <1>n, <2>1
<1>16. CASE ConfirmCancel
  BY <1>4, <1>16 DEF ConfirmCancel, Veto
<1>18. CASE ConfirmFails
  BY <1>3, <1>18 DEF ConfirmFails, Early
<1>17. CASE DiscardEnds \/ WillShutdown
  <2>1. ~Early'
    BY <1>17, <1>c, EnteredIs DEF DiscardEnds, WillShutdown, Acknowledge, Enters, Early, Phase
  <2> QED  BY <2>1
<1> QED
  BY <1>1, <1>6, <1>7, <1>8, <1>9, <1>10, <1>11, <1>12, <1>13, <1>14, <1>15, <1>16, <1>17,
     <1>18 DEF Next, Shutdown

Lasts(q) ==
    \A i \in DOMAIN q : q[i].owner = "shutdown" /\ q[i].kind = "delete" => i = Len(q)

LEMMA LastsStep ==
    ASSUME BackupInv, BackupInv', ExitInv, LateInv, Interference = {}, [Next]_vars, NEW c \in Copy
    PROVE  Lasts(queue'[c])
<1> USE DEF shutdownUnchanged, diskVars, copyVars, serviceVars, trackerVars
<1>c. /\ Types /\ QueueInv /\ SessionInv /\ queue \in [Copy -> Seq(Task)]
      /\ queue[c] \in Seq(Task) /\ shutdown.copies \in SUBSET Copy /\ Modified \in SUBSET Copy
  BY DEF BackupInv, Types, ShutdownType, Modified
<1>l. Lasts(queue[c])
  BY DEF LateInv, Lasts
<1>1. CASE shutdown'.phase # "discarding"
  BY <1>1 DEF BackupInv, QueueInv, Has1, Lasts
<1>2. CASE queue'[c] = queue[c]
  BY <1>2, <1>l
<1>n. ASSUME NEW C \in SUBSET Copy, NoVeto(C), shutdown.phase \notin {"discarding"}
      PROVE  Lasts(queue'[c])
  <2> DEFINE t == NewTask("delete", "shutdown", c)
  <2>1. t \in Task
    BY <1>c, NewTaskIs
  <2>2. queue'[c] = queue[c] \/ queue'[c] = Append(queue[c], t)
    BY <1>c, <1>n, NoVetoIs
  <2>3. \A i \in DOMAIN queue[c] : ~(queue[c][i].owner = "shutdown" /\ queue[c][i].kind = "delete")
    BY <1>c, <1>n DEF QueueInv, Has1
  <2> HIDE DEF t
  <2>4. Lasts(Append(queue[c], t))
    BY <1>c, <2>1, <2>3, AppendIs DEF Lasts
  <2> QED  BY <1>2, <2>2, <2>4
<1>3. ASSUME NEW d \in Copy, Operation(d) PROVE Lasts(queue'[c])
  <2>1. CASE d # c
    <3>1. \/ queue' = [queue EXCEPT ![d] = Tail(@)]
          \/ Begin(d)
      BY <1>3
         DEF Operation, SkipWrite, StartWrite, EndWrite, StartDelete, EndDelete, OperationFails, Ends
    <3>2. queue'[c] = queue[c]
      BY <1>c, <2>1, <3>1 DEF Begin
    <3> QED  BY <1>2, <3>2
  <2>2. CASE d = c
    <3>1. queue[c] # <<>>
      BY <1>3, <2>2
         DEF Operation, SkipWrite, StartWrite, EndWrite, StartDelete, EndDelete, OperationFails,
             Running
    <3>2. \/ queue' = [queue EXCEPT ![c] = Tail(@)]
          \/ Begin(c)
      BY <1>3, <2>2
         DEF Operation, SkipWrite, StartWrite, EndWrite, StartDelete, EndDelete, OperationFails, Ends
    <3>3. Lasts(Tail(queue[c]))
      BY <1>c, <1>l, <3>1, TailIs DEF Lasts
    <3>4. Lasts([queue[c] EXCEPT ![1].begun = TRUE])
      BY <1>c, <1>l, <3>1, BeginIs DEF Lasts
    <3>5. queue'[c] = Tail(queue[c]) \/ queue'[c] = [queue[c] EXCEPT ![1].begun = TRUE]
      BY <1>c, <3>1, <3>2, BegunIs
    <3> QED  BY <3>3, <3>4, <3>5
  <2> QED  BY <2>1, <2>2
<1>4. CASE shutdown'.phase = "discarding" /\ shutdown.phase = "discarding"
  <2>1. ~Free /\ shutdown.saving \cap Modified = {}
    BY <1>4 DEF Free, ExitInv, PhaseInv, Early
  <2>2. \A d \in Copy : pending[d] = "none" /\ open[d] # "opening"
    BY <1>4 DEF ExitInv, CopyInv, Quiet
  <2>3. ASSUME NEW d \in Copy PROVE ~BackupTimer(d) /\ ~WorkingCopy(d)
    <3>1. ~Resolve(d)
      <4>1. Resolve(d) => HasKind(queue[d], "read")
        <5>1. queue[d] \in Seq(Task)
          BY <1>c
        <5> QED  BY <5>1, TailIs DEF Resolve, Running, HasKind
      <4> QED  BY <1>c, <2>2, <4>1 DEF QueueInv
    <3>2. ~Open(d) /\ ~Edit(d) /\ ~Save(d) /\ ~Revert(d) /\ ~Close(d)
      BY <2>1 DEF Open, Edit, Save, Revert, Close
    <3>3. ~BackupTimer(d)
      BY <2>2 DEF BackupTimer
    <3> QED  BY <3>1, <3>2, <3>3 DEF WorkingCopy
  <2>4. ASSUME Shutdown PROVE shutdown'.phase # "discarding"
    <3>1. DiscardEnds \/ Exit
      BY <1>4, <2>4
         DEF Shutdown, BeginShutdown, DiscardRest, DiscardHome, AutoSave, NoAutoSave, AutoSaveEnds,
             BackupEnds, ErrorDialog, ConfirmSave, SaveEnds, ConfirmDontSave, ConfirmCancel,
             ConfirmFails, WillShutdown
    <3> QED
      BY <1>c, <3>1, EnteredIs, NoShutdownIs DEF DiscardEnds, Acknowledge, Enters, Exit, Down, Phase
  <2>5. CASE \E d \in Copy : RestoreBackup(d)
    BY <1>2, <2>5 DEF RestoreBackup
  <2>6. CASE ResolveModel \/ ResolveBackupsToRestore \/ Start
    BY <1>2, <2>6 DEF ResolveModel, ResolveBackupsToRestore, Start
  <2>7. CASE Crash
    BY <1>1, <2>7, NoShutdownIs DEF Crash, Down
  <2>8. CASE UNCHANGED vars
    BY <1>2, <2>8 DEF vars
  <2> QED  BY <1>3, <1>4, <2>3, <2>4, <2>5, <2>6, <2>7, <2>8 DEF Next
<1>5. CASE shutdown'.phase = "discarding" /\ shutdown.phase # "discarding"
  <2>1. ASSUME Shutdown PROVE Lasts(queue'[c])
    <3>1. CASE \E C \in SUBSET Copy : NoVeto(C)
      BY <1>5, <1>n, <3>1
    <3>2. CASE ~\E C \in SUBSET Copy : NoVeto(C)
      <4>1. {d \in Copy : model[d] # Unknown} \ Except \in SUBSET Copy
        OBVIOUS
      <4>2. ~DiscardRest /\ ~ConfirmDontSave
        BY <1>c, <3>2, <4>1 DEF DiscardRest, ConfirmDontSave
      <4>3. shutdown \in ShutdownType
        BY <1>c DEF Types
      <4>a. ASSUME Acknowledge PROVE shutdown'.phase # "discarding"
        BY <4>3, <4>a DEF Acknowledge, Enters, ShutdownType
      <4>v. ASSUME Veto \/ Down PROVE shutdown'.phase # "discarding"
        BY <4>v, NoShutdownIs DEF Veto, Down
      <4>b. ASSUME NEW C \in SUBSET Copy, HandleModified(C) PROVE shutdown'.phase # "discarding"
        <5>1. PICK toBackup \in SUBSET Copy : BackUp(C, toBackup)
          BY <4>b DEF HandleModified
        <5> QED  BY <1>c, <5>1, BackUpIs
      <4> SUFFICES shutdown'.phase # "discarding"
        BY <1>5
      <4>4. CASE BeginShutdown
        BY <4>4 DEF BeginShutdown, NoShutdown
      <4>5. CASE AutoSave
        BY <4>3, <4>5 DEF AutoSave, ShutdownType
      <4>6. CASE NoAutoSave
        BY <1>c, <4>b, <4>6 DEF NoAutoSave
      <4>7. CASE AutoSaveEnds
        BY <1>c, <3>2, <4>b, <4>7 DEF AutoSaveEnds
      <4>8. CASE BackupEnds
        <5>1. CASE shutdown' = [shutdown EXCEPT
                                   !.phase = IF BackupError THEN "error" ELSE "confirm",
                                   !.copies = @ \ shutdown.backups]
          BY <4>3, <5>1 DEF ShutdownType
        <5> QED  BY <4>8, <4>a, <5>1 DEF BackupEnds
      <4>9. CASE ConfirmSave
        BY <4>3, <4>9 DEF ConfirmSave, ShutdownType
      <4>10. CASE SaveEnds
        BY <1>c, <3>2, <4>v, <4>10 DEF SaveEnds
      <4>11. CASE WillShutdown
        BY <4>3, <4>11 DEF WillShutdown, Enters, ShutdownType
      <4>12. CASE DiscardHome \/ ErrorDialog \/ ConfirmCancel \/ DiscardEnds \/ Exit
        BY <4>a, <4>v, <4>12 DEF DiscardHome, ErrorDialog, ConfirmCancel, DiscardEnds, Exit
      <4>13. CASE ConfirmFails
        BY <1>c, <4>13, ConfirmFailsIs
      <4> QED
        BY <2>1, <4>2, <4>4, <4>5, <4>6, <4>7, <4>8, <4>9, <4>10, <4>11, <4>12, <4>13 DEF Shutdown
    <3> QED  BY <3>1, <3>2
  <2>2. ASSUME NEW d \in Copy, BackupTimer(d) \/ WorkingCopy(d) \/ RestoreBackup(d) PROVE FALSE
    BY <1>5, <2>2
       DEF BackupTimer, WorkingCopy, Open, Resolve, Edit, Save, Revert, Close, RestoreBackup
  <2>3. CASE ResolveModel \/ ResolveBackupsToRestore \/ Start \/ Crash
    BY <1>5, <2>3, NoShutdownIs DEF ResolveModel, ResolveBackupsToRestore, Start, Crash, Down
  <2>4. CASE UNCHANGED vars
    BY <1>2, <2>4 DEF vars
  <2> QED  BY <1>3, <2>1, <2>2, <2>3, <2>4 DEF Next
<1> QED  BY <1>1, <1>4, <1>5

LEMMA SavedStep ==
    ASSUME BackupInv, BackupInv', ExitInv, SavedInv, Interference = {}, [Next]_vars
    PROVE  SavedInv'
<1>1. \A c \in Copy : Lasts(queue'[c])
  BY LastsStep DEF SavedInv
<1> QED  BY <1>1, FreshStep, GivenStep DEF SavedInv, LateInv, Lasts

LEMMA SavedInit == Init => SavedInv
BY DEF Init, SavedInv, FreshInv, LateInv, Good, HasKind, Missing

\* Without interference no step of a session brings back a backup that was or will be
\* discarded: in every phase of every session, a copy that is not modified, was not
\* given up and lost no discard (NoLongerDirty and Close while the tracker is suspended,
\* BeginShutdown, deletes that fail) has no backup of this session, but for what the
\* tracker is about to delete, behind whatever write is still queued.
THEOREM SavedInvariant ==
    ASSUME Interference = {}
    PROVE  Spec => [](BackupInv /\ ExitInv /\ SavedInv)
<1>1. SavedInv /\ BackupInv /\ BackupInv' /\ ExitInv /\ [Next]_vars => SavedInv'
  BY SavedStep
<1>2. Init => SavedInv
  BY SavedInit
<1> QED  BY <1>1, <1>2, ExitInvariant, PTL DEF Spec

-----------------------------------------------------------------------------
(* From session to session *)

\* What a copy has in its backup, if that is complete.
OnDisk(c) == IF disk[c] >= 0 THEN {disk[c]} ELSE {}

\* What nobody has opened is there to be restored, and has no unsaved work.
LEMMA KeptIs ==
    ASSUME BackupInv, ~EmptyWindow, NEW c \in Copy, session # "down"
    PROVE  IF c \in untouched
           THEN KeptWork[c] = {disk[c]} /\ disk[c] >= 0 /\ UnsavedWork[c] = {} /\ c \notin Modified
           ELSE KeptWork[c] = {}
<1>1. c \in untouched => disk[c] >= 0 /\ open[c] # "open"
  BY DEF BackupInv, UntouchedInv
<1> QED
  BY <1>1 DEF KeptWork, UnsavedWork, Modified

\* The backup of a settled copy is its unsaved work.
LEMMA SettledIs ==
    ASSUME BackupInv, ExitInv, SavedInv, session # "down",
           NEW c \in Copy \ (untouched \cup Unsettled)
    PROVE  OnDisk(c) = UnsavedWork[c]
<1>1. c \notin stale \cup given
  BY DEF Unsettled
<1>2. text[c] \in 0..MaxText
  BY DEF BackupInv, Types
<1>3. CASE c \in Modified
  <2>1. CASE shutdown.phase = "off"
    <3>1. pending[c] = "none" /\ c \notin missed /\ Early /\ modified[c]
      BY <1>3, <2>1 DEF Unsettled, Early, Modified
    <3>2. disk[c] = text[c]
      BY <1>1, <3>1 DEF ExitInv, CopyInv, Versions, Stored
    <3> QED
      BY <1>2, <1>3, <3>2, BoundAssumption DEF OnDisk, UnsavedWork
  <2>2. CASE shutdown.phase # "off"
    <3>1. ~Early
      BY <1>3, <2>2 DEF Unsettled, Early
    <3>2. disk[c] = text[c]
      BY <1>1, <1>3, <3>1 DEF ExitInv, CopyInv, Kept, Stored
    <3> QED
      BY <1>2, <1>3, <3>2, BoundAssumption DEF OnDisk, UnsavedWork
  <2> QED
    BY <2>1, <2>2
<1>4. CASE c \notin Modified
  <2>1. Good(c)
    BY <1>1, <1>4 DEF SavedInv, FreshInv, Excused
  <2>2. ~Has1(queue[c], "delete", "tracker")
    <3>1. CASE shutdown.phase = "off"
      BY <3>1 DEF Unsettled, Has1
    <3>2. CASE shutdown.phase # "off"
      <4>1. pending[c] = "none"
        BY <3>2 DEF ExitInv, CopyInv, Quiet
      <4> QED
        BY <4>1, Idle DEF BackupInv, Has1
    <3> QED
      BY <3>1, <3>2
  <2>3. ~(disk[c] >= 0)
    BY <2>1, <2>2 DEF Good
  <2> QED
    BY <1>4, <2>3 DEF OnDisk, UnsavedWork
<1> QED
  BY <1>3, <1>4

LEMMA DownEnds ==
    ASSUME BackupInv, ExitInv, SavedInv, ~EmptyWindow, session # "down", Down
    PROVE  Unsaved!End
<1>1. /\ session' = "down" /\ disk' = disk /\ shutdown' = NoShutdown /\ stale' = {} /\ missed' = {}
      /\ given' = {}
      /\ \A c \in Copy : ~modified'[c] /\ queue'[c] = <<>> /\ pending'[c] = "none"
  BY DEF Down, diskVars
<1>2. UnsavedWork' = Unsaved!Nothing
  BY <1>1 DEF UnsavedWork, Modified, Unsaved!Nothing
<1>3. Unsettled' = {}
  BY <1>1, NoShutdownIs DEF Unsettled
<1>4. \A c \in Copy : KeptWork'[c] = OnDisk(c)
  BY <1>1 DEF KeptWork, OnDisk
<1>5. ASSUME NEW c \in Copy
      PROVE  /\ KeptWork[c] # {} => KeptWork'[c] = KeptWork[c]
             /\ KeptWork[c] = {} /\ c \notin Unsettled => KeptWork'[c] = UnsavedWork[c]
  <2>1. CASE c \in untouched
    <3>1. KeptWork[c] = {disk[c]} /\ disk[c] >= 0
      BY <2>1, KeptIs
    <3> QED
      BY <1>4, <3>1 DEF OnDisk
  <2>2. CASE c \notin untouched
    <3>1. KeptWork[c] = {}
      BY <2>2, KeptIs
    <3> QED
      BY <1>4, <2>2, <3>1, SettledIs
  <2> QED
    BY <2>1, <2>2
<1> QED
  BY <1>1, <1>2, <1>3, <1>5 DEF Unsaved!End

LEMMA StartIs ==
    ASSUME Start
    PROVE  Unsaved!Start
<1>1. /\ session = "down" /\ session' = "starting" /\ untouched' = {c \in Copy : disk[c] >= 0}
      /\ UNCHANGED <<disk, open, text, modified, queue, pending, shutdown, missed, stale, given>>
  BY DEF Start, diskVars, copyVars, serviceVars, trackerVars
<1>2. UNCHANGED Modified
  BY <1>1 DEF Modified
<1>3. UNCHANGED UnsavedWork
  BY <1>1, <1>2 DEF UnsavedWork
<1>4. UNCHANGED Unsettled
  BY <1>1, <1>2 DEF Unsettled
<1>5. UNCHANGED KeptWork
  BY <1>1 DEF KeptWork
<1> QED
  BY <1>1, <1>3, <1>4, <1>5 DEF Unsaved!Start

\* A session that is not there does nothing.
LEMMA DownOnlyStarts ==
    ASSUME BackupInv, session = "down", Next
    PROVE  Start
<1>1. /\ shutdown = NoShutdown
      /\ \A c \in Copy : queue[c] = <<>> /\ open[c] = "closed" /\ pending[c] = "none" /\ ~modified[c]
  BY DEF BackupInv, SessionInv, QueueInv
<1>2. shutdown.phase = "off" /\ Modified = {}
  BY <1>1, NoShutdownIs DEF Modified
<1>3. ASSUME NEW c \in Copy PROVE ~(BackupTimer(c) \/ Operation(c) \/ WorkingCopy(c) \/ RestoreBackup(c))
  BY <1>1, <1>2
     DEF BackupTimer, Operation, SkipWrite, StartWrite, EndWrite, StartDelete, EndDelete,
         OperationFails, Running, WorkingCopy, Free, Open, Resolve, Edit, Save, Revert, Close,
         RestoreBackup
<1>4. ~Shutdown
  BY <1>2
     DEF Shutdown, BeginShutdown, DiscardRest, DiscardHome, AutoSave, NoAutoSave, AutoSaveEnds,
         BackupEnds, ErrorDialog, ConfirmSave, SaveEnds, ConfirmDontSave, ConfirmCancel,
         ConfirmFails, DiscardEnds, WillShutdown, Exit
<1> QED
  BY <1>3, <1>4 DEF Next, ResolveModel, ResolveBackupsToRestore, Crash

\* During a session only the opening of its editor touches what was kept.
LEMMA SessionGoesOn ==
    ASSUME BackupInv, session # "down", [Next]_vars
    PROVE  \/ Down
           \/ \E c \in untouched : Resolve(c)
           \/ session' # "down" /\ UNCHANGED untouched
<1>1. ASSUME NEW c \in Copy, Resolve(c) PROVE session' # "down" /\ untouched' = untouched \ {c}
  BY <1>1 DEF Resolve
<1>2. CASE \E c \in Copy : Resolve(c)
  BY <1>1, <1>2
<1>3. CASE ~\E c \in Copy : Resolve(c)
  BY <1>3
     DEF Next, BackupTimer, Operation, SkipWrite, StartWrite, EndWrite, StartDelete, EndDelete,
         OperationFails, WorkingCopy, Open, Edit, Save, Revert, Close, RestoreBackup, ResolveModel,
         ResolveBackupsToRestore, Shutdown, BeginShutdown, DiscardRest, DiscardHome, AutoSave,
         NoAutoSave, AutoSaveEnds, BackupEnds, ErrorDialog, ConfirmSave, SaveEnds, ConfirmDontSave,
         ConfirmCancel, ConfirmFails, DiscardEnds, WillShutdown, Exit, Crash, Start, vars,
         shutdownUnchanged
<1> QED
  BY <1>2, <1>3

\* An editor opens with the backup an earlier session left.
LEMMA ResolveRestores ==
    ASSUME BackupInv, ~EmptyWindow, NEW c \in untouched, Resolve(c)
    PROVE  Unsaved!Restore(c)
<1>1. Types /\ c \in Copy /\ queue[c] # <<>>
  BY DEF BackupInv, Types, Resolve, Running
<1>2. session \in {"resolved", "ready"}
  BY <1>1 DEF BackupInv, SessionInv, Types
<1>3. disk[c] >= 0 /\ model[c] # Unknown
  BY <1>2 DEF BackupInv, UntouchedInv
<1>4. /\ open' = [open EXCEPT ![c] = "open"] /\ text' = [text EXCEPT ![c] = disk[c]]
      /\ modified' = [modified EXCEPT ![c] = TRUE] /\ untouched' = untouched \ {c}
      /\ UNCHANGED <<disk, session>>
  BY <1>3 DEF Resolve, diskVars
<1>5. c \in Modified' /\ text'[c] = disk[c] /\ \A d \in Copy : d # c => text'[d] = text[d]
  BY <1>1, <1>4 DEF Modified, Types
<1>6. \A d \in Copy : d # c => (d \in Modified' <=> d \in Modified)
  BY <1>1, <1>4 DEF Modified, Types
<1>7. KeptWork[c] = {disk[c]}
  BY <1>1, <1>2, KeptIs
<1>8. UnsavedWork' = [UnsavedWork EXCEPT ![c] = KeptWork[c]]
  BY <1>1, <1>5, <1>6, <1>7 DEF UnsavedWork
<1>9. KeptWork' = [KeptWork EXCEPT ![c] = {}]
  BY <1>1, <1>2, <1>4 DEF KeptWork
<1> QED
  BY <1>2, <1>4, <1>7, <1>8, <1>9 DEF Unsaved!Restore

\* Whatever else happens, what was kept stays, and nobody works on it.
LEMMA SessionWorks ==
    ASSUME BackupInv, BackupInv', ~EmptyWindow, [Next]_vars,
           session # "down", session' # "down", UNCHANGED untouched
    PROVE  Unsaved!Work
<1>1. ASSUME NEW c \in Copy
      PROVE  KeptWork'[c] = KeptWork[c] /\ (KeptWork[c] # {} => UnsavedWork'[c] = UnsavedWork[c])
  <2>1. CASE c \in untouched
    <3>1. KeptWork[c] = {disk[c]} /\ UnsavedWork[c] = {}
      BY <2>1, KeptIs
    <3>2. disk'[c] >= 0 /\ open'[c] # "open"
      BY <2>1 DEF BackupInv, UntouchedInv
    <3>3. disk'[c] = disk[c]
      BY <2>1, UntouchedDisk
    <3>4. KeptWork'[c] = {disk[c]} /\ UnsavedWork'[c] = {}
      BY <2>1, <3>2, <3>3 DEF KeptWork, UnsavedWork, Modified
    <3> QED
      BY <3>1, <3>4
  <2>2. CASE c \notin untouched
    BY <2>2 DEF KeptWork
  <2> QED
    BY <2>1, <2>2
<1>2. UNCHANGED KeptWork
  BY <1>1 DEF KeptWork
<1> QED
  BY <1>1, <1>2 DEF Unsaved!Work

\* Hot exit from session to session: the tracker, the service with its queues, the
\* shutdown and the restore keep the promise of HotExit, for any number of working
\* copies, sessions, failures and crashes, in a window that is not empty and in which
\* working copies change during onFinalBeforeShutdown only by what it waits for.
THEOREM HotExitRefinement ==
    ASSUME Interference = {}, ~EmptyWindow
    PROVE  Spec => ImplementsHotExit
<1>1. Init => Unsaved!Init
  <2> SUFFICES ASSUME Init PROVE Unsaved!Init
    OBVIOUS
  <2>1. /\ session = "starting" /\ shutdown.phase = "off" /\ stale = {} /\ missed = {}
        /\ untouched = {} /\ given = {}
        /\ \A c \in Copy : ~modified[c] /\ queue[c] = <<>> /\ pending[c] = "none"
    BY NoShutdownIs DEF Init
  <2>2. UnsavedWork = Unsaved!Nothing
    BY <2>1 DEF UnsavedWork, Modified, Unsaved!Nothing
  <2>3. KeptWork = Unsaved!Nothing
    BY <2>1 DEF KeptWork, Unsaved!Nothing
  <2>4. Unsettled = {}
    BY <2>1 DEF Unsettled
  <2> QED
    BY <2>1, <2>2, <2>3, <2>4 DEF Unsaved!Init
<1>2. (BackupInv /\ ExitInv /\ SavedInv) /\ BackupInv' /\ [Next]_vars =>
         [Unsaved!Next]_(Unsaved!vars)
  <2> SUFFICES ASSUME BackupInv, ExitInv, SavedInv, BackupInv', [Next]_vars
               PROVE  [Unsaved!Next]_(Unsaved!vars)
    OBVIOUS
  <2>1. CASE UNCHANGED vars
    <3>1. UNCHANGED <<disk, open, text, modified, queue, pending, session, shutdown, missed, stale,
                      untouched, given>>
      BY <2>1 DEF vars, diskVars, copyVars, serviceVars, trackerVars
    <3>2. UNCHANGED Modified
      BY <3>1 DEF Modified
    <3>3. UNCHANGED <<UnsavedWork, KeptWork, Unsettled>>
      BY <3>1, <3>2 DEF UnsavedWork, KeptWork, Unsettled
    <3> QED
      BY <3>1, <3>3 DEF Unsaved!vars
  <2>2. CASE Next /\ session = "down"
    BY <2>2, DownOnlyStarts, StartIs DEF Unsaved!Next
  <2>3. CASE session # "down"
    <3>1. CASE Down
      BY <2>3, <3>1, DownEnds DEF Unsaved!Next
    <3>2. ASSUME NEW c \in untouched, Resolve(c) PROVE Unsaved!Next
      <4>1. c \in Copy
        BY DEF BackupInv, Types
      <4> QED
        BY <3>2, <4>1, ResolveRestores DEF Unsaved!Next
    <3>3. CASE session' # "down" /\ UNCHANGED untouched
      BY <2>3, <3>3, SessionWorks DEF Unsaved!Next
    <3> QED
      BY <2>3, <3>1, <3>2, <3>3, SessionGoesOn
  <2> QED
    BY <2>1, <2>2, <2>3
<1> QED
  BY <1>1, <1>2, SavedInvariant, PTL DEF Spec, ImplementsHotExit, Unsaved!Spec
================================================================================
