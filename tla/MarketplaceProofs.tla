--------------------------- MODULE MarketplaceProofs ---------------------------
(* The invariants of Marketplace, for every set of extensions, versions and   *)
(* commands that run at a time.                                               *)
EXTENDS Marketplace, TLAPS

-----------------------------------------------------------------------------
(* The inductive invariant *)

Busy(r) == r.step \in {"uninstalled", "bundling", "fetching"}

\* A command that waits for something works on an extension.
TasksOK ==
    \A t \in Task : task[t].step \notin {"idle", "next"} => task[t].ext \in Extension

\* As long as no command was given, the setup is alone and removes nothing, and each
\* bundled extension is installed, has failed, or is still before it or under way.
SetupOK ==
    quiet =>
        /\ \A t \in Task \ {Setup} : task[t] = Idle
        /\ \/ task[Setup] = Idle
           \/ task[Setup].kind = "setup" /\ task[Setup].step \in {"next", "bundling", "fetching"}
        /\ \A x \in Extension : running[x] # 0 => installed[x] # 0
        /\ \A x \in Bundled :
              \/ installed[x] # 0
              \/ report[x] = "failed"
              \/ x \in task[Setup].todo
              \/ task[Setup].step \in {"bundling", "fetching"} /\ task[Setup].ext = x

MarketInv == TypeOK /\ TasksOK /\ LossIsReported /\ SetupOK

-----------------------------------------------------------------------------
(* The operators of the model *)

LEMMA ConstantTypes ==
    /\ 0 \in Version /\ BundledVersion \in Version /\ BundledVersion # 0
    /\ None \in [Extension -> Version]
  BY VersionAssumption DEF Version, None

\* The fields of a command that is about to take an extension.
LEMMA NewTaskIs ==
    ASSUME NEW kind \in Kind, NEW todo \in SUBSET Extension, NEW found \in [Extension -> Version]
    PROVE  /\ NewTask(kind, todo, found) \in TaskState
           /\ NewTask(kind, todo, found).kind = kind
           /\ NewTask(kind, todo, found).step = "next"
           /\ NewTask(kind, todo, found).todo = todo
           /\ NewTask(kind, todo, found).ext = NoExtension
           /\ NewTask(kind, todo, found).found = found
<1>1. "next" \in Step /\ 0 \in Version
  BY ConstantTypes DEF Step
<1> QED
  BY <1>1 DEF NewTask, TaskState

LEMMA IdleIs ==
    /\ Idle \in TaskState /\ Idle.step = "idle" /\ Idle.todo = {}
  BY ConstantTypes DEF Idle, NewTask, TaskState, Kind, Step

\* After an extension a command takes the next, or ends.
LEMMA FollowingIs ==
    ASSUME NEW r \in TaskState
    PROVE  /\ Following(r) \in TaskState
           /\ Following(r).step \in {"idle", "next"}
           /\ r.kind = "setup" =>
                 IF r.todo = {} THEN Following(r) = Idle
                 ELSE Following(r).kind = "setup" /\ Following(r).step = "next" /\ Following(r).todo = r.todo
<1> DEFINE updatable == {x \in Extension : r.found[x] # 0}
<1>1. r.kind \in Kind /\ r.todo \in SUBSET Extension /\ r.found \in [Extension -> Version]
  BY DEF TaskState
<1>2. updatable \in SUBSET Extension /\ "updateAll" \in Kind
  BY DEF Kind, Updating
<1>3. \/ r.todo # {} /\ Following(r) = NewTask(r.kind, r.todo, r.found)
      \/ r.todo = {} /\ r.kind = "checkAll" /\ Following(r) = NewTask("updateAll", updatable, r.found)
      \/ r.todo = {} /\ Following(r) = Idle
  BY DEF Following
<1> HIDE DEF updatable
<1> QED
  BY <1>1, <1>2, <1>3, NewTaskIs, IdleIs

\* A request to GitHub: the command waits for the answer, of a version there is.
LEMMA AsksIs ==
    ASSUME TypeOK, NEW t \in Task, NEW r \in TaskState, r.ext \in Extension, NEW step \in Step,
           Asks(t, r, step)
    PROVE  \E r2 \in TaskState :
              /\ task' = [task EXCEPT ![t] = r2]
              /\ r2.step = step /\ r2.ext = r.ext /\ r2.kind = r.kind /\ r2.todo = r.todo
<1>1. PICK hit \in BOOLEAN :
         task' = [task EXCEPT ![t] = [r EXCEPT !.step = step, !.hit = hit,
                    !.known = IF hit THEN cache[r.ext] ELSE github[r.ext]]]
  BY DEF Asks
<1> DEFINE known == IF hit THEN cache[r.ext] ELSE github[r.ext]
           r2 == [r EXCEPT !.step = step, !.hit = hit, !.known = known]
<1>2. known \in Version
  BY DEF TypeOK
<1> HIDE DEF known
<1>3. r2 \in TaskState /\ r2.step = step /\ r2.ext = r.ext /\ r2.kind = r.kind /\ r2.todo = r.todo
  BY <1>2 DEF TaskState
<1> QED
  BY <1>1, <1>3 DEF known

\* What GitHub and the cache answer is a version.
LEMMA ReleaseIs ==
    ASSUME TypeOK, NEW t \in Task, task[t].ext \in Extension, NEW v \in Release(task[t])
    PROVE  v \in Version /\ (Cached(task[t], v) => cache' \in [Extension -> Version])
<1>1. task[t] \in TaskState /\ cache \in [Extension -> Version]
  BY DEF TypeOK
<1>2. task[t].known \in 0..MaxVersion /\ github[task[t].ext] \in 0..MaxVersion
  BY <1>1 DEF TypeOK, TaskState, Version
<1>3. v \in Version
  BY <1>2, VersionAssumption DEF Release, Version
<1> QED
  BY <1>1, <1>3 DEF Cached

\* The messages to the user.
LEMMA SucceedIs ==
    ASSUME TypeOK, NEW t \in Task, NEW r \in TaskState, NEW what \in {"installed", "updated", "uninstalled"},
           Succeed(t, r, what)
    PROVE  /\ task' = [task EXCEPT ![t] = Following(r)] /\ task' \in [Task -> TaskState]
           /\ report' = [report EXCEPT ![r.ext] = what]
           /\ report' \in [Extension -> {"none", "installed", "updated", "uninstalled", "failed"}]
           /\ availableUpdates' \in [Extension -> Version]
<1>1. task' = [task EXCEPT ![t] = Following(r)] /\ report' = [report EXCEPT ![r.ext] = what]
  BY DEF Succeed, Continue
<1>2. task' \in [Task -> TaskState]
  BY <1>1, FollowingIs DEF TypeOK
<1>3. report' \in [Extension -> {"none", "installed", "updated", "uninstalled", "failed"}]
  BY <1>1 DEF TypeOK
<1>4. availableUpdates' \in [Extension -> Version]
  BY ConstantTypes DEF Succeed, TypeOK
<1> QED
  BY <1>1, <1>2, <1>3, <1>4

LEMMA FailIs ==
    ASSUME TypeOK, NEW t \in Task, NEW r \in TaskState, Fail(t, r)
    PROVE  /\ \E r2 \in TaskState :
                 /\ task' = [task EXCEPT ![t] = r2]
                 /\ r2.step \in {"idle", "next"}
                 /\ r.kind = "setup" => r2 = Following(r)
           /\ task' \in [Task -> TaskState]
           /\ report' = [report EXCEPT ![r.ext] = "failed"]
           /\ report' \in [Extension -> {"none", "installed", "updated", "uninstalled", "failed"}]
           /\ explained' = [explained EXCEPT ![r.ext] = TRUE]
           /\ explained' \in [Extension -> BOOLEAN]
           /\ availableUpdates' \in [Extension -> Version]
<1>1. \E r2 \in TaskState :
         /\ task' = [task EXCEPT ![t] = r2]
         /\ r2.step \in {"idle", "next"}
         /\ r.kind = "setup" => r2 = Following(r)
  BY FollowingIs, IdleIs DEF Fail, Continue, CatchesErrors
<1>2. task' \in [Task -> TaskState]
  BY <1>1 DEF TypeOK
<1>3. report' = [report EXCEPT ![r.ext] = "failed"] /\ explained' = [explained EXCEPT ![r.ext] = TRUE]
      /\ availableUpdates' = availableUpdates
  BY DEF Fail
<1>4. report' \in [Extension -> {"none", "installed", "updated", "uninstalled", "failed"}]
  BY <1>3 DEF TypeOK
<1>5. explained' \in [Extension -> BOOLEAN]
  BY <1>3 DEF TypeOK
<1>6. availableUpdates' \in [Extension -> Version]
  BY <1>3 DEF TypeOK
<1> QED
  BY <1>1, <1>2, <1>3, <1>4, <1>5, <1>6

LEMMA SaidTypes == \A r : SaidOf(r) \in {"installed", "updated", "uninstalled"}
  BY DEF SaidOf

\* installExtension either finds the extension in the registry and is done, or waits
\* for the bundle or GitHub, with the same extensions still to come.
LEMMA InstallExtensionIs ==
    ASSUME TypeOK, NEW t \in Task, NEW r \in TaskState, r.ext \in Extension, InstallExtension(t, r)
    PROVE  /\ task' \in [Task -> TaskState]
           /\ report' \in [Extension -> {"none", "installed", "updated", "uninstalled", "failed"}]
           /\ explained' \in [Extension -> BOOLEAN]
           /\ availableUpdates' \in [Extension -> Version]
           /\ \/ /\ running[r.ext] # 0
                 /\ task' = [task EXCEPT ![t] = Following(r)]
                 /\ report' = [report EXCEPT ![r.ext] = SaidOf(r)]
                 /\ explained' = [explained EXCEPT ![r.ext] = TRUE]
              \/ /\ running[r.ext] = 0
                 /\ UNCHANGED <<report, explained>>
                 /\ \E r2 \in TaskState :
                       /\ task' = [task EXCEPT ![t] = r2]
                       /\ r2.step \in {"bundling", "fetching"}
                       /\ r2.ext = r.ext /\ r2.kind = r.kind /\ r2.todo = r.todo
<1>1. CASE running[r.ext] # 0
  <2>1. Succeed(t, r, SaidOf(r)) /\ explained' = [explained EXCEPT ![r.ext] = TRUE]
    BY <1>1 DEF InstallExtension
  <2>2. explained' \in [Extension -> BOOLEAN]
    BY <2>1 DEF TypeOK
  <2> QED
    BY <1>1, <2>1, <2>2, SucceedIs, SaidTypes
<1>2. CASE running[r.ext] = 0
  <2>1. UNCHANGED <<report, explained, availableUpdates>>
    BY <1>2 DEF InstallExtension
  <2>2. \E r2 \in TaskState :
           /\ task' = [task EXCEPT ![t] = r2]
           /\ r2.step \in {"bundling", "fetching"}
           /\ r2.ext = r.ext /\ r2.kind = r.kind /\ r2.todo = r.todo
    <3>1. CASE r.ext \in Bundled
      <4> DEFINE r2 == [r EXCEPT !.step = "bundling"]
      <4>1. task' = [task EXCEPT ![t] = r2]
        BY <1>2, <3>1 DEF InstallExtension
      <4>2. r2 \in TaskState /\ r2.step = "bundling" /\ r2.ext = r.ext /\ r2.kind = r.kind /\ r2.todo = r.todo
        BY DEF TaskState, Step
      <4> QED
        BY <4>1, <4>2
    <3>2. CASE r.ext \notin Bundled
      <4>1. Asks(t, r, "fetching") /\ "fetching" \in Step
        BY <1>2, <3>2 DEF InstallExtension, Step
      <4> QED
        BY <4>1, AsksIs
    <3> QED
      BY <3>1, <3>2
  <2>3. task' \in [Task -> TaskState]
    BY <2>2 DEF TypeOK
  <2> QED
    BY <1>2, <2>1, <2>2, <2>3 DEF TypeOK
<1> QED
  BY <1>1, <1>2

\* The command installs version v.
LEMMA InstalledIs ==
    ASSUME TypeOK, NEW t \in Task, task[t].ext \in Extension, NEW v \in Version, Installed(t, v)
    PROVE  /\ task' = [task EXCEPT ![t] = Following(task[t])] /\ task' \in [Task -> TaskState]
           /\ installed' = [installed EXCEPT ![task[t].ext] = v]
           /\ explained' = [explained EXCEPT ![task[t].ext] = FALSE]
           /\ report' = [report EXCEPT ![task[t].ext] = SaidOf(task[t])]
           /\ installed' \in [Extension -> Version] /\ explained' \in [Extension -> BOOLEAN]
           /\ report' \in [Extension -> {"none", "installed", "updated", "uninstalled", "failed"}]
           /\ availableUpdates' \in [Extension -> Version]
<1>1. /\ installed' = [installed EXCEPT ![task[t].ext] = v]
      /\ explained' = [explained EXCEPT ![task[t].ext] = FALSE]
      /\ Succeed(t, task[t], SaidOf(task[t]))
  BY DEF Installed
<1>2. installed' \in [Extension -> Version]
  BY <1>1 DEF TypeOK
<1>3. explained' \in [Extension -> BOOLEAN]
  BY <1>1 DEF TypeOK
<1>4. task[t] \in TaskState
  BY DEF TypeOK
<1> QED
  BY <1>1, <1>2, <1>3, <1>4, SucceedIs, SaidTypes

-----------------------------------------------------------------------------
(* What a step of a command must show *)

LEMMA TasksKept ==
    ASSUME TypeOK, TasksOK, NEW t \in Task, NEW r2 \in TaskState, task' = [task EXCEPT ![t] = r2],
           r2.step \in {"idle", "next"} \/ r2.ext \in Extension
    PROVE  TasksOK'
  BY DEF TypeOK, TasksOK

\* A step of t disturbs the extension x at most, and t was busy with no other: it
\* leaves x on disk, explained, in the hands of t, or where the others had it.
LEMMA LossKept ==
    ASSUME TypeOK, LossIsReported, NEW t \in Task, NEW r2 \in TaskState, task' = [task EXCEPT ![t] = r2],
           NEW x, Busy(task[t]) => task[t].ext = x,
           \A y \in Extension \ {x} : installed'[y] = installed[y] /\ explained'[y] = explained[y],
           \/ x \notin Extension
           \/ installed'[x] # 0 \/ explained'[x]
           \/ Busy(r2) /\ r2.ext = x
           \/ ~Busy(task[t]) /\ installed'[x] = installed[x] /\ explained'[x] = explained[x]
    PROVE  LossIsReported'
<1> SUFFICES ASSUME NEW y \in Extension, installed'[y] = 0, ~explained'[y]
             PROVE  \E u \in Task : task'[u].ext = y /\ Busy(task'[u])
  BY DEF LossIsReported, BusyWith, Busy
<1>1. \A u \in Task : u # t => task'[u] = task[u]
  BY DEF TypeOK
<1>2. task'[t] = r2
  BY DEF TypeOK
<1>3. CASE y = x /\ Busy(r2) /\ r2.ext = x
  BY <1>2, <1>3
<1>4. CASE ~(y = x /\ Busy(r2) /\ r2.ext = x)
  <2>1. /\ installed[y] = 0 /\ ~explained[y]
        /\ y = x => ~Busy(task[t])
    BY <1>4
  <2>2. PICK u \in Task : task[u].ext = y /\ Busy(task[u])
    BY <2>1 DEF LossIsReported, BusyWith, Busy
  <2>3. u # t
    BY <2>1, <2>2
  <2> QED
    BY <1>1, <2>2, <2>3
<1> QED
  BY <1>3, <1>4

\* As long as no command was given, a step is one of the setup.
LEMMA OnlySetup ==
    ASSUME SetupOK, quiet, NEW t \in Task, task[t].step # "idle"
    PROVE  /\ t = Setup /\ task[Setup].kind = "setup"
           /\ task[Setup].step \in {"next", "bundling", "fetching"}
  BY IdleIs DEF SetupOK

\* The setup is done with its extension, which is on disk or has failed.
LEMMA SetupGoesOn ==
    ASSUME TypeOK, SetupOK, quiet, NEW r \in TaskState, r.kind = "setup",
           task' = [task EXCEPT ![Setup] = Following(r)],
           UNCHANGED <<running, quiet>>,
           \A y \in Extension : installed[y] # 0 => installed'[y] # 0,
           \A y \in Extension \ {r.ext} : report'[y] = report[y],
           r.ext \in Extension => installed'[r.ext] # 0 \/ report'[r.ext] = "failed",
           \A y \in task[Setup].todo : y = r.ext \/ y \in r.todo,
           task[Setup].step \in {"bundling", "fetching"} => task[Setup].ext = r.ext
    PROVE  SetupOK'
<1>1. /\ task'[Setup] = Following(r)
      /\ \A t \in Task \ {Setup} : task'[t] = task[t]
  BY TaskAssumption DEF TypeOK
<1>2. IF r.todo = {} THEN Following(r) = Idle
      ELSE Following(r).kind = "setup" /\ Following(r).step = "next" /\ Following(r).todo = r.todo
  BY FollowingIs
<1>3. \A x \in Extension : running'[x] # 0 => installed'[x] # 0
  BY DEF SetupOK
<1>4. ASSUME NEW x \in Bundled
      PROVE  installed'[x] # 0 \/ report'[x] = "failed" \/ x \in task'[Setup].todo
  <2>1. x \in Extension
    BY ExtensionAssumption
  <2>2. CASE x = r.ext
    BY <2>1, <2>2
  <2>3. CASE x # r.ext
    <3>1. installed[x] # 0 \/ report[x] = "failed" \/ x \in task[Setup].todo
      BY <2>3 DEF SetupOK
    <3>2. x \in task[Setup].todo => x \in Following(r).todo
      BY <1>2, <2>3
    <3> QED
      BY <1>1, <2>1, <2>3, <3>1, <3>2
  <2> QED
    BY <2>2, <2>3
<1> QED
  BY <1>1, <1>2, <1>3, <1>4 DEF SetupOK

\* The setup waits for the bundle or GitHub.
LEMMA SetupWaits ==
    ASSUME TypeOK, SetupOK, quiet, NEW r \in TaskState, NEW r2 \in TaskState,
           task' = [task EXCEPT ![Setup] = r2],
           r2.step \in {"bundling", "fetching"},
           r2.kind = "setup", r2.ext = r.ext, r2.todo = r.todo,
           UNCHANGED <<installed, running, report, quiet>>,
           \A y \in task[Setup].todo : y = r.ext \/ y \in r.todo,
           task[Setup].step \in {"bundling", "fetching"} => task[Setup].ext = r.ext
    PROVE  SetupOK'
<1>1. /\ task'[Setup] = r2
      /\ \A t \in Task \ {Setup} : task'[t] = task[t]
  BY TaskAssumption DEF TypeOK
<1> QED
  BY <1>1 DEF SetupOK

-----------------------------------------------------------------------------
(* The steps of a command *)

LEMMA BundleStep ==
    ASSUME MarketInv, NEW t \in Task, InstallFromBundle(t)
    PROVE  MarketInv'
<1> DEFINE r == task[t]
           x == r.ext
<1>1. /\ r.step = "bundling" /\ x \in Extension /\ r \in TaskState
      /\ UNCHANGED <<running, github, cache, offered, quiet>>
  BY DEF InstallFromBundle, MarketInv, TasksOK, TypeOK
<1>2. CASE Installed(t, BundledVersion)
  <2>1. /\ task' = [task EXCEPT ![t] = Following(r)] /\ task' \in [Task -> TaskState]
        /\ installed' = [installed EXCEPT ![x] = BundledVersion]
        /\ explained' = [explained EXCEPT ![x] = FALSE]
        /\ report' = [report EXCEPT ![x] = SaidOf(r)]
        /\ installed' \in [Extension -> Version] /\ explained' \in [Extension -> BOOLEAN]
        /\ report' \in [Extension -> {"none", "installed", "updated", "uninstalled", "failed"}]
        /\ availableUpdates' \in [Extension -> Version]
    BY <1>1, <1>2, InstalledIs, ConstantTypes DEF MarketInv
  <2>2. TypeOK'
    BY <1>1, <2>1 DEF MarketInv, TypeOK
  <2>3. /\ installed'[x] # 0
        /\ \A y \in Extension \ {x} : /\ installed'[y] = installed[y] /\ explained'[y] = explained[y]
                                      /\ report'[y] = report[y]
    BY <1>1, <2>1, ConstantTypes DEF MarketInv, TypeOK
  <2>4. Following(r) \in TaskState /\ Following(r).step \in {"idle", "next"}
    BY <1>1, FollowingIs
  <2>5. TasksOK'
    BY <2>1, <2>4, TasksKept DEF MarketInv
  <2>6. LossIsReported'
    BY <2>1, <2>3, <2>4, LossKept DEF MarketInv
  <2>7. SetupOK'
    <3>1. CASE quiet
      <4>1. t = Setup /\ r.kind = "setup"
        BY <1>1, <3>1, OnlySetup DEF MarketInv
      <4> QED
        BY <1>1, <2>1, <2>3, <3>1, <4>1, SetupGoesOn DEF MarketInv
    <3> QED
      BY <1>1, <3>1 DEF SetupOK
  <2> QED
    BY <2>2, <2>5, <2>6, <2>7 DEF MarketInv
<1>3. CASE Asks(t, r, "fetching") /\ UNCHANGED <<installed, report, explained, availableUpdates>>
  <2>1. PICK r2 \in TaskState :
           /\ task' = [task EXCEPT ![t] = r2]
           /\ r2.step = "fetching" /\ r2.ext = x /\ r2.kind = r.kind /\ r2.todo = r.todo
    BY <1>1, <1>3, AsksIs DEF MarketInv, Step
  <2>2. TypeOK'
    BY <1>1, <1>3, <2>1 DEF MarketInv, TypeOK
  <2>3. TasksOK' /\ LossIsReported'
    BY <1>1, <1>3, <2>1, TasksKept, LossKept DEF MarketInv, Busy
  <2>4. SetupOK'
    <3>1. CASE quiet
      <4>1. t = Setup /\ r.kind = "setup"
        BY <1>1, <3>1, OnlySetup DEF MarketInv
      <4> QED
        BY <1>1, <1>3, <2>1, <3>1, <4>1, SetupWaits DEF MarketInv
    <3> QED
      BY <1>1, <3>1 DEF SetupOK
  <2> QED
    BY <2>2, <2>3, <2>4 DEF MarketInv
<1> QED
  BY <1>2, <1>3 DEF InstallFromBundle

LEMMA GitHubStep ==
    ASSUME MarketInv, NEW t \in Task, InstallFromGitHub(t)
    PROVE  MarketInv'
<1> DEFINE r == task[t]
           x == r.ext
<1>1. /\ r.step = "fetching" /\ x \in Extension /\ r \in TaskState
      /\ UNCHANGED <<running, github, offered, quiet>>
  BY DEF InstallFromGitHub, MarketInv, TasksOK, TypeOK
<1>2. PICK v \in Release(r) : /\ Cached(r, v)
                              /\ \/ v # 0 /\ Installed(t, v)
                                 \/ Fail(t, r) /\ UNCHANGED installed
  BY DEF InstallFromGitHub
<1>3. v \in Version /\ cache' \in [Extension -> Version]
  BY <1>1, <1>2, ReleaseIs DEF MarketInv
<1>4. CASE v # 0 /\ Installed(t, v)
  <2>1. /\ task' = [task EXCEPT ![t] = Following(r)] /\ task' \in [Task -> TaskState]
        /\ installed' = [installed EXCEPT ![x] = v]
        /\ explained' = [explained EXCEPT ![x] = FALSE]
        /\ report' = [report EXCEPT ![x] = SaidOf(r)]
        /\ installed' \in [Extension -> Version] /\ explained' \in [Extension -> BOOLEAN]
        /\ report' \in [Extension -> {"none", "installed", "updated", "uninstalled", "failed"}]
        /\ availableUpdates' \in [Extension -> Version]
    BY <1>1, <1>3, <1>4, InstalledIs DEF MarketInv
  <2>2. TypeOK'
    BY <1>1, <1>3, <2>1 DEF MarketInv, TypeOK
  <2>3. /\ installed'[x] # 0
        /\ \A y \in Extension \ {x} : /\ installed'[y] = installed[y] /\ explained'[y] = explained[y]
                                      /\ report'[y] = report[y]
    BY <1>1, <1>4, <2>1 DEF MarketInv, TypeOK
  <2>4. Following(r) \in TaskState /\ Following(r).step \in {"idle", "next"}
    BY <1>1, FollowingIs
  <2>5. TasksOK'
    BY <2>1, <2>4, TasksKept DEF MarketInv
  <2>6. LossIsReported'
    BY <2>1, <2>3, <2>4, LossKept DEF MarketInv
  <2>7. SetupOK'
    <3>1. CASE quiet
      <4>1. t = Setup /\ r.kind = "setup"
        BY <1>1, <3>1, OnlySetup DEF MarketInv
      <4> QED
        BY <1>1, <2>1, <2>3, <3>1, <4>1, SetupGoesOn DEF MarketInv
    <3> QED
      BY <1>1, <3>1 DEF SetupOK
  <2> QED
    BY <2>2, <2>5, <2>6, <2>7 DEF MarketInv
<1>5. CASE Fail(t, r) /\ UNCHANGED installed
  <2>1. /\ task' \in [Task -> TaskState]
        /\ report' = [report EXCEPT ![x] = "failed"]
        /\ report' \in [Extension -> {"none", "installed", "updated", "uninstalled", "failed"}]
        /\ explained' = [explained EXCEPT ![x] = TRUE]
        /\ explained' \in [Extension -> BOOLEAN]
        /\ availableUpdates' \in [Extension -> Version]
    BY <1>1, <1>5, FailIs DEF MarketInv
  <2>2. PICK r2 \in TaskState :
           /\ task' = [task EXCEPT ![t] = r2]
           /\ r2.step \in {"idle", "next"}
           /\ r.kind = "setup" => r2 = Following(r)
    BY <1>1, <1>5, FailIs DEF MarketInv
  <2>3. TypeOK'
    BY <1>1, <1>3, <1>5, <2>1 DEF MarketInv, TypeOK
  <2>4. /\ report'[x] = "failed" /\ explained'[x]
        /\ \A y \in Extension \ {x} : explained'[y] = explained[y] /\ report'[y] = report[y]
    BY <1>1, <2>1 DEF MarketInv, TypeOK
  <2>5. TasksOK'
    BY <2>2, TasksKept DEF MarketInv
  <2>6. LossIsReported'
    BY <1>5, <2>2, <2>4, LossKept DEF MarketInv
  <2>7. SetupOK'
    <3>1. CASE quiet
      <4>1. t = Setup /\ r.kind = "setup"
        BY <1>1, <3>1, OnlySetup DEF MarketInv
      <4> QED
        BY <1>1, <1>5, <2>2, <2>4, <3>1, <4>1, SetupGoesOn DEF MarketInv
    <3> QED
      BY <1>1, <3>1 DEF SetupOK
  <2> QED
    BY <2>3, <2>5, <2>6, <2>7 DEF MarketInv
<1> QED
  BY <1>2, <1>4, <1>5

\* What the update takes from the disk is in its hands; the user's uninstall explains it.
LEMMA UninstallStep ==
    ASSUME MarketInv, NEW t \in Task, UninstallExtension(t)
    PROVE  MarketInv'
<1> DEFINE r == task[t]
           x == r.ext
<1>a. TypeOK /\ TasksOK /\ LossIsReported
  BY DEF MarketInv
<1>1. /\ r.step = "uninstalling" /\ x \in Extension /\ r \in TaskState
      /\ UNCHANGED <<running, github, cache, offered, quiet>>
  BY DEF UninstallExtension, MarketInv, TasksOK, TypeOK
<1>2. ~quiet /\ SetupOK'
  <2>1. ~quiet
    BY <1>1, OnlySetup DEF MarketInv
  <2> QED
    BY <1>1, <2>1 DEF SetupOK
<1>3. CASE /\ installed' = [installed EXCEPT ![x] = 0]
           /\ explained' = [explained EXCEPT ![x] = r.kind = "uninstall"]
           /\ r.kind = "uninstall" /\ Succeed(t, r, "uninstalled")
  <2>1. installed' \in [Extension -> Version]
    BY <1>3, ConstantTypes DEF MarketInv, TypeOK
  <2>2. explained' = [explained EXCEPT ![x] = TRUE]
    BY <1>3
  <2>3. explained' \in [Extension -> BOOLEAN]
    BY <2>2 DEF MarketInv, TypeOK
  <2>4. /\ task' = [task EXCEPT ![t] = Following(r)] /\ task' \in [Task -> TaskState]
        /\ report' \in [Extension -> {"none", "installed", "updated", "uninstalled", "failed"}]
        /\ availableUpdates' \in [Extension -> Version]
    BY <1>1, <1>3, SucceedIs DEF MarketInv
  <2>5. TypeOK'
    BY <1>1, <2>1, <2>3, <2>4 DEF MarketInv, TypeOK
  <2>6. Following(r) \in TaskState /\ Following(r).step \in {"idle", "next"}
    BY <1>1, FollowingIs
  <2>7. explained'[x] /\ \A y \in Extension \ {x} : installed'[y] = installed[y] /\ explained'[y] = explained[y]
    BY <1>1, <1>3, <2>2 DEF MarketInv, TypeOK
  <2> DEFINE r2 == Following(r)
  <2>8. r2 \in TaskState /\ task' = [task EXCEPT ![t] = r2] /\ r2.step \in {"idle", "next"}
    BY <2>4, <2>6
  <2>9. Busy(task[t]) => task[t].ext = x
    OBVIOUS
  <2> HIDE DEF x, r2
  <2>10. TasksOK'
    BY <1>a, <2>8, TasksKept
  <2>11. LossIsReported'
    BY <1>a, <2>7, <2>8, <2>9, LossKept
  <2> QED
    BY <1>2, <2>5, <2>10, <2>11 DEF MarketInv
<1>4. CASE /\ installed' = [installed EXCEPT ![x] = 0]
           /\ explained' = [explained EXCEPT ![x] = r.kind = "uninstall"]
           /\ r.kind # "uninstall"
           /\ task' = [task EXCEPT ![t].step = "uninstalled"]
           /\ UNCHANGED <<report, availableUpdates>>
  <2> DEFINE r2 == [r EXCEPT !.step = "uninstalled"]
  <2>1. installed' \in [Extension -> Version]
    BY <1>4, ConstantTypes DEF MarketInv, TypeOK
  <2>2. explained' = [explained EXCEPT ![x] = FALSE]
    BY <1>4
  <2>3. explained' \in [Extension -> BOOLEAN]
    BY <2>2 DEF MarketInv, TypeOK
  <2>4. r2 \in TaskState /\ r2.step = "uninstalled" /\ r2.ext = x
    BY <1>1 DEF TaskState, Step
  <2>5. task' = [task EXCEPT ![t] = r2]
    BY <1>4
  <2> HIDE DEF r2
  <2>6. TypeOK'
    BY <1>1, <1>4, <2>1, <2>3, <2>4, <2>5 DEF MarketInv, TypeOK
  <2>7. \A y \in Extension \ {x} : installed'[y] = installed[y] /\ explained'[y] = explained[y]
    BY <1>1, <1>4, <2>2 DEF MarketInv, TypeOK
  <2>8. ~Busy(r) /\ Busy(r2)
    BY <1>1, <2>4 DEF Busy
  <2>9. TasksOK'
    BY <1>1, <2>4, <2>5, TasksKept DEF MarketInv
  <2>10. LossIsReported'
    BY <2>4, <2>5, <2>7, <2>8, LossKept DEF MarketInv
  <2> QED
    BY <1>2, <2>6, <2>9, <2>10 DEF MarketInv
<1>5. CASE Fail(t, r) /\ UNCHANGED installed
  <2>1. /\ task' \in [Task -> TaskState]
        /\ report' \in [Extension -> {"none", "installed", "updated", "uninstalled", "failed"}]
        /\ explained' = [explained EXCEPT ![x] = TRUE]
        /\ explained' \in [Extension -> BOOLEAN]
        /\ availableUpdates' \in [Extension -> Version]
    BY <1>1, <1>5, FailIs DEF MarketInv
  <2>2. PICK r2 \in TaskState : task' = [task EXCEPT ![t] = r2] /\ r2.step \in {"idle", "next"}
    BY <1>1, <1>5, FailIs DEF MarketInv
  <2>3. TypeOK'
    BY <1>1, <1>5, <2>1 DEF MarketInv, TypeOK
  <2>4. explained'[x] /\ \A y \in Extension \ {x} : installed'[y] = installed[y] /\ explained'[y] = explained[y]
    BY <1>1, <1>5, <2>1 DEF MarketInv, TypeOK
  <2>5. Busy(task[t]) => task[t].ext = x
    OBVIOUS
  <2>6. TasksOK'
    BY <1>a, <2>2, TasksKept
  <2> HIDE DEF x
  <2>7. LossIsReported'
    BY <1>a, <2>2, <2>4, <2>5, LossKept
  <2> QED
    BY <1>2, <2>3, <2>6, <2>7 DEF MarketInv
<1> QED
  BY <1>3, <1>4, <1>5 DEF UninstallExtension

\* installExtension keeps the invariant, whether it follows an update's removal or is the
\* first step of the command with the extension it has taken.
LEMMA InstallStep ==
    ASSUME MarketInv, NEW t \in Task, NEW r \in TaskState, r.ext \in Extension, InstallExtension(t, r),
           Busy(task[t]) => task[t].ext = r.ext,
           quiet => t = Setup /\ r.kind = "setup" /\ task[Setup].step \notin {"bundling", "fetching"},
           \A y \in task[t].todo : y = r.ext \/ y \in r.todo,
           UNCHANGED <<installed, running, github, cache, quiet>>,
           offered' \subseteq Extension
    PROVE  MarketInv'
<1> DEFINE x == r.ext
<1>1. TypeOK'
  BY InstallExtensionIs DEF MarketInv, TypeOK
<1>2. CASE /\ running[x] # 0
           /\ task' = [task EXCEPT ![t] = Following(r)]
           /\ report' = [report EXCEPT ![x] = SaidOf(r)]
           /\ explained' = [explained EXCEPT ![x] = TRUE]
  <2>1. Following(r) \in TaskState /\ Following(r).step \in {"idle", "next"}
    BY FollowingIs
  <2>2. /\ explained'[x]
        /\ \A y \in Extension \ {x} : explained'[y] = explained[y] /\ report'[y] = report[y]
    BY <1>2 DEF MarketInv, TypeOK
  <2>3. TasksOK' /\ LossIsReported'
    <3> DEFINE r2 == Following(r)
    <3>1. r2 \in TaskState /\ task' = [task EXCEPT ![t] = r2] /\ r2.step \in {"idle", "next"}
      BY <1>2, <2>1
    <3>2. TypeOK /\ TasksOK /\ LossIsReported
      BY DEF MarketInv
    <3> HIDE DEF r2
    <3>3. TasksOK'
      BY <3>1, <3>2, TasksKept
    <3>4. \A y \in Extension \ {x} : installed'[y] = installed[y] /\ explained'[y] = explained[y]
      BY <2>2
    <3>5. LossIsReported'
      BY <2>2, <3>1, <3>2, <3>4, LossKept
    <3> QED
      BY <3>3, <3>5
  <2>4. SetupOK'
    <3>1. CASE quiet
      <4>1. installed[x] # 0
        BY <1>2, <3>1 DEF MarketInv, SetupOK
      <4> QED
        BY <1>2, <2>2, <3>1, <4>1, SetupGoesOn DEF MarketInv
    <3> QED
      BY <3>1 DEF SetupOK
  <2> QED
    BY <1>1, <2>3, <2>4 DEF MarketInv
<1>3. CASE /\ UNCHANGED <<report, explained>>
           /\ \E r2 \in TaskState :
                 /\ task' = [task EXCEPT ![t] = r2]
                 /\ r2.step \in {"bundling", "fetching"}
                 /\ r2.ext = x /\ r2.kind = r.kind /\ r2.todo = r.todo
  <2>1. PICK r2 \in TaskState :
           /\ task' = [task EXCEPT ![t] = r2]
           /\ r2.step \in {"bundling", "fetching"}
           /\ r2.ext = x /\ r2.kind = r.kind /\ r2.todo = r.todo
    BY <1>3
  <2>2. TasksOK' /\ LossIsReported'
    <3>1. Busy(r2) /\ UNCHANGED <<installed, explained>>
      BY <1>3, <2>1 DEF Busy
    <3>2. TasksOK'
      BY <2>1, TasksKept DEF MarketInv
    <3>3. LossIsReported'
      BY <2>1, <3>1, LossKept DEF MarketInv
    <3> QED
      BY <3>2, <3>3
  <2>3. SetupOK'
    <3>1. CASE quiet
      BY <1>3, <2>1, <3>1, SetupWaits DEF MarketInv
    <3> QED
      BY <3>1 DEF SetupOK
  <2> QED
    BY <1>1, <2>2, <2>3 DEF MarketInv
<1> QED
  BY <1>2, <1>3, InstallExtensionIs DEF MarketInv

LEMMA AfterUninstallStep ==
    ASSUME MarketInv, NEW t \in Task, AfterUninstall(t)
    PROVE  MarketInv'
<1>1. /\ task[t].step = "uninstalled" /\ task[t].ext \in Extension /\ task[t] \in TaskState
      /\ InstallExtension(t, task[t])
      /\ UNCHANGED <<installed, running, github, cache, quiet>> /\ offered' \subseteq Extension
  BY DEF AfterUninstall, MarketInv, TasksOK, TypeOK
<1>2. ~quiet
  BY <1>1, OnlySetup DEF MarketInv
<1> QED
  BY <1>1, <1>2, InstallStep

\* Once commands were given, a step that installs and removes nothing, by a command that
\* does not hold an extension.
LEMMA MoveStep ==
    ASSUME MarketInv, ~quiet', quiet' \in BOOLEAN, NEW t \in Task, NEW r2 \in TaskState, task' = [task EXCEPT ![t] = r2],
           r2.step \in {"idle", "next"} \/ r2.ext \in Extension,
           ~Busy(task[t]),
           UNCHANGED <<installed, explained, running, github>>,
           cache' \in [Extension -> Version], availableUpdates' \in [Extension -> Version],
           offered' \subseteq Extension,
           report' \in [Extension -> {"none", "installed", "updated", "uninstalled", "failed"}]
    PROVE  MarketInv'
<1>1. TypeOK'
  <2>1. task' \in [Task -> TaskState]
    BY DEF MarketInv, TypeOK
  <2> QED
    BY <2>1 DEF MarketInv, TypeOK
<1>2. TasksOK'
  BY TasksKept DEF MarketInv
<1>3. LossIsReported'
  BY ExtensionAssumption, LossKept DEF MarketInv
<1>4. SetupOK'
  BY DEF SetupOK
<1> QED
  BY <1>1, <1>2, <1>3, <1>4 DEF MarketInv

LEMMA TakenIs ==
    ASSUME TypeOK, NEW t \in Task, NEW x \in task[t].todo
    PROVE  /\ Taken(t, x) \in TaskState /\ x \in Extension
           /\ Taken(t, x).ext = x /\ Taken(t, x).todo = task[t].todo \ {x}
           /\ Taken(t, x).kind = task[t].kind /\ Taken(t, x).found = task[t].found
           /\ Taken(t, x).step = task[t].step
<1>1. task[t] \in TaskState
  BY DEF TypeOK
<1> QED
  BY <1>1 DEF Taken, TaskState

LEMMA TakeStep ==
    ASSUME MarketInv, NEW t \in Task, TakeExtension(t)
    PROVE  MarketInv'
<1>1. PICK x \in task[t].todo :
         /\ task[t].step = "next"
         /\ TakeToUpdate(t, x) \/ TakeToInstall(t, x) \/ TakeToCheck(t, x)
         /\ UNCHANGED <<installed, running, github, cache, quiet>>
  BY DEF TakeExtension
<1> DEFINE r == Taken(t, x)
<1>2. /\ r \in TaskState /\ x \in Extension /\ r.ext = x /\ r.todo = task[t].todo \ {x}
      /\ r.kind = task[t].kind /\ r.found \in [Extension -> Version]
  BY TakenIs DEF MarketInv, TaskState
<1> HIDE DEF r
<1>3. ~Busy(task[t]) /\ (quiet => t = Setup /\ r.kind = "setup")
  BY <1>1, <1>2, OnlySetup DEF MarketInv, Busy
<1>4. cache' \in [Extension -> Version] /\ Following(r) \in TaskState /\ Following(r).step \in {"idle", "next"}
  BY <1>1, <1>2, FollowingIs DEF MarketInv, TypeOK
<1>5. CASE TakeToUpdate(t, x)
  <2> DEFINE r2 == [r EXCEPT !.step = "uninstalling"]
  <2>1. r2 \in TaskState /\ r2.ext = x
    BY <1>2 DEF TaskState, Step
  <2>2. /\ task' = [task EXCEPT ![t] = r2] /\ r.kind \in Updating
        /\ UNCHANGED <<report, explained, availableUpdates, offered>>
    BY <1>5 DEF TakeToUpdate, r
  <2>3. ~quiet
    BY <1>3, <2>2 DEF Updating
  <2> HIDE DEF r2
  <2> QED
    BY <1>1, <1>2, <1>3, <1>4, <2>1, <2>2, <2>3, MoveStep DEF MarketInv, TypeOK
<1>6. CASE TakeToInstall(t, x)
  <2>1. CASE /\ r.kind = "installAllRequired" /\ Continue(t, r)
             /\ UNCHANGED <<report, explained, availableUpdates, offered>>
    <3>1. task' = [task EXCEPT ![t] = Following(r)] /\ ~quiet
      BY <1>3, <2>1 DEF Continue
    <3> QED
      BY <1>1, <1>3, <1>4, <2>1, <3>1, MoveStep DEF MarketInv, TypeOK
  <2>2. CASE InstallExtension(t, r) /\ UNCHANGED offered
    <3>1. offered' \subseteq Extension
      BY <2>2 DEF MarketInv, TypeOK
    <3>2. \A y \in task[t].todo : y = r.ext \/ y \in r.todo
      BY <1>2
    <3>3. quiet => t = Setup /\ r.kind = "setup" /\ task[Setup].step \notin {"bundling", "fetching"}
      BY <1>1, <1>3
    <3> QED
      BY <1>1, <1>2, <1>3, <2>2, <3>1, <3>2, <3>3, InstallStep
  <2> QED
    BY <1>6, <2>1, <2>2 DEF TakeToInstall, r
<1>7. CASE TakeToCheck(t, x)
  <2>1. /\ r.kind \in {"check", "checkAll"} /\ UNCHANGED <<report, explained>>
        /\ \/ Offer(x, BundledVersion) /\ Continue(t, r)
           \/ Continue(t, r) /\ UNCHANGED <<availableUpdates, offered>>
           \/ /\ Asks(t, [r EXCEPT !.found[x] = running[x]], "checking")
              /\ UNCHANGED <<availableUpdates, offered>>
    BY <1>7 DEF TakeToCheck, r
  <2>2. ~quiet
    BY <1>3, <2>1
  <2>3. availableUpdates' \in [Extension -> Version] /\ offered' \subseteq Extension
    BY <1>2, <2>1, ConstantTypes DEF Offer, MarketInv, TypeOK
  <2>4. CASE Continue(t, r)
    BY <1>1, <1>3, <1>4, <2>1, <2>2, <2>3, <2>4, MoveStep DEF MarketInv, TypeOK, Continue
  <2>5. CASE Asks(t, [r EXCEPT !.found[x] = running[x]], "checking")
    <3> DEFINE q == [r EXCEPT !.found[x] = running[x]]
    <3>1. [r.found EXCEPT ![x] = running[x]] \in [Extension -> Version]
      BY <1>2 DEF MarketInv, TypeOK
    <3>2. q = [r EXCEPT !.found = [r.found EXCEPT ![x] = running[x]]]
      BY <1>2 DEF TaskState
    <3>3. q \in TaskState /\ q.ext = x
      BY <1>2, <3>1, <3>2 DEF TaskState
    <3>4. Asks(t, q, "checking") /\ "checking" \in Step
      BY <2>5 DEF Step
    <3> HIDE DEF q
    <3>5. PICK r2 \in TaskState : task' = [task EXCEPT ![t] = r2] /\ r2.ext = x
      BY <1>2, <3>3, <3>4, AsksIs DEF MarketInv
    <3> QED
      BY <1>1, <1>2, <1>3, <1>4, <2>1, <2>2, <2>3, <3>5, MoveStep DEF MarketInv, TypeOK
  <2> QED
    BY <2>1, <2>4, <2>5
<1> QED
  BY <1>1, <1>5, <1>6, <1>7

LEMMA CheckStep ==
    ASSUME MarketInv, NEW t \in Task, CheckReply(t)
    PROVE  MarketInv'
<1> DEFINE r == task[t]
           x == r.ext
           News(v) == IF v > r.found[x] THEN v ELSE 0
<1>1. /\ r.step = "checking" /\ x \in Extension /\ r \in TaskState
      /\ UNCHANGED <<installed, running, github, report, explained, quiet>>
  BY DEF CheckReply, MarketInv, TasksOK, TypeOK
<1>2. PICK v \in Release(r) :
         /\ Cached(r, v)
         /\ \/ Offer(x, News(v)) /\ Continue(t, [r EXCEPT !.found = None])
            \/ Continue(t, [r EXCEPT !.found[x] = News(v)]) /\ UNCHANGED <<availableUpdates, offered>>
  BY DEF CheckReply
<1>3. ~quiet /\ ~Busy(r)
  BY <1>1, OnlySetup DEF MarketInv, Busy
<1>4. v \in Version /\ cache' \in [Extension -> Version]
  BY <1>1, <1>2, ReleaseIs DEF MarketInv
<1>5. News(v) \in Version
  BY <1>4, ConstantTypes
<1> HIDE DEF News
<1>6. availableUpdates' \in [Extension -> Version] /\ offered' \subseteq Extension
  BY <1>1, <1>2, <1>5 DEF Offer, MarketInv, TypeOK
<1>7. PICK q \in TaskState : Continue(t, q)
  <2>1. [r EXCEPT !.found = None] \in TaskState
    BY <1>1, ConstantTypes DEF TaskState
  <2>2. [r.found EXCEPT ![x] = News(v)] \in [Extension -> Version]
    BY <1>1, <1>5 DEF TaskState
  <2>3. [r EXCEPT !.found[x] = News(v)] = [r EXCEPT !.found = [r.found EXCEPT ![x] = News(v)]]
    BY <1>1 DEF TaskState
  <2>4. [r EXCEPT !.found[x] = News(v)] \in TaskState
    BY <1>1, <2>2, <2>3 DEF TaskState
  <2> QED
    BY <1>2, <2>1, <2>4
<1>8. Following(q) \in TaskState /\ Following(q).step \in {"idle", "next"}
  BY FollowingIs
<1>9. task' = [task EXCEPT ![t] = Following(q)]
  BY <1>7 DEF Continue
<1> QED
  BY <1>1, <1>3, <1>4, <1>6, <1>8, <1>9, MoveStep DEF MarketInv, TypeOK

-----------------------------------------------------------------------------
(* The user, the registry, GitHub *)

LEMMA StartStep ==
    ASSUME MarketInv, NEW t \in Task, NEW r \in TaskState, Start(t, r),
           r.step \in {"idle", "next"} \/ r.ext \in Extension,
           report' \in [Extension -> {"none", "installed", "updated", "uninstalled", "failed"}]
    PROVE  MarketInv'
<1>1. /\ task[t] = Idle /\ task' = [task EXCEPT ![t] = r] /\ quiet' = FALSE
      /\ UNCHANGED <<installed, running, github, cache, availableUpdates, offered, explained>>
  BY DEF Start
<1>2. ~Busy(task[t]) /\ ~quiet' /\ quiet' \in BOOLEAN
  BY <1>1, IdleIs DEF Busy
<1> QED
  BY <1>1, <1>2, MoveStep DEF MarketInv, TypeOK

LEMMA CommandStep ==
    ASSUME MarketInv, NEW t \in Task, NEW x \in Extension, Command(t, x)
    PROVE  MarketInv'
<1> DEFINE r == [NewTask("none", {}, None) EXCEPT !.ext = x]
<1>1. /\ \/ Start(t, [r EXCEPT !.kind = "install", !.todo = {x}])
         \/ Start(t, [r EXCEPT !.kind = "uninstall", !.step = "uninstalling"])
         \/ Start(t, [r EXCEPT !.kind = "update", !.step = "uninstalling",
                        !.found[x] = IF x \in Bundled THEN BundledVersion ELSE 0])
      /\ report' = [report EXCEPT ![x] = "none"]
  BY DEF Command
<1>2. r \in TaskState /\ r.ext = x /\ r.found = None
  <2>1. NewTask("none", {}, None) \in TaskState /\ NewTask("none", {}, None).found = None
    BY NewTaskIs, ConstantTypes, {} \in SUBSET Extension DEF Kind
  <2> QED
    BY <2>1 DEF TaskState
<1> HIDE DEF r
<1>3. report' \in [Extension -> {"none", "installed", "updated", "uninstalled", "failed"}]
  BY <1>1 DEF MarketInv, TypeOK
<1>4. CASE Start(t, [r EXCEPT !.kind = "install", !.todo = {x}])
  <2> DEFINE q == [r EXCEPT !.kind = "install", !.todo = {x}]
  <2>1. q \in TaskState /\ q.ext = x
    BY <1>2 DEF TaskState, Kind
  <2>2. Start(t, q)
    BY <1>4
  <2> HIDE DEF q
  <2> QED
    BY <1>3, <2>1, <2>2, StartStep
<1>5. CASE Start(t, [r EXCEPT !.kind = "uninstall", !.step = "uninstalling"])
  <2> DEFINE q == [r EXCEPT !.kind = "uninstall", !.step = "uninstalling"]
  <2>1. q \in TaskState /\ q.ext = x
    BY <1>2 DEF TaskState, Kind, Step
  <2>2. Start(t, q)
    BY <1>5
  <2> HIDE DEF q
  <2> QED
    BY <1>3, <2>1, <2>2, StartStep
<1>6. CASE Start(t, [r EXCEPT !.kind = "update", !.step = "uninstalling",
                       !.found[x] = IF x \in Bundled THEN BundledVersion ELSE 0])
  <2> DEFINE found == [r.found EXCEPT ![x] = IF x \in Bundled THEN BundledVersion ELSE 0]
             q == [r EXCEPT !.kind = "update", !.step = "uninstalling", !.found = found]
  <2>1. found \in [Extension -> Version]
    BY <1>2, ConstantTypes
  <2>2. Start(t, q)
    <3>1. q = [r EXCEPT !.kind = "update", !.step = "uninstalling",
                 !.found[x] = IF x \in Bundled THEN BundledVersion ELSE 0]
      BY <1>2 DEF TaskState
    <3> QED
      BY <1>6, <3>1
  <2> HIDE DEF found
  <2>3. q \in TaskState /\ q.ext = x
    BY <1>2, <2>1 DEF TaskState, Kind, Updating, Step
  <2> HIDE DEF q
  <2> QED
    BY <1>3, <2>2, <2>3, StartStep
<1> QED
  BY <1>1, <1>4, <1>5, <1>6

LEMMA CommandForAllStep ==
    ASSUME MarketInv, NEW t \in Task, CommandForAll(t)
    PROVE  MarketInv'
<1> DEFINE updates == {x \in Extension : availableUpdates[x] # 0}
<1>1. /\ \/ Start(t, NewTask("check", Extension, None))
         \/ Start(t, NewTask("checkAll", Extension, None))
         \/ Start(t, NewTask("installAllRequired", Required, None))
         \/ Start(t, NewTask("updateAllAvailable", updates, availableUpdates))
      /\ report' = [x \in Extension |-> "none"]
  BY DEF CommandForAll
<1>2. report' \in [Extension -> {"none", "installed", "updated", "uninstalled", "failed"}]
  BY <1>1
<1>3. /\ updates \in SUBSET Extension /\ Extension \in SUBSET Extension /\ Required \in SUBSET Extension
      /\ availableUpdates \in [Extension -> Version] /\ None \in [Extension -> Version]
      /\ "check" \in Kind /\ "checkAll" \in Kind /\ "installAllRequired" \in Kind
      /\ "updateAllAvailable" \in Kind
  BY ConstantTypes, ExtensionAssumption DEF MarketInv, TypeOK, Kind, Updating, CatchesErrors
<1> HIDE DEF updates
<1> QED
  BY <1>1, <1>2, <1>3, NewTaskIs, StartStep

\* The registry learns of what is on disk.
LEMMA DeltaStep ==
    ASSUME MarketInv, NEW x \in Extension, DeltaExtensions(x)
    PROVE  MarketInv'
<1>1. /\ running' = [running EXCEPT ![x] = installed[x]]
      /\ UNCHANGED <<installed, github, cache, availableUpdates, offered, task, report, explained, quiet>>
  BY DEF DeltaExtensions
<1>2. TypeOK'
  BY <1>1 DEF MarketInv, TypeOK
<1>3. TasksOK' /\ LossIsReported'
  BY <1>1 DEF MarketInv, TasksOK, LossIsReported, BusyWith
<1>4. \A y \in Extension : running'[y] = running[y] \/ running'[y] = installed[y]
  BY <1>1 DEF MarketInv, TypeOK
<1>5. SetupOK'
  BY <1>1, <1>4 DEF MarketInv, SetupOK, Idle, NewTask, None
<1> QED
  BY <1>2, <1>3, <1>5 DEF MarketInv

LEMMA PublishStep ==
    ASSUME MarketInv, NEW x \in Extension, Publish(x)
    PROVE  MarketInv'
<1>1. github' \in [Extension -> Version]
  <2>1. github[x] \in 0..MaxVersion
    BY DEF MarketInv, TypeOK, Version
  <2>2. github[x] + 1 \in Version
    BY <2>1, VersionAssumption DEF Publish, Version
  <2> QED
    BY <2>2 DEF Publish, MarketInv, TypeOK
<1>2. UNCHANGED <<installed, running, cache, availableUpdates, offered, task, report, explained, quiet>>
  BY DEF Publish
<1>3. TypeOK'
  BY <1>1, <1>2 DEF MarketInv, TypeOK
<1>4. TasksOK' /\ LossIsReported' /\ SetupOK'
  BY <1>2 DEF MarketInv, TasksOK, LossIsReported, BusyWith, SetupOK, Idle, NewTask, None
<1> QED
  BY <1>3, <1>4 DEF MarketInv

\* At a start, the setup has before it what the disk lacks of the bundle.
AtStart ==
    /\ installed \in [Extension -> Version] /\ github \in [Extension -> Version]
    /\ running = installed
    /\ cache = None /\ availableUpdates = None /\ offered = {}
    /\ task = [t \in Task |-> IF t = Setup THEN SetupTask(installed) ELSE Idle]
    /\ report = [x \in Extension |-> "none"]
    /\ explained = [x \in Extension |-> TRUE]
    /\ quiet = TRUE

LEMMA StartsWell == AtStart => MarketInv
<1> SUFFICES ASSUME AtStart PROVE MarketInv
  OBVIOUS
<1> DEFINE r == SetupTask(installed)
<1>1. ToInstall(installed) \in SUBSET Extension /\ "setup" \in Kind
  BY ExtensionAssumption DEF ToInstall, Kind, CatchesErrors
<1>2. \/ ToInstall(installed) = {} /\ r = Idle
      \/ ToInstall(installed) # {} /\ r = NewTask("setup", ToInstall(installed), None)
  BY DEF SetupTask
<1>3. /\ r \in TaskState /\ r.step \in {"idle", "next"} /\ r.todo = ToInstall(installed)
      /\ r = Idle \/ (r.kind = "setup" /\ r.step = "next")
  <2> HIDE DEF r
  <2>1. CASE r = Idle /\ ToInstall(installed) = {}
    BY <2>1, IdleIs
  <2>2. CASE r = NewTask("setup", ToInstall(installed), None)
    BY <1>1, <2>2, NewTaskIs, ConstantTypes
  <2> QED
    BY <1>2, <2>1, <2>2
<1> HIDE DEF r
<1>4. /\ task[Setup] = r /\ \A t \in Task \ {Setup} : task[t] = Idle
      /\ task \in [Task -> TaskState]
  BY <1>3, IdleIs, TaskAssumption DEF AtStart, r
<1>5. TypeOK
  <2>1. quiet \in BOOLEAN /\ explained \in [Extension -> BOOLEAN]
    BY DEF AtStart
  <2>2. report \in [Extension -> {"none", "installed", "updated", "uninstalled", "failed"}]
    BY DEF AtStart
  <2> QED
    BY <1>4, <2>1, <2>2, ConstantTypes DEF AtStart, TypeOK
<1>6. TasksOK
  BY <1>3, <1>4, IdleIs DEF TasksOK
<1>7. LossIsReported
  BY DEF AtStart, LossIsReported
<1>8. SetupOK
  <2>1. \A x \in Bundled : installed[x] # 0 \/ x \in task[Setup].todo
    BY <1>3, <1>4 DEF ToInstall
  <2> QED
    BY <1>3, <1>4, <2>1 DEF AtStart, SetupOK
<1> QED
  BY <1>5, <1>6, <1>7, <1>8 DEF MarketInv

-----------------------------------------------------------------------------
(* The theorems *)

LEMMA InitMarket == Init => MarketInv
  BY StartsWell DEF Init, AtStart

LEMMA NextMarket == MarketInv /\ [Next]_vars => MarketInv'
<1> SUFFICES ASSUME MarketInv, [Next]_vars PROVE MarketInv'
  OBVIOUS
<1>1. ASSUME NEW t \in Task,
             \/ TakeExtension(t) \/ CheckReply(t) \/ UninstallExtension(t) \/ AfterUninstall(t)
             \/ InstallFromBundle(t) \/ InstallFromGitHub(t) \/ CommandForAll(t)
             \/ \E x \in Extension : Command(t, x)
      PROVE  MarketInv'
  BY <1>1, TakeStep, CheckStep, UninstallStep, AfterUninstallStep, BundleStep, GitHubStep,
     CommandForAllStep, CommandStep
<1>2. ASSUME NEW x \in Extension, DeltaExtensions(x) \/ Publish(x) PROVE MarketInv'
  BY <1>2, DeltaStep, PublishStep
<1>3. CASE Restart
  <2>1. AtStart'
    BY <1>3 DEF Restart, AtStart, MarketInv, TypeOK
  <2>2. (AtStart => MarketInv)'
    BY StartsWell, PTL
  <2> QED
    BY <2>1, <2>2
<1>4. CASE UNCHANGED vars
  <2>1. TypeOK'
    BY <1>4 DEF MarketInv, TypeOK, vars
  <2>2. TasksOK' /\ LossIsReported' /\ SetupOK'
    BY <1>4 DEF MarketInv, TasksOK, LossIsReported, BusyWith, SetupOK, Idle, NewTask, None, vars
  <2> QED
    BY <2>1, <2>2 DEF MarketInv
<1> QED
  BY <1>1, <1>2, <1>3, <1>4 DEF Next

LEMMA AlwaysMarket == Spec => []MarketInv
  BY InitMarket, NextMarket, PTL DEF Spec

\* Every variable keeps its type: the commands of the marketplace work on extensions of the
\* configuration with versions that were released.
THEOREM MarketTypes == Spec => []TypeOK
<1>1. MarketInv => TypeOK
  BY DEF MarketInv
<1> QED
  BY <1>1, AlwaysMarket, PTL

\* An extension that updateExtension has uninstalled is reinstalled, still being worked on,
\* or its failure was told, however many commands interleave on it.
THEOREM NoSilentLoss == Spec => []LossIsReported
<1>1. MarketInv => LossIsReported
  BY DEF MarketInv
<1> QED
  BY <1>1, AlwaysMarket, PTL

\* When startBackgroundSetupWithProgress has ended and no command was given, every bundled
\* extension is on disk or its failure was told.
THEOREM SetupRepairs == Spec => []SetupRestores
<1>1. MarketInv => SetupRestores
  BY IdleIs DEF MarketInv, SetupOK, SetupRestores
<1> QED
  BY <1>1, AlwaysMarket, PTL
=============================================================================
