----------------------------- MODULE Marketplace -----------------------------
(***************************************************************************)
(* Siid's own marketplace (extensions/siid-marketplace): the commands that *)
(* install, update and remove the extensions of its configuration, the     *)
(* update check, and the setup of the bundled extensions at startup.       *)
(*                                                                         *)
(* Commands are async functions of one extension host: they interleave at  *)
(* their awaits, and nothing keeps two of them from working on the same    *)
(* extension.  What vscode.extensions.getExtension knows (running) is not  *)
(* what is on disk (installed): the extension host's registry follows      *)
(* later, or, for an extension that is active, only at the next start.     *)
(* Versions are numbers, 0 stands for none.                                *)
(***************************************************************************)
EXTENDS Naturals, FiniteSets

CONSTANTS
    Extension,      \* the githubReleases of the configuration
    Bundled,        \* those with a .vsix in bundled-extensions
    Required,       \* those marked required
    BundledVersion, \* version of the bundled ones
    MaxVersion,     \* bound: versions released on GitHub
    Task,           \* bound: commands running at a time
    Setup,          \* the task of the setup at startup
    NoExtension

ASSUME ExtensionAssumption ==
    Bundled \subseteq Extension /\ Required \subseteq Extension /\ NoExtension \notin Extension
ASSUME VersionAssumption == MaxVersion \in Nat /\ BundledVersion \in 1..MaxVersion
ASSUME TaskAssumption == Setup \in Task

Version == 0..MaxVersion

VARIABLES
    installed,      \* the version on disk
    running,        \* the version getExtension finds
    github,         \* the version of the latest release
    cache,          \* GitHubService.cache
    availableUpdates,   \* latestVersion of the entries with hasUpdate
    offered,        \* what the view may still show as updatable
    task,           \* the commands under way
    report,         \* what the user was last told of an extension
    explained,      \* history: why the extension is not on disk was told, or
                    \* is not for a command to tell
    quiet           \* history: no command was given since the start

vars == <<installed, running, github, cache, availableUpdates, offered, task, report,
          explained, quiet>>

None == [x \in Extension |-> 0]

\* A command: the extension it works on, those still to come, and for updates
\* the versions that were announced.
NewTask(kind, todo, found) ==
    [kind |-> kind, step |-> "next", ext |-> NoExtension, todo |-> todo,
     found |-> found, known |-> 0, hit |-> FALSE]
Idle == [NewTask("none", {}, None) EXCEPT !.step = "idle"]

Updating == {"update", "updateAll", "updateAllAvailable"}
CatchesErrors == {"setup", "check", "updateAllAvailable"}
Kind == Updating \cup CatchesErrors \cup
        {"none", "install", "uninstall", "checkAll", "installAllRequired"}
Step == {"idle", "next", "checking", "uninstalling", "uninstalled", "bundling", "fetching"}
TaskState ==
    [kind : Kind, step : Step, ext : Extension \cup {NoExtension}, todo : SUBSET Extension,
     found : [Extension -> Version], known : Version, hit : BOOLEAN]

\* Faulty variant of ToInstall: only required extensions are set up.
RequiredToInstall(registry) == {x \in Bundled \cap Required : registry[x] = 0}

\* What checkAndInstallBundledExtensions finds to install: what the registry
\* lacks and the bundle has.
ToInstall(registry) == {x \in Bundled : registry[x] = 0}

\* startBackgroundSetupWithProgress
SetupTask(registry) ==
    IF ToInstall(registry) = {} THEN Idle ELSE NewTask("setup", ToInstall(registry), None)

Init ==
    /\ installed \in [Extension -> Version]
    /\ running = installed
    /\ github \in [Extension -> Version]
    /\ cache = None
    /\ availableUpdates = None
    /\ offered = {}
    /\ task = [t \in Task |-> IF t = Setup THEN SetupTask(installed) ELSE Idle]
    /\ report = [x \in Extension |-> "none"]
    /\ explained = [x \in Extension |-> TRUE]
    /\ quiet = TRUE

-----------------------------------------------------------------------------
(* How a command goes on *)

\* The next extension of r's list, or the end.  updateAllExtensions then
\* updates what checkForUpdates found.
Following(r) ==
    LET updatable == {x \in Extension : r.found[x] # 0}
    IN  IF r.todo # {} THEN NewTask(r.kind, r.todo, r.found)
        ELSE IF r.kind = "checkAll" /\ updatable # {}
             THEN NewTask("updateAll", updatable, r.found)
             ELSE Idle

Continue(t, r) == task' = [task EXCEPT ![t] = Following(r)]

\* An extension is done: setup and updateAllAvailable forget its update.
Succeed(t, r, what) ==
    /\ Continue(t, r)
    /\ report' = [report EXCEPT ![r.ext] = what]
    /\ availableUpdates' = IF r.kind \in {"setup", "updateAllAvailable"}
                           THEN [availableUpdates EXCEPT ![r.ext] = 0]
                           ELSE availableUpdates

\* Faulty variant of SaidOf: the command is named, not what it did.
SaidKind(r) == r.kind

SaidOf(r) == IF r.kind \in Updating THEN "updated" ELSE "installed"

\* An error: some commands go on with the next extension, the others end.
Fail(t, r) ==
    /\ IF r.kind \in CatchesErrors THEN Continue(t, r) ELSE task' = [task EXCEPT ![t] = Idle]
    /\ report' = [report EXCEPT ![r.ext] = "failed"]
    /\ explained' = [explained EXCEPT ![r.ext] = TRUE]
    /\ UNCHANGED availableUpdates

\* getLatestRelease is called: the cache answers, or a request is sent.
Asks(t, r, step) == \E hit \in BOOLEAN :
    /\ hit => cache[r.ext] # 0
    /\ task' = [task EXCEPT ![t] = [r EXCEPT !.step = step, !.hit = hit,
                    !.known = IF hit THEN cache[r.ext] ELSE github[r.ext]]]

\* What it returns: 0 stands for null, for any error and for no release.
Release(r) == IF r.hit THEN {r.known} ELSE {0} \cup (r.known..github[r.ext])
Cached(r, v) == cache' = IF r.hit \/ v = 0 THEN cache ELSE [cache EXCEPT ![r.ext] = v]

\* installExtension, up to its first await.
InstallExtension(t, r) ==
    LET x == r.ext
    IN  IF running[x] # 0
        THEN /\ Succeed(t, r, SaidOf(r))
             /\ explained' = [explained EXCEPT ![x] = TRUE]
        ELSE /\ IF x \in Bundled
                THEN task' = [task EXCEPT ![t] = [r EXCEPT !.step = "bundling"]]
                ELSE Asks(t, r, "fetching")
             /\ UNCHANGED <<report, explained, availableUpdates>>

\* workbench.extensions.installExtension has installed version v.
Installed(t, v) ==
    LET r == task[t]
    IN  /\ installed' = [installed EXCEPT ![r.ext] = v]
        /\ explained' = [explained EXCEPT ![r.ext] = FALSE]
        /\ Succeed(t, r, SaidOf(r))

-----------------------------------------------------------------------------
(* The steps of a command *)

\* installFromBundle; if it fails, installFromGitHub.
InstallFromBundle(t) ==
    /\ task[t].step = "bundling"
    /\ \/ Installed(t, BundledVersion)
       \/ Asks(t, task[t], "fetching")
          /\ UNCHANGED <<installed, report, explained, availableUpdates>>
    /\ UNCHANGED <<running, github, cache, offered, quiet>>

\* installFromGitHub: the release, its asset, the download and the installation.
InstallFromGitHub(t) ==
    /\ task[t].step = "fetching"
    /\ \E v \in Release(task[t]) :
        /\ Cached(task[t], v)
        /\ \/ v # 0 /\ Installed(t, v)
           \/ Fail(t, task[t]) /\ UNCHANGED installed
    /\ UNCHANGED <<running, github, offered, quiet>>

\* uninstallExtension: the command throws for what is not on disk.
UninstallExtension(t) ==
    LET r == task[t]
        x == r.ext
    IN  /\ r.step = "uninstalling"
        /\ \/ /\ installed[x] # 0
              /\ installed' = [installed EXCEPT ![x] = 0]
              /\ explained' = [explained EXCEPT ![x] = r.kind = "uninstall"]
              /\ IF r.kind = "uninstall"
                 THEN Succeed(t, r, "uninstalled")
                 ELSE /\ task' = [task EXCEPT ![t].step = "uninstalled"]
                      /\ UNCHANGED <<report, availableUpdates>>
           \/ Fail(t, r) /\ UNCHANGED installed
        /\ UNCHANGED <<running, github, cache, offered, quiet>>

\* Faulty variant of AfterUninstall: the next extension is taken at once.
SkipInstall(t) ==
    /\ task[t].step = "uninstalled"
    /\ Succeed(t, task[t], "updated")
    /\ UNCHANGED <<explained, installed, running, github, cache, offered, quiet>>

\* updateExtension after its first await.
AfterUninstall(t) ==
    /\ task[t].step = "uninstalled"
    /\ InstallExtension(t, task[t])
    /\ UNCHANGED <<installed, running, github, cache, offered, quiet>>

\* The command has taken extension x of its list.
Taken(t, x) == [task[t] EXCEPT !.ext = x, !.todo = @ \ {x}]

TakeToUpdate(t, x) == LET r == Taken(t, x) IN
    /\ r.kind \in Updating
    /\ task' = [task EXCEPT ![t] = [r EXCEPT !.step = "uninstalling"]]
    /\ UNCHANGED <<report, explained, availableUpdates, offered>>

\* install, installBundledExtensions, and installAllRequired, which passes over
\* what the registry has.
TakeToInstall(t, x) == LET r == Taken(t, x) IN
    /\ r.kind \in {"install", "setup", "installAllRequired"}
    /\ IF r.kind = "installAllRequired" /\ running[x] # 0
       THEN Continue(t, r) /\ UNCHANGED <<report, explained, availableUpdates>>
       ELSE InstallExtension(t, r)
    /\ UNCHANGED offered

\* checkForUpdatesInBackground sets the entry of x.
Offer(x, v) ==
    /\ availableUpdates' = [availableUpdates EXCEPT ![x] = v]
    /\ offered' = IF v = 0 THEN offered ELSE offered \cup {x}

\* checkSingleExtensionUpdate and checkForUpdates: the version that runs is
\* read, the former looks at the bundle, and GitHub is asked.
TakeToCheck(t, x) == LET r == Taken(t, x) IN
    /\ r.kind \in {"check", "checkAll"}
    /\ IF r.kind = "check" /\ x \in Bundled /\ running[x] \in 1..(BundledVersion - 1)
       THEN Offer(x, BundledVersion) /\ Continue(t, r)
       ELSE /\ IF running[x] = 0
               THEN Continue(t, r)
               ELSE Asks(t, [r EXCEPT !.found[x] = running[x]], "checking")
            /\ UNCHANGED <<availableUpdates, offered>>
    /\ UNCHANGED <<report, explained>>

TakeExtension(t) == \E x \in task[t].todo :
    /\ task[t].step = "next"
    /\ TakeToUpdate(t, x) \/ TakeToInstall(t, x) \/ TakeToCheck(t, x)
    /\ UNCHANGED <<installed, running, github, cache, quiet>>

\* The answer is compared with the version read before the request.
CheckReply(t) ==
    LET r == task[t]
        x == r.ext
        News(v) == IF v > r.found[x] THEN v ELSE 0
    IN  /\ r.step = "checking"
        /\ \E v \in Release(r) :
            /\ Cached(r, v)
            /\ IF r.kind = "check"
               THEN Offer(x, News(v)) /\ Continue(t, [r EXCEPT !.found = None])
               ELSE /\ Continue(t, [r EXCEPT !.found[x] = News(v)])
                    /\ UNCHANGED <<availableUpdates, offered>>
        /\ UNCHANGED <<installed, running, github, report, explained, quiet>>

-----------------------------------------------------------------------------
(* The user, the registry, GitHub *)

Start(t, r) ==
    /\ t # Setup /\ task[t] = Idle
    /\ task' = [task EXCEPT ![t] = r]
    /\ quiet' = FALSE
    /\ UNCHANGED <<installed, running, github, cache, availableUpdates, offered, explained>>

\* siidMarketplace.install, uninstall and update: the view the user clicks on
\* is not refreshed by every change, and names the bundled version.
Command(t, x) ==
    LET r == [NewTask("none", {}, None) EXCEPT !.ext = x]
    IN  /\ \/ Start(t, [r EXCEPT !.kind = "install", !.todo = {x}])
           \/ Start(t, [r EXCEPT !.kind = "uninstall", !.step = "uninstalling"])
           \/ /\ x \in offered
              /\ Start(t, [r EXCEPT !.kind = "update", !.step = "uninstalling",
                             !.found[x] = IF x \in Bundled THEN BundledVersion ELSE 0])
        /\ report' = [report EXCEPT ![x] = "none"]

\* siidMarketplace.checkUpdates, installAllRequired, updateAll, and the button
\* of the update notification: updateAllAvailable.
CommandForAll(t) ==
    LET updates == {x \in Extension : availableUpdates[x] # 0}
    IN  /\ \/ Start(t, NewTask("check", Extension, None))
           \/ Start(t, NewTask("checkAll", Extension, None))
           \/ Required # {} /\ Start(t, NewTask("installAllRequired", Required, None))
           \/ updates # {} /\ Start(t, NewTask("updateAllAvailable", updates, availableUpdates))
        /\ report' = [x \in Extension |-> "none"]

\* The extension host's registry learns of a removal or an addition.
DeltaExtensions(x) ==
    /\ running[x] # installed[x]
    /\ running[x] = 0 \/ installed[x] = 0
    /\ running' = [running EXCEPT ![x] = installed[x]]
    /\ UNCHANGED <<installed, github, cache, availableUpdates, offered, task,
                   report, explained, quiet>>

\* The window is reloaded or the program started anew: commands and caches are
\* gone, and the setup starts.
Restart ==
    /\ running' = installed
    /\ cache' = None
    /\ availableUpdates' = None
    /\ offered' = {}
    /\ task' = [t \in Task |-> IF t = Setup THEN SetupTask(installed) ELSE Idle]
    /\ report' = [x \in Extension |-> "none"]
    /\ explained' = [x \in Extension |-> TRUE]
    /\ quiet' = TRUE
    /\ UNCHANGED <<installed, github>>

Publish(x) ==
    /\ github[x] < MaxVersion
    /\ github' = [github EXCEPT ![x] = @ + 1]
    /\ UNCHANGED <<installed, running, cache, availableUpdates, offered, task,
                   report, explained, quiet>>

Next ==
    \/ \E t \in Task :
        \/ TakeExtension(t)
        \/ CheckReply(t)
        \/ UninstallExtension(t)
        \/ AfterUninstall(t)
        \/ InstallFromBundle(t)
        \/ InstallFromGitHub(t)
        \/ CommandForAll(t)
        \/ \E x \in Extension : Command(t, x)
    \/ \E x \in Extension : DeltaExtensions(x) \/ Publish(x)
    \/ Restart

Spec == Init /\ [][Next]_vars

-----------------------------------------------------------------------------
(* Properties *)

TypeOK ==
    /\ installed \in [Extension -> Version]
    /\ running \in [Extension -> Version]
    /\ github \in [Extension -> Version]
    /\ cache \in [Extension -> Version]
    /\ availableUpdates \in [Extension -> Version]
    /\ offered \subseteq Extension
    /\ task \in [Task -> TaskState]
    /\ report \in [Extension -> {"none", "installed", "updated", "uninstalled", "failed"}]
    /\ explained \in [Extension -> BOOLEAN]
    /\ quiet \in BOOLEAN

BusyWith(x) == \E t \in Task :
    task[t].ext = x /\ task[t].step \in {"uninstalled", "bundling", "fetching"}

\* An extension an update has taken from the disk comes back, or a command still
\* works on it, or the user was told of a failure: commands that interleave on
\* the same extension do not lose it between them.  (An update that takes a stale
\* registry's word for it counts as told here; that it is not is UpdateReinstalls.)
LossIsReported ==
    \A x \in Extension : installed[x] = 0 => explained[x] \/ BusyWith(x)

\* The setup repairs what an interrupted update left uninstalled: once it has
\* ended, every bundled extension is on disk or its failure was told.
SetupRestores ==
    quiet /\ task[Setup] = Idle
    => \A x \in Bundled : installed[x] # 0 \/ report[x] = "failed"

Reports(x) == report[x] # "updated" /\ report'[x] = "updated"

\* "updated successfully!" is said of an extension that is installed.
UpdateReinstalls == [][\A x \in Extension : Reports(x) => installed'[x] # 0]_vars
=============================================================================
