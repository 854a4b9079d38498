----------------------------- MODULE AppInstall -----------------------------
(***************************************************************************)
(* The applications and catalogs that "ocne cluster start" installs once   *)
(* the cluster is up, and "ocne application update --built-in-catalog":    *)
(* src/pkg/commands/cluster/start/start.go,                                *)
(* src/pkg/commands/application/install, src/pkg/util/backoff.go and the   *)
(* parts of src/pkg/helm/helmcli.go that they call.  A command goes        *)
(* through WaitForSerial, so the functors of Waiter are installations      *)
(* here.                                                                   *)
(*                                                                         *)
(* Applications are numbered in the order they are given: the built-in     *)
(* ones first, then those of the cluster configuration.  Catalogs are      *)
(* numbered too; the community catalog is the last.                        *)
(***************************************************************************)
EXTENDS Waiter

CONSTANTS
    NumBuiltIn,    \* 1 .. NumBuiltIn are built in, the others are configured
    Unnamed,       \* applications given without a release name
    Unplaced,      \* applications given without a namespace
    Elsewhere,     \* names of releases that another namespace has as well
    NumCatalogs,   \* catalogs in the cluster configuration
    Community,     \* values of communityCatalog in the cluster configuration
    MaxCommands,   \* bound on the commands run one after another
    Faults,        \* TRUE: calls to the cluster may fail and commands be killed
    ListFaults     \* with TRUE: so may listing the releases

Apps == Waiters
BuiltIn == 1 .. NumBuiltIn
Configured == Apps \ BuiltIn
Catalogs == 1 .. NumCatalogs
CommunityCatalog == NumCatalogs + 1

ASSUME AppAssumption ==
    /\ NumBuiltIn \in 0 .. N
    /\ Unnamed \subseteq Configured /\ Unplaced \subseteq Configured
    /\ Elsewhere \subseteq Apps
    /\ NumCatalogs \in Nat /\ MaxCommands \in Nat
    /\ Faults \in BOOLEAN
    /\ Community \subseteq BOOLEAN /\ ListFaults \subseteq BOOLEAN

VARIABLES
    release,    \* the status of each application's last revision in helm
    services,   \* the catalogs that have a service in the cluster
    cmd,        \* how far the command is
    update,     \* TRUE: UpdateApplications, FALSE: InstallApplications
    releases,   \* what getAllReleases returned to the command
    toAdd,      \* the catalogs the command has still to add
    functor,    \* how far the functor that runs is
    expired,    \* LinearRetry: its ten seconds are over
    result,     \* what the last command returned
    commands,   \* how many commands were run
    community,  \* communityCatalog, the same for every start of the cluster
    flaky       \* whether listing the releases may fail in this behaviour

settings == <<community, flaky>>
appVars == <<settings, release, services, cmd, update, releases, toAdd, functor, expired, result,
             commands>>
vars == <<waiterVars, appVars>>

TypeOK ==
    /\ WaiterTypeOK
    /\ release \in [Apps -> {"none", "pending", "failed", "deployed"}]
    /\ services \subseteq Catalogs \cup {CommunityCatalog}
    /\ cmd \in {"idle", "list", "builtIn", "catalogs", "add", "configured", "update"}
    /\ update \in BOOLEAN
    /\ releases \subseteq Apps
    /\ toAdd \subseteq Catalogs \cup {CommunityCatalog}
    /\ functor \in {"none", "search", "check", "prepare", "attempt", "helm", "retry"}
    /\ expired \in BOOLEAN
    /\ result \in {"none", "started", "updated", "error", "killed"}
    /\ commands \in 0 .. MaxCommands

Init ==
    /\ WaiterInit
    /\ mode = "WaitForSerial"
    /\ asked = {}
    /\ release = [a \in Apps |-> "none"]
    /\ services = {}
    /\ cmd = "idle"
    /\ update = FALSE
    /\ releases = {}
    /\ toAdd = {}
    /\ functor = "none"
    /\ expired = FALSE
    /\ result = "none"
    /\ commands = 0
    /\ community \in Community
    /\ flaky \in ListFaults

\* WaitForSerial is called with new waiters, one for each application of S.
waitForSerial(S) ==
    /\ mode' = "WaitForSerial"
    /\ asked' = S
    /\ at' = "call"
    /\ left' = S
    /\ scan' = {}
    /\ notDone' = {}
    /\ haveError' = FALSE
    /\ run' = [a \in Apps |-> "new"]
    /\ err' = No
    /\ done' = No
    /\ Error' = No

\* The command returns; its goroutines are gone with it.
end(r) ==
    /\ cmd' = "idle"
    /\ result' = r
    /\ releases' = {}
    /\ toAdd' = {}
    /\ functor' = "none"
    /\ expired' = FALSE
    /\ waitForSerial({})
    /\ UNCHANGED <<settings, services, update, commands>>

-----------------------------------------------------------------------------
(***************************************************************************)
(* Listing the releases.  getReleases drops the error of the last of its   *)
(* tries and returns what it has, an empty list.                           *)
(***************************************************************************)
MutantListed == BOOLEAN

Listed == {TRUE} \cup IF flaky THEN {FALSE} ELSE {}

\* DoesReleaseExist(name, kubeconfig, namespace) compares the name with those
\* of all releases of all namespaces.
doesReleaseExist(a, ok) == ok /\ (release[a] # "none" \/ a \in Elsewhere)

\* getAppsToInstall compares names and namespaces: what is given without one of
\* them matches no release, which always has both, and is on every list.
matches(a) == a \in releases \ (Unnamed \cup Unplaced)

getAppsToInstall(S) == {a \in S : ~matches(a)}

BeginStart ==
    /\ cmd = "idle"
    /\ commands < MaxCommands
    /\ commands' = commands + 1
    /\ cmd' = "list"
    /\ update' = FALSE
    /\ result' = "none"
    /\ UNCHANGED <<settings, waiterVars, release, services, releases, toAdd, functor, expired>>

ListReleases ==
    /\ cmd = "list"
    /\ \E ok \in Listed : releases' = {a \in Apps : ok /\ release[a] # "none"}
    /\ cmd' = "builtIn"
    /\ waitForSerial(getAppsToInstall(BuiltIn)')
    /\ UNCHANGED <<settings, release, services, update, toAdd, functor, expired, result, commands>>

BuiltInDone ==
    /\ cmd = "builtIn"
    /\ at = "returned"
    /\ ~haveError
    /\ cmd' = "catalogs"
    /\ UNCHANGED <<settings, waiterVars, release, services, update, releases, toAdd, functor, expired,
                   result, commands>>

(***************************************************************************)
(* getCatalogsToAdd, then one Service for each of them.  Asking for the    *)
(* community catalog puts all configured ones back on the list.            *)
(***************************************************************************)
MutantGetCatalogsToAdd == Catalogs

getCatalogsToAdd ==
    IF community THEN Catalogs \cup {CommunityCatalog} ELSE Catalogs \ services

CatalogsToAdd ==
    /\ cmd = "catalogs"
    /\ toAdd' = getCatalogsToAdd
    /\ cmd' = "add"
    /\ UNCHANGED <<settings, waiterVars, release, services, update, releases, functor, expired, result,
                   commands>>

\* The API server refuses to create a Service that is there.
AddCatalog ==
    /\ cmd = "add"
    /\ \E c \in toAdd :
         /\ \A d \in toAdd : c <= d
         /\ c \notin services
         /\ services' = services \cup {c}
         /\ toAdd' = toAdd \ {c}
    /\ UNCHANGED <<settings, waiterVars, release, cmd, update, releases, functor, expired, result, commands>>

AddCatalogRefused ==
    /\ cmd = "add"
    /\ \E c \in toAdd : (\A d \in toAdd : c <= d) /\ c \in services
    /\ end("error")
    /\ UNCHANGED release

\* The list of releases is still the one from before the built-in ones.
CatalogsAdded ==
    /\ cmd = "add"
    /\ toAdd = {}
    /\ cmd' = "configured"
    /\ waitForSerial(getAppsToInstall(Configured))
    /\ UNCHANGED <<settings, release, services, update, releases, toAdd, functor, expired, result, commands>>

Started ==
    /\ cmd = "configured"
    /\ at = "returned"
    /\ ~haveError
    /\ end("started")
    /\ UNCHANGED release

\* UpdateApplications is called for one built-in application, whose release
\* the caller has found.
BeginUpdate(a) ==
    /\ cmd = "idle"
    /\ release[a] # "none"
    /\ commands < MaxCommands
    /\ commands' = commands + 1
    /\ cmd' = "update"
    /\ update' = TRUE
    /\ result' = "none"
    /\ waitForSerial({a})
    /\ UNCHANGED <<settings, release, services, releases, toAdd, functor, expired>>

Updated ==
    /\ cmd = "update"
    /\ at = "returned"
    /\ ~haveError
    /\ end("updated")
    /\ UNCHANGED release

\* "Could not install all applications".
NotInstalled ==
    /\ cmd \in {"builtIn", "configured", "update"}
    /\ at = "returned"
    /\ haveError
    /\ end("error")
    /\ UNCHANGED release

\* A call to the cluster fails between two calls of InstallApplications.
CommandFails ==
    /\ Faults
    /\ cmd \in {"list", "catalogs", "add"}
    /\ end("error")
    /\ UNCHANGED release

-----------------------------------------------------------------------------
(***************************************************************************)
(* WaitForSerial and its goroutines.                                       *)
(***************************************************************************)
Waits ==
    /\ cmd \in {"builtIn", "configured", "update"}
    /\ \/ Begin
       \/ Return
       \/ Poll
       \/ NoTerminal /\ Faults
       \/ \E a \in Apps : Publish(a)
    /\ UNCHANGED appVars

StartFunctor ==
    /\ StartFirst
    /\ functor' = "search"
    /\ UNCHANGED <<settings, release, services, cmd, update, releases, toAdd, expired, result, commands>>

-----------------------------------------------------------------------------
(***************************************************************************)
(* The functor: installOrUpdateApplication.                                *)
(***************************************************************************)
otherVars == <<settings, services, cmd, update, releases, toAdd, result, commands>>

step(s) == functor' = s /\ UNCHANGED <<waiterVars, otherVars>>

returns(a, e) ==
    /\ FunctorReturns(a, e)
    /\ functor' = "none"
    /\ expired' = FALSE
    /\ UNCHANGED otherVars

Search(a) ==
    /\ run[a] = "running"
    /\ functor = "search"
    /\ step("check")
    /\ UNCHANGED <<release, expired>>

\* Without a release name nothing is found, and Install looks again.
found(a, ok) == a \notin Unnamed /\ doesReleaseExist(a, ok)

Skip(a) ==
    /\ functor = "check"
    /\ ~update
    /\ \E ok \in Listed : found(a, ok)
    /\ returns(a, FALSE)
    /\ UNCHANGED release

GoOn(a) ==
    /\ run[a] = "running"
    /\ functor = "check"
    /\ update \/ \E ok \in Listed : ~found(a, ok)
    /\ step("prepare")
    /\ UNCHANGED <<release, expired>>

\* The kube client, the namespace and PreInstall; whether the namespace
\* could be created is not looked at.
Prepare(a) ==
    /\ run[a] = "running"
    /\ functor = "prepare"
    /\ step("attempt")
    /\ expired' = FALSE
    /\ UNCHANGED release

FunctorFails(a) ==
    /\ Faults
    /\ functor \in {"search", "prepare"}
    /\ returns(a, TRUE)
    /\ UNCHANGED release

(***************************************************************************)
(* Install, as LinearRetry calls it.  helm upgrades a deployed release,    *)
(* and installs one that is missing or that failed; it refuses a name that *)
(* is in another state.  An application without a release name takes the   *)
(* name of its chart, and must not exist.                                  *)
(***************************************************************************)
nameTaken(a, ok) == a \in Unnamed /\ doesReleaseExist(a, ok)

Install(a) ==
    /\ run[a] = "running"
    /\ functor = "attempt"
    /\ release[a] # "pending"
    /\ \E ok \in Listed : ~nameTaken(a, ok)
    /\ release' = [release EXCEPT ![a] = "pending"]
    /\ step("helm")
    /\ UNCHANGED expired

InstallFails(a) ==
    /\ run[a] = "running"
    /\ functor = "attempt"
    /\ \/ Faults
       \/ release[a] = "pending"
       \/ \E ok \in Listed : nameTaken(a, ok)
    /\ step("retry")
    /\ UNCHANGED <<release, expired>>

HelmSucceeds(a) ==
    /\ functor = "helm"
    /\ returns(a, FALSE)
    /\ release' = [release EXCEPT ![a] = "deployed"]

\* helm marks the release failed, if it still can.
HelmFails(a) ==
    /\ Faults
    /\ run[a] = "running"
    /\ functor = "helm"
    /\ \E s \in {"failed", "pending"} : release' = [release EXCEPT ![a] = s]
    /\ step("retry")
    /\ UNCHANGED expired

Retry(a) ==
    /\ run[a] = "running"
    /\ functor = "retry"
    /\ ~expired
    /\ step("attempt")
    /\ UNCHANGED <<release, expired>>

MutantGiveUp(a) ==
    /\ functor = "retry"
    /\ expired
    /\ returns(a, FALSE)
    /\ UNCHANGED release

GiveUp(a) ==
    /\ functor = "retry"
    /\ expired
    /\ returns(a, TRUE)
    /\ UNCHANGED release

\* Time passes.
MutantExpire ==
    /\ functor = "helm"
    /\ ~expired
    /\ expired' = TRUE
    /\ UNCHANGED <<waiterVars, otherVars, release, functor>>

Expire ==
    /\ functor \in {"attempt", "helm", "retry"}
    /\ ~expired
    /\ expired' = TRUE
    /\ UNCHANGED <<waiterVars, otherVars, release, functor>>

Kill ==
    /\ Faults
    /\ cmd # "idle"
    /\ end("killed")
    /\ UNCHANGED release

Functor(a) ==
    \/ Search(a) \/ Skip(a) \/ GoOn(a) \/ Prepare(a) \/ FunctorFails(a)
    \/ Install(a) \/ InstallFails(a) \/ HelmSucceeds(a) \/ HelmFails(a)
    \/ Retry(a) \/ GiveUp(a)

Process ==
    \/ ListReleases \/ BuiltInDone \/ CatalogsToAdd \/ AddCatalog \/ AddCatalogRefused
    \/ CatalogsAdded \/ Started \/ Updated \/ NotInstalled \/ CommandFails
    \/ Waits \/ StartFunctor
    \/ \E a \in Apps : Functor(a)

Next ==
    \/ BeginStart
    \/ \E a \in BuiltIn : BeginUpdate(a)
    \/ Process
    \/ Expire
    \/ Kill

\* A running command goes on, the API server answers it, and time passes.
Fairness == WF_vars(Process) /\ WF_vars(Expire)

Spec == Init /\ [][Next]_vars /\ Fairness

-----------------------------------------------------------------------------
(***************************************************************************)
(* A start that returns no error leaves a release of every application,    *)
(* built in or configured, however many errors were dropped, retried and   *)
(* collected on the way and wherever earlier commands were killed.         *)
(***************************************************************************)
StartedHasReleases == result = "started" => \A a \in Apps : release[a] # "none"

(***************************************************************************)
(* The first start of a cluster leaves every release deployed, with every  *)
(* retry, dropped error and unnamed application.  A later one passes over  *)
(* a release whose installation failed, because every status counts as     *)
(* installed.                                                              *)
(***************************************************************************)
FirstStartDeploys ==
    (commands = 1 /\ result = "started") => \A a \in Apps : release[a] = "deployed"

(***************************************************************************)
(* UpdateApplications returns no error only when helm deployed the         *)
(* application.                                                            *)
(***************************************************************************)
UpdateDeploys ==
    result' = "updated" /\ result = "none" => \A a \in asked : release'[a] = "deployed"

(***************************************************************************)
(* A start touches a configured application only when every built-in one,  *)
(* the CNI and the catalog it comes from among them, has a release.        *)
(***************************************************************************)
ConfiguredAfterBuiltIn ==
    cmd = "configured" /\ release' # release => \A a \in BuiltIn : release[a] # "none"

(***************************************************************************)
(* A start leaves an application alone that is deployed already, unless    *)
(* the releases could not be listed.                                       *)
(***************************************************************************)
StartKeepsDeployed ==
    ~update /\ ~flaky => \A a \in Apps : release[a] = "deployed" => release'[a] = "deployed"

(***************************************************************************)
(* getAppsToInstall returns applications that are not installed, if the    *)
(* releases could be listed: one that is deployed is on the list only when *)
(* it was given without a release name or without a namespace.  Of these   *)
(* only one without a name gets as far as helm again, because              *)
(* DoesReleaseExist compares the name alone.                               *)
(***************************************************************************)
OnlyMissingApps ==
    ~flaky /\ cmd \in {"builtIn", "configured"} =>
        /\ at = "call" => \A a \in asked \ (Unnamed \cup Unplaced) : release[a] # "deployed"
        /\ functor \in {"prepare", "attempt", "helm", "retry"} =>
             \A a \in Apps \ Unnamed : run[a] = "running" => release[a] # "deployed"

(***************************************************************************)
(* getCatalogsToAdd returns catalogs that have no Service: a start is      *)
(* never refused one that it has made before, unless the configuration     *)
(* asks for the community catalog.                                         *)
(***************************************************************************)
OnlyMissingCatalogs == ~community /\ cmd = "add" => toAdd \cap services = {}

(***************************************************************************)
(* Every command returns: retries end, and WaitForSerial notices the end   *)
(* of every functor.                                                       *)
(***************************************************************************)
CommandsReturn == (cmd # "idle") ~> (cmd = "idle")

(***************************************************************************)
(* Why a start that succeeds has its releases: a functor returns no error  *)
(* only after it has seen or made the release, releases are never removed, *)
(* and an application is left off both lists only when its release was     *)
(* seen.  It rests on names being unique in the cluster: Elsewhere = {}.   *)
(***************************************************************************)
FunctorInv ==
    /\ mode = "WaitForSerial"
    /\ \A a \in asked : run[a] \in {"ended", "published"} /\ ~err[a] => release[a] # "none"
    /\ functor = "helm" => \A a \in Apps : run[a] = "running" => release[a] = "pending"

CommandInv ==
    /\ \A a \in releases : release[a] # "none"
    /\ cmd = "builtIn" => asked = getAppsToInstall(BuiltIn)
    /\ cmd = "configured" => asked = getAppsToInstall(Configured)
    /\ cmd \in {"catalogs", "add", "configured"} => \A a \in BuiltIn : release[a] # "none"

AppInv == TypeOK /\ WaiterInv /\ FunctorInv /\ CommandInv /\ StartedHasReleases

(***************************************************************************)
(* The strengthening behind StartsWhatIsMissing and ReleaseSteps.  An      *)
(* application that was not seen when the releases were listed, and whose  *)
(* functor has not run since, has no release, if it was the first command  *)
(* or the list could not fail.                                             *)
(***************************************************************************)
fresh(a) ==
    \/ cmd = "builtIn" /\ run[a] = "new"
    \/ cmd \in {"catalogs", "add"} /\ a \in Configured
    \/ cmd = "configured" /\ a \in Configured /\ run[a] = "new"

SeenInv ==
    /\ at \in {"next", "poll"} => cmd \in {"builtIn", "configured", "update"}
    /\ cmd # "idle" => (update <=> cmd = "update") /\ result = "none"
    /\ commands = 0 \/ (commands = 1 /\ cmd = "list") => \A a \in Apps : release[a] = "none"
    /\ commands = 0 => cmd = "idle"
    /\ commands = 1 => ~update /\ releases = {}
    /\ ~flaky \/ commands = 1 => \A a \in Apps \ releases : fresh(a) => release[a] = "none"

\* A functor of an update, or of the first command, returns no error only
\* after helm deployed its application; and a start installs nothing over a
\* deployed application that has a name.
DeployInv ==
    /\ cmd = "update" \/ commands = 1 =>
         \A a \in asked : run[a] \in {"ended", "published"} /\ ~err[a] => release[a] = "deployed"
    /\ commands = 1 /\ functor \in {"search", "check"} =>
         \A a \in Apps : run[a] = "running" => release[a] = "none"
    /\ commands = 1 /\ cmd \in {"catalogs", "add", "configured"} =>
         \A a \in BuiltIn : release[a] = "deployed"
    /\ ~update /\ ~flaky /\ functor \in {"prepare", "attempt", "helm", "retry"} =>
         \A a \in Apps \ Unnamed : run[a] = "running" => release[a] # "deployed"

StartInv == AppInv /\ SeenInv /\ DeployInv /\ FirstStartDeploys /\ OnlyMissingCatalogs

(***************************************************************************)
(* A start asks for what is missing and only for that, and the first start *)
(* ends with all of it deployed.                                           *)
(***************************************************************************)
StartsWhatIsMissing == FirstStartDeploys /\ OnlyMissingApps /\ OnlyMissingCatalogs

(***************************************************************************)
(* What a step of installOrUpdateApplication may do to a release: deploy   *)
(* the one that an update names before it returns, leave deployed ones to  *)
(* a start alone, and keep the order of built-in and configured ones.      *)
(***************************************************************************)
ReleaseSteps == [][UpdateDeploys /\ ConfiguredAfterBuiltIn /\ StartKeepsDeployed]_vars
=============================================================================
