----------------------------- MODULE CapiDriver -----------------------------
(***************************************************************************)
(* Clusters on OCI and OLVM: the Cluster API drivers of                    *)
(* src/pkg/cluster/driver/{oci,olvm}, as cluster start and cluster delete  *)
(* run them.  A driver finds or starts a bootstrap cluster, installs the   *)
(* Cluster API controllers there, applies the objects that describe the    *)
(* new cluster, and, for a self-managed cluster, moves these objects into  *)
(* the cluster itself and removes the bootstrap cluster again.             *)
(*                                                                         *)
(* Every cluster runs one command at a time; commands on different         *)
(* clusters share the ephemeral bootstrap cluster, which has one name for  *)
(* everybody (EphemeralConfig.Name).                                       *)
(***************************************************************************)
EXTENDS FiniteSets

CONSTANTS
    Clusters,
    Resources,      \* the objects of a bundle of Cluster API resources
    Cases           \* the configurations and circumstances that are considered,
                    \* as pairs: see conf and world

ASSUME CapiAssumption ==
    /\ Resources # {}
    /\ Clusters \cap {"ephemeral", "admin"} = {}
    /\ Cases \subseteq
           [Clusters -> [provider : {"oci", "olvm"}, given : BOOLEAN,
                         ociSelf : BOOLEAN, olvmSelf : BOOLEAN]]
           \X [orderly : BOOLEAN, faults : BOOLEAN, preserve : BOOLEAN]

VARIABLES
    ephemeral,      \* whether the ephemeral cluster exists
    capi,           \* [p]: the controllers that run in the cluster p
    held,           \* [c][p]: the objects of c in its bootstrap cluster and in itself
    infra,          \* the clusters whose machines run
    deleting,       \* the clusters whose Cluster object has a deletion timestamp
    creds,          \* the clusters whose OLVM credentials are in the bootstrap cluster
    kubeconfig,     \* the clusters whose kubeconfig file was written
    cached,         \* the clusters in the cluster cache
    cmd,            \* the command that runs on a cluster
    phase,          \* how far it is
    todo,           \* the objects it still has to apply
    status,         \* observer: how the last command on a cluster ended
    conf,           \* the configuration of every cluster, chosen once
    world           \* chosen once: commands come one at a time and in order
                    \* (orderly), calls fail and processes are killed (faults),
                    \* the ephemeral cluster is preserved by configuration

clusterVars == <<ephemeral, capi, held, infra, deleting, creds, kubeconfig, cached>>
procVars == <<cmd, phase, todo, status>>
settings == <<conf, world>>
vars == <<clusterVars, procVars, settings>>

Phases == {"idle",
           "ensure", "capi",                                        \* CreateDriver
           "prepare", "secrets", "apply", "kubeconfig", "nodes", "workload",  \* Start
           "register",                                  \* the rest of cluster start
           "post", "move", "moved", "close", "closeAgain", "failed",
           "pivot", "back", "movedBack", "remove", "await", "cleanup"}    \* Delete
Commands == {"start", "delete"}
Statuses == {"new", "started", "deleted", "failed", "killed"}
Places == {"boot", "self"}

olvm(c) == conf[c].provider = "olvm"

\* PostStart pivots when the driver's own provider says self-managed ...
selfManaged(c) == IF olvm(c) THEN conf[c].olvmSelf ELSE conf[c].ociSelf

\* ... while Delete and Close of both drivers ask the OCI provider.
pivotsBack(c) == conf[c].ociSelf

\* Where EnsureCluster finds the bootstrap cluster.
bootstrap(c) == IF conf[c].given THEN "admin" ELSE "ephemeral"

Sites == {"ephemeral", "admin"} \cup Clusters
Controllers == {"core", "oci", "olvm"}

\* The core controllers, and those of the provider.
getApplications(c) == {"core", conf[c].provider}

Init ==
    /\ ephemeral = FALSE
    /\ capi = [p \in Sites |-> {}]
    /\ held = [c \in Clusters |-> [p \in Places |-> {}]]
    /\ infra = {} /\ deleting = {} /\ creds = {} /\ kubeconfig = {} /\ cached = {}
    /\ cmd = [c \in Clusters |-> "start"]
    /\ phase = [c \in Clusters |-> "idle"]
    /\ todo = [c \in Clusters |-> {}]
    /\ status = [c \in Clusters |-> "new"]
    /\ \E case \in Cases : conf = case[1] /\ world = case[2]

step(c, from, to) ==
    /\ phase[c] = from
    /\ phase' = [phase EXCEPT ![c] = to]
    /\ UNCHANGED <<cmd, settings>>

end(c, s) == status' = [status EXCEPT ![c] = s]

others == UNCHANGED <<todo, status>>

-----------------------------------------------------------------------------
(* The commands, and CreateDriver, with which both begin.                   *)

mayBegin(c, command) ==
    /\ phase[c] = "idle"
    /\ world.orderly =>
           /\ \A d \in Clusters : phase[d] = "idle"
           /\ command = "start" => status[c] \in {"new", "deleted"}
           /\ command = "delete" => status[c] = "started"

Begin(c, command) ==
    /\ mayBegin(c, command)
    /\ cmd' = [cmd EXCEPT ![c] = command]
    /\ phase' = [phase EXCEPT ![c] = "ensure"]
    /\ UNCHANGED <<clusterVars, todo, status, settings>>

\* A given kubeconfig names the bootstrap cluster; otherwise the ephemeral
\* cluster is started, or found running.
EnsureCluster(c) ==
    /\ step(c, "ensure", "capi")
    /\ ephemeral' = (ephemeral \/ ~conf[c].given)
    /\ others
    /\ UNCHANGED <<capi, held, infra, deleting, creds, kubeconfig, cached>>

alive(c) == conf[c].given \/ ephemeral

\* The deployments of the controllers are available.
waitForControllers(c, p) == getApplications(c) \subseteq capi[p]

\* The bootstrap cluster answers and knows the kinds of the driver.
ready(c) == waitForControllers(c, bootstrap(c))

InstallCapi(c) ==
    /\ alive(c)
    /\ step(c, "capi", IF cmd[c] = "start" THEN "prepare" ELSE "pivot")
    /\ capi' = [capi EXCEPT ![bootstrap(c)] = @ \cup getApplications(c)]
    /\ others
    /\ UNCHANGED <<ephemeral, held, infra, deleting, creds, kubeconfig, cached>>

-----------------------------------------------------------------------------
(* Start                                                                    *)

\* Images, template, validation, the Cluster object and its namespace.
Prepare(c) ==
    /\ ready(c) /\ ~olvm(c)
    /\ step(c, "prepare", "apply")
    /\ todo' = [todo EXCEPT ![c] = Resources]
    /\ UNCHANGED <<clusterVars, status>>

\* The same without images, which OLVM has as templates.
PrepareOlvm(c) ==
    /\ ready(c) /\ olvm(c)
    /\ step(c, "prepare", "secrets")
    /\ todo' = [todo EXCEPT ![c] = Resources]
    /\ UNCHANGED <<clusterVars, status>>

\* The OLVM credentials and certificates are deleted and created anew.
CreateRequiredResources(c) ==
    /\ ready(c)
    /\ step(c, "secrets", "apply")
    /\ creds' = creds \cup {c}
    /\ others
    /\ UNCHANGED <<ephemeral, capi, held, infra, deleting, kubeconfig, cached>>

\* An object that exists stays as it is.  A create that answers "not found"
\* counts as done.
ApplyResource(c) ==
    /\ ready(c)
    /\ \E r \in todo[c] :
        /\ todo' = [todo EXCEPT ![c] = @ \ {r}]
        /\ \/ held' = [held EXCEPT ![c]["boot"] = @ \cup {r}]
           \/ world.faults /\ UNCHANGED held
        /\ step(c, "apply", IF todo[c] = {r} THEN "kubeconfig" ELSE "apply")
    /\ UNCHANGED <<ephemeral, capi, infra, deleting, creds, kubeconfig, cached, status>>

\* The controllers publish the kubeconfig of a cluster once it has machines.
published(c) == ready(c) /\ held[c]["boot"] = Resources /\ c \in infra

WaitForKubeconfig(c) ==
    /\ published(c)
    /\ step(c, "kubeconfig", "nodes")
    /\ kubeconfig' = kubeconfig \cup {c}
    /\ others
    /\ UNCHANGED <<ephemeral, capi, held, infra, deleting, creds, cached>>

\* The Cluster is found in the bootstrap cluster.
found(c) == ready(c) /\ held[c]["boot"] # {}

\* For OCI, the network of the cluster is read from its OCICluster.
getOciCcmOptions(c) == olvm(c) \/ found(c)

WaitForNodes(c) ==
    /\ c \in infra /\ getOciCcmOptions(c)
    /\ step(c, "nodes", "workload")
    /\ others /\ UNCHANGED clusterVars

\* The cloud controller manager, with two secrets in the new cluster.
InstallWorkloadApps(c) ==
    /\ c \in infra /\ ~olvm(c)
    /\ step(c, "workload", "register")
    /\ others /\ UNCHANGED clusterVars

\* The CSI driver, if it is asked for, with its secret and config map.
InstallWorkloadAppsOlvm(c) ==
    /\ c \in infra /\ olvm(c)
    /\ step(c, "workload", "register")
    /\ others /\ UNCHANGED clusterVars

\* Start of cluster start: Add to the cache, which refuses a second entry,
\* then the applications of the cluster.
Register(c) ==
    /\ c \in infra
    /\ step(c, "register", IF c \in cached THEN "failed" ELSE "post")
    /\ cached' = cached \cup {c}
    /\ others
    /\ UNCHANGED <<ephemeral, capi, held, infra, deleting, creds, kubeconfig>>

\* PostStart: without self-management there is nothing left to do; otherwise
\* the controllers are installed into the new cluster.
PostStart(c) ==
    /\ c \in infra
    /\ step(c, "post", IF selfManaged(c) THEN "move" ELSE "close")
    /\ capi' = IF selfManaged(c) THEN [capi EXCEPT ![c] = @ \cup getApplications(c)] ELSE capi
    /\ others
    /\ UNCHANGED <<ephemeral, held, infra, deleting, creds, kubeconfig, cached>>

\* clusterctl refuses to move objects whose machines are in flux.
movable(c, p) == held[c][p] = {} \/ c \in infra

MutantMoveCopies(c) ==
    /\ ready(c) /\ waitForControllers(c, c) /\ movable(c, "boot")
    /\ step(c, "move", "moved")
    /\ others /\ UNCHANGED clusterVars

\* clusterctl move, first half: the objects are created on the other side.
MoveCopies(c) ==
    /\ ready(c) /\ waitForControllers(c, c) /\ movable(c, "boot")
    /\ step(c, "move", "moved")
    /\ held' = [held EXCEPT ![c]["self"] = @ \cup held[c]["boot"]]
    /\ others
    /\ UNCHANGED <<ephemeral, capi, infra, deleting, creds, kubeconfig, cached>>

MutantMoveDeletes(c) ==
    /\ ready(c)
    /\ step(c, "moved", "close")
    /\ others /\ UNCHANGED clusterVars

\* clusterctl move, second half: they are deleted where they were.
MoveDeletes(c) ==
    /\ ready(c)
    /\ step(c, "moved", "close")
    /\ held' = [held EXCEPT ![c]["boot"] = {}]
    /\ others
    /\ UNCHANGED <<ephemeral, capi, infra, deleting, creds, kubeconfig, cached>>

\* What the target or the source of a move answers.
moveRefused(c) == ~ready(c) \/ ~waitForControllers(c, c)

\* PostStart of the OCI driver drops the error of a move, and takes a client
\* that cannot be made for a move that is done.
MoveFails(c) ==
    /\ ~olvm(c)
    /\ phase[c] \in {"move", "moved"}
    /\ world.faults \/ moveRefused(c)
    /\ step(c, phase[c], "close")
    /\ others /\ UNCHANGED clusterVars

\* The OLVM driver returns the error, and does not wait for machines in flux.
MoveFailsOlvm(c) ==
    /\ olvm(c)
    /\ phase[c] \in {"move", "moved"}
    /\ \/ world.faults \/ moveRefused(c)
       \/ phase[c] = "move" /\ ~movable(c, "boot")
    /\ step(c, phase[c], "failed")
    /\ others /\ UNCHANGED clusterVars

\* A client that cannot be made is a success here too.
MoveSkippedOlvm(c) ==
    /\ olvm(c) /\ world.faults
    /\ step(c, "move", "close")
    /\ others /\ UNCHANGED clusterVars

\* StopEphemeralCluster deletes the libvirt cluster and everything in it.
StopEphemeralCluster ==
    /\ ephemeral' = FALSE
    /\ capi' = [capi EXCEPT !["ephemeral"] = {}]
    /\ held' = [c \in Clusters |->
                    IF conf[c].given THEN held[c] ELSE [held[c] EXCEPT !["boot"] = {}]]
    /\ deleting' = {c \in deleting : conf[c].given}
    /\ creds' = {c \in creds : conf[c].given}

stops(c) == ~conf[c].given /\ pivotsBack(c) /\ ~world.preserve

\* Close after PostStart, and once more when Start returns; its errors are
\* dropped.  After an error it only runs deferred.
Close(c) ==
    /\ phase[c] \in {"close", "closeAgain", "failed"}
    /\ step(c, phase[c], IF phase[c] = "close" THEN "closeAgain" ELSE "idle")
    /\ CASE phase[c] = "close" -> UNCHANGED status
         [] phase[c] = "closeAgain" -> end(c, "started")
         [] phase[c] = "failed" -> end(c, "failed")
    /\ \/ stops(c) /\ StopEphemeralCluster
       \/ (stops(c) => world.faults) /\ UNCHANGED <<ephemeral, capi, held, deleting, creds>>
    /\ UNCHANGED <<infra, kubeconfig, cached, todo>>

-----------------------------------------------------------------------------
(* Delete                                                                   *)

\* The OCI driver moves the objects back when it finds the cluster's
\* kubeconfig and, with it, the Cluster object; any error means no.
Pivot(c) ==
    /\ ~olvm(c)
    /\ LET inside == c \in kubeconfig /\ c \in infra /\ held[c]["self"] # {} IN
       \/ pivotsBack(c) /\ inside /\ step(c, "pivot", "back")
       \/ (~pivotsBack(c) \/ ~inside \/ world.faults) /\ step(c, "pivot", "remove")
    /\ others /\ UNCHANGED clusterVars

\* The OLVM driver does so without looking.
PivotOlvm(c) ==
    /\ olvm(c)
    /\ step(c, "pivot", IF pivotsBack(c) THEN "back" ELSE "remove")
    /\ others /\ UNCHANGED clusterVars

MutantBackCopies(c) ==
    /\ ready(c) /\ c \in infra /\ c \in kubeconfig /\ movable(c, "self")
    /\ step(c, "back", "movedBack")
    /\ held' = [held EXCEPT ![c]["self"] = {}]
    /\ others
    /\ UNCHANGED <<ephemeral, capi, infra, deleting, creds, kubeconfig, cached>>

BackCopies(c) ==
    /\ ready(c) /\ c \in infra /\ c \in kubeconfig /\ movable(c, "self")
    /\ step(c, "back", "movedBack")
    /\ held' = [held EXCEPT ![c]["boot"] = @ \cup held[c]["self"]]
    /\ others
    /\ UNCHANGED <<ephemeral, capi, infra, deleting, creds, kubeconfig, cached>>

BackDeletes(c) ==
    /\ c \in infra
    /\ step(c, "movedBack", "remove")
    /\ held' = [held EXCEPT ![c]["self"] = {}]
    /\ others
    /\ UNCHANGED <<ephemeral, capi, infra, deleting, creds, kubeconfig, cached>>

\* A client that cannot be made: OCI goes on as if it had moved the objects,
BackSkipped(c) ==
    /\ world.faults /\ ~olvm(c)
    /\ step(c, "back", "remove")
    /\ others /\ UNCHANGED clusterVars

\* OLVM returns nil from Delete.
BackSkippedOlvm(c) ==
    /\ world.faults /\ olvm(c)
    /\ step(c, "back", "idle")
    /\ end(c, "deleted")
    /\ cached' = cached \ {c}
    /\ UNCHANGED <<ephemeral, capi, held, infra, deleting, creds, kubeconfig, todo>>

\* DeleteResourceByIdentifier: the Cluster has to be in the bootstrap cluster.
DeleteResource(c) ==
    /\ found(c)
    /\ step(c, "remove", "await")
    /\ deleting' = deleting \cup {c}
    /\ others
    /\ UNCHANGED <<ephemeral, capi, held, infra, creds, kubeconfig, cached>>

\* The Cluster is no longer found.
WaitForClusterDeletion(c) ==
    /\ ready(c) /\ held[c]["boot"] = {}
    /\ step(c, "await", "cleanup")
    /\ others /\ UNCHANGED clusterVars

\* The command removes the cluster from the cache;
Cleanup(c) ==
    /\ ~olvm(c)
    /\ step(c, "cleanup", "idle")
    /\ cached' = cached \ {c}
    /\ end(c, "deleted")
    /\ UNCHANGED <<ephemeral, capi, held, infra, deleting, creds, kubeconfig, todo>>

\* OLVM first removes the kubeconfig and the credentials.
CleanupOlvm(c) ==
    /\ olvm(c) /\ alive(c)
    /\ step(c, "cleanup", "idle")
    /\ kubeconfig' = kubeconfig \ {c}
    /\ creds' = creds \ {c}
    /\ cached' = cached \ {c}
    /\ end(c, "deleted")
    /\ UNCHANGED <<ephemeral, capi, held, infra, deleting, todo>>

-----------------------------------------------------------------------------
(* Errors, kills and the controllers                                        *)

waits(c) == phase[c] \in {"kubeconfig", "await"}

\* The call cannot succeed: nothing answers, or the object is not there.
hopeless(c) ==
    \/ phase[c] = "capi" /\ ~alive(c)
    \/ phase[c] \in {"prepare", "secrets", "apply"} /\ ~ready(c)
    \/ phase[c] = "nodes" /\ ~getOciCcmOptions(c)
    \/ phase[c] \in {"nodes", "workload", "register", "post", "back", "movedBack"} /\ c \notin infra
    \/ phase[c] = "back" /\ ~(ready(c) /\ c \in kubeconfig)
    \/ phase[c] = "remove" /\ ~found(c)
    \/ phase[c] = "cleanup" /\ olvm(c) /\ ~alive(c)

\* An error of CreateDriver or Delete ends the command; one of Start and
\* PostStart also closes the driver.
fail(c) ==
    /\ phase[c] \notin {"idle", "close", "closeAgain", "failed", "move", "moved"}
    /\ IF cmd[c] = "start" /\ phase[c] \notin {"ensure", "capi"}
       THEN step(c, phase[c], "failed") /\ UNCHANGED status
       ELSE step(c, phase[c], "idle") /\ end(c, "failed")
    /\ UNCHANGED <<clusterVars, todo>>

\* Both waits end after twenty minutes.
MutantFails(c) == ~waits(c) /\ hopeless(c) /\ fail(c)

Fails(c) == (hopeless(c) \/ (waits(c) /\ (~world.orderly \/ world.faults))) /\ fail(c)

Fault(c) == world.faults /\ fail(c)

Kill(c) ==
    /\ world.faults
    /\ phase[c] # "idle"
    /\ step(c, phase[c], "idle")
    /\ end(c, "killed")
    /\ UNCHANGED <<clusterVars, todo>>

\* The controllers make the machines of a complete bundle ...
Provision(c) ==
    /\ c \notin infra /\ c \notin deleting
    /\ ready(c) /\ held[c]["boot"] = Resources
    /\ infra' = infra \cup {c}
    /\ UNCHANGED <<ephemeral, capi, held, deleting, creds, kubeconfig, cached, procVars, settings>>

\* ... and take down the machines of a deleted cluster, which ends whatever
\* ran in it, before they let its objects go.
Reap(c) ==
    /\ c \in deleting /\ ready(c)
    /\ infra' = infra \ {c}
    /\ deleting' = deleting \ {c}
    /\ held' = [held EXCEPT ![c] = [p \in Places |-> {}]]
    /\ capi' = [capi EXCEPT ![c] = {}]
    /\ UNCHANGED <<ephemeral, creds, kubeconfig, cached, procVars, settings>>

Starts(c) ==
    \/ EnsureCluster(c) \/ InstallCapi(c)
    \/ Prepare(c) \/ PrepareOlvm(c) \/ CreateRequiredResources(c) \/ ApplyResource(c)
    \/ WaitForKubeconfig(c) \/ WaitForNodes(c)
    \/ InstallWorkloadApps(c) \/ InstallWorkloadAppsOlvm(c) \/ Register(c)
    \/ PostStart(c) \/ MoveCopies(c) \/ MoveDeletes(c)
    \/ MoveFails(c) \/ MoveFailsOlvm(c) \/ MoveSkippedOlvm(c) \/ Close(c)

Deletes(c) ==
    \/ Pivot(c) \/ PivotOlvm(c) \/ BackCopies(c) \/ BackDeletes(c)
    \/ BackSkipped(c) \/ BackSkippedOlvm(c)
    \/ DeleteResource(c) \/ WaitForClusterDeletion(c) \/ Cleanup(c) \/ CleanupOlvm(c)

Works(c) == Starts(c) \/ Deletes(c) \/ Fails(c)

Next ==
    \E c \in Clusters :
        \/ \E command \in Commands : Begin(c, command)
        \/ Works(c)
        \/ Fault(c) \/ Kill(c)
        \/ Provision(c) \/ Reap(c)

\* A step that no fault is needed for.
Carries(c) ==
    /\ Works(c)
    /\ phase[c] \in {"move", "moved"} =>
           \/ MoveCopies(c) \/ MoveDeletes(c) \/ moveRefused(c)
           \/ olvm(c) /\ ~movable(c, "boot")
    /\ phase[c] = "back" => BackCopies(c) \/ hopeless(c)

\* A process that runs goes on, and so do the controllers.
Fairness == \A c \in Clusters : WF_vars(Carries(c)) /\ WF_vars(Provision(c)) /\ WF_vars(Reap(c))

Spec == Init /\ [][Next]_vars /\ Fairness
-----------------------------------------------------------------------------
(* Properties                                                               *)

\* The state of the driver and of the clusters it deals with has its types;
\* controllers run in the ephemeral cluster only while it exists.
CapiInv ==
    /\ ephemeral \in BOOLEAN
    /\ capi \in [Sites -> SUBSET Controllers]
    /\ held \in [Clusters -> [Places -> SUBSET Resources]]
    /\ infra \subseteq Clusters /\ deleting \subseteq Clusters /\ creds \subseteq Clusters
    /\ kubeconfig \subseteq Clusters /\ cached \subseteq Clusters
    /\ cmd \in [Clusters -> Commands]
    /\ phase \in [Clusters -> Phases]
    /\ todo \in [Clusters -> SUBSET Resources]
    /\ status \in [Clusters -> Statuses]
    /\ <<conf, world>> \in Cases
    /\ capi["ephemeral"] # {} => ephemeral
    /\ \A c \in Clusters : held[c]["boot"] # {} => ready(c)

custodians(c) == {p \in Places : held[c][p] # {}}

\* Nobody can remove the bootstrap cluster of another command: it is kept, or
\* it was given.
bootstrapKept == world.preserve \/ \A c \in Clusters : conf[c].given

\* One command at a time, without errors, and every cluster that uses the
\* ephemeral cluster is moved out of it by its own start.
pivotsInOrder ==
    /\ world.orderly /\ ~world.faults
    /\ \A c \in Clusters : conf[c].given \/ (pivotsBack(c) => selfManaged(c))
    /\ \A c \in Clusters : stops(c) => \A d \in Clusters : conf[d].given \/ selfManaged(d)

\* PostStart and Close: as long as the machines of a cluster run, its Cluster
\* API objects are in some management cluster: whatever fails, if the
\* bootstrap cluster is never removed; and without failures, if all clusters
\* that use the ephemeral one are self-managed.
MachinesManaged == (bootstrapKept \/ pivotsInOrder) => \A c \in infra : custodians(c) # {}

\* What makes that inductive.  A move deletes only what it has copied; and
\* when commands come in order, the cluster whose command runs has the
\* bootstrap cluster for itself, and no cluster depends on the ephemeral one
\* when it is removed.
moveInv(c) ==
    /\ c \in infra => custodians(c) # {}
    /\ phase[c] = "moved" => held[c]["boot"] \subseteq held[c]["self"]
    /\ phase[c] = "movedBack" => held[c]["self"] \subseteq held[c]["boot"]

untouched(c) ==
    held[c]["boot"] = {} /\ held[c]["self"] = {} /\ c \notin infra /\ c \notin deleting
fresh(c) == status[c] \in {"new", "deleted"}
running(c) == c \in infra /\ c \in kubeconfig

DeletePhases == {"pivot", "back", "movedBack", "remove", "await", "cleanup"}
oneAtATime == \A c, d \in Clusters : phase[c] # "idle" /\ phase[d] # "idle" => c = d

orderInv(c) ==
    /\ phase[c] # "failed" /\ status[c] # "killed"
    /\ status[c] = "failed" => phase[c] = "idle" /\ held[c]["boot"] = {}
    /\ phase[c] # "idle" => (fresh(c) <=> cmd[c] = "start")
    /\ phase[c] \in DeletePhases => ~fresh(c)
    /\ phase[c] \notin {"idle", "ensure", "capi"} \cup DeletePhases => fresh(c)
    /\ fresh(c) => c \notin deleting
    /\ fresh(c) /\ phase[c] \in {"idle", "ensure", "capi", "prepare"} => untouched(c)
    /\ fresh(c) /\ phase[c] \notin {"post", "move", "moved", "close", "closeAgain"} => c \notin cached
    /\ phase[c] = "capi" => alive(c)
    /\ phase[c] \notin {"idle", "ensure", "capi", "close", "closeAgain"} => ready(c)
    /\ phase[c] \in {"nodes", "workload", "register", "post", "move", "moved", "close", "closeAgain"} => running(c)
    /\ phase[c] = "nodes" => held[c]["boot"] # {}
    /\ phase[c] \in {"move", "moved"} => selfManaged(c) /\ waitForControllers(c, c)
    /\ phase[c] \in {"close", "closeAgain"} /\ selfManaged(c) => held[c]["boot"] = {}
    /\ phase[c] = "idle" /\ status[c] = "started" /\ selfManaged(c) => held[c]["boot"] = {}
    /\ status[c] = "started" /\ phase[c] \in {"idle", "ensure", "capi", "pivot", "back", "movedBack"}
           => running(c) /\ c \notin deleting
    /\ phase[c] = "await" => untouched(c) \/ (c \in deleting /\ held[c]["boot"] # {})
    /\ phase[c] = "cleanup" => untouched(c)

\* Whatever the driver does to the objects of a cluster, while the bootstrap
\* cluster is kept or commands come in order: moves and Close lose nothing.
CustodyInv ==
    /\ bootstrapKept \/ pivotsInOrder => \A c \in Clusters : moveInv(c)
    /\ pivotsInOrder => oneAtATime /\ \A c \in Clusters : orderInv(c)

\* Start and PostStart: a start that succeeds leaves machines that run and a
\* kubeconfig; without failures the objects are in one place only, where the
\* controllers run, and that is the cluster itself if it is self-managed.
StartedIsManaged ==
    \A c \in Clusters :
        (status[c] = "started" /\ phase[c] = "idle") =>
            /\ world.orderly => c \in infra /\ c \in kubeconfig
            /\ pivotsInOrder =>
                   /\ custodians(c) = {IF selfManaged(c) THEN "self" ELSE "boot"}
                   /\ waitForControllers(c, IF selfManaged(c) THEN c ELSE bootstrap(c))

\* Delete: a delete that succeeds has taken down the machines and every
\* object, unless the client for the move could not be made (OLVM) or a
\* command removed the bootstrap cluster meanwhile.
DeletedIsGone ==
    \A c \in Clusters :
        (/\ status[c] = "deleted" /\ phase[c] = "idle"
         /\ world.orderly \/ bootstrapKept
         /\ olvm(c) => ~world.faults) => c \notin infra /\ custodians(c) = {}

\* Delete and Close: without failures, commands that come in order succeed,
\* for every cluster whose two self-managed settings agree.
OrderlySucceeds ==
    (pivotsInOrder /\ \A c \in Clusters : selfManaged(c) = pivotsBack(c)) =>
        \A c \in Clusters : status[c] # "failed"

\* What makes that inductive.  Nothing comes back after a delete that has seen
\* the cluster gone ...
goneInv(c) ==
    /\ phase[c] = "await" => untouched(c) \/ (c \in deleting /\ held[c]["boot"] # {})
    /\ phase[c] = "cleanup" => untouched(c)
    /\ phase[c] = "idle" /\ status[c] = "deleted" /\ (olvm(c) => ~world.faults) => untouched(c)

\* ... the order of the commands tells what there is between them, also after
\* failures ...
turnInv(c) ==
    /\ phase[c] # "idle" => IF cmd[c] = "start" THEN fresh(c) ELSE status[c] = "started"
    /\ phase[c] \in DeletePhases => cmd[c] = "delete"
    /\ phase[c] \notin {"idle", "ensure", "capi"} \cup DeletePhases => cmd[c] = "start"
    /\ fresh(c) => c \notin deleting
    /\ phase[c] \in {"nodes", "workload", "register", "post", "move", "moved", "close", "closeAgain"} => running(c)
    /\ status[c] = "started" /\ phase[c] \in {"idle", "ensure", "capi", "pivot", "back", "movedBack"}
           => running(c) /\ c \notin deleting

\* ... and without failures, where the objects and their controllers are.
placeInv(c) ==
    /\ ~selfManaged(c) => held[c]["self"] = {}
    /\ selfManaged(c) /\ (phase[c] \in {"close", "closeAgain"} \/ (status[c] = "started" /\ phase[c] = "idle"))
           => waitForControllers(c, c)
    /\ phase[c] = "remove" => c \notin deleting
    /\ selfManaged(c) = pivotsBack(c) =>
           /\ status[c] # "failed"
           /\ phase[c] \in {"movedBack", "remove"} => held[c]["boot"] # {}

\* Start and Delete: what a command that returned no error relies on.
SuccessInv ==
    /\ world.orderly \/ bootstrapKept => \A c \in Clusters : goneInv(c)
    /\ world.orderly => oneAtATime /\ \A c \in Clusters : turnInv(c)
    /\ pivotsInOrder => \A c \in Clusters : placeInv(c)

\* Every command ends: the waits time out, and the move, which is repeated
\* without a limit, only waits for machines that are there.
CommandsEnd == \A c \in Clusters : phase[c] # "idle" ~> phase[c] = "idle"

\* The drivers implement the abstract custody of the objects while the
\* bootstrap cluster is kept or every cluster pivots in order.
custody == INSTANCE Custody WITH
    holders <- [c \in Clusters |-> custodians(c)],
    machines <- infra
KeepsCustody ==
    custody!Init /\ [][custody!Next \/ ~(bootstrapKept \/ pivotsInOrder)]_(custody!custodyVars)

\* Start and Delete report success only for what they have done, and without
\* failures they do report it.
SuccessMeans == StartedIsManaged /\ DeletedIsGone /\ OrderlySucceeds
=============================================================================
