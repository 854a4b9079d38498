---------------------------- MODULE NodeUpgrade ----------------------------
(***************************************************************************)
(* Updating the nodes of a cluster in place: "ocne cluster stage"          *)
(* (src/pkg/commands/cluster/stage) and "ocne node update"                 *)
(* (src/pkg/commands/node/update), the scripts they run on the nodes, the  *)
(* update service of each node (external: it belongs to the OS image) and  *)
(* the reboots and failures of nodes in between.  Versions are Kubernetes  *)
(* minor versions; a patch of the same minor is an update that leaves the  *)
(* minor as it is.                                                         *)
(*                                                                         *)
(* Each command decides from a list of the nodes that it fetched when it   *)
(* began and acts on the nodes minutes later.                              *)
(***************************************************************************)
EXTENDS Integers

CONSTANTS
    Procs,          \* ocne processes
    Nodes,
    ControlPlane,   \* the control plane nodes; the others are workers
    Start,          \* the version of the cluster at the beginning
    MaxVersion,     \* bound: the highest version of the catalog
    NoJob,          \* the process runs no command
    NoList,         \* the process has no list of nodes
    Overlap,        \* TRUE: several commands may run at the same time
    Hasty,          \* TRUE: a command may begin before an updated node reports
                    \*       its new version
    Forced,         \* TRUE: node update is also used with --force
    PartialStage,   \* TRUE: the stage script may fail after it changed the tag
    NodeFailures    \* TRUE: nodes also go down by themselves

Workers == Nodes \ ControlPlane
Versions == Start .. MaxVersion

Jobs == [kind : {"stage"}, version : Versions]
            \cup [kind : {"update"}, node : Nodes, force : {FALSE, Forced}]

Lists == [kubelet : [Nodes -> Int], annotated : SUBSET Nodes, ready : SUBSET Nodes]

ASSUME UpgradeAssumption ==
    /\ ControlPlane \subseteq Nodes
    /\ ControlPlane # {}
    /\ Start \in Nat /\ MaxVersion \in Nat
    /\ NoJob \notin Jobs
    /\ NoList \notin Lists
    /\ Overlap \in BOOLEAN /\ Hasty \in BOOLEAN /\ Forced \in BOOLEAN
    /\ PartialStage \in BOOLEAN /\ NodeFailures \in BOOLEAN

VARIABLES
    kubelet,      \* the version each node reports
    deployed,     \* the version it boots next
    pulled,       \* the version of the image its update service pulled last
    tag,          \* the tag in its /etc/ocne/update.yaml
    annotated,    \* the nodes annotated with update-available
    cordoned,     \* the nodes that are not schedulable
    loaded,       \* the nodes that may run pods a drain would evict
    up,           \* the nodes that run
    ready,        \* the nodes whose status is Ready at the API server
    rebooting,    \* the nodes whose update script has scheduled the reboot
    early,        \* observer: those whose update uncordoned them before that
    config,       \* kubernetesVersion in the kubeadm-config map
    job,          \* the command of each process
    phase,        \* how far it is
    list,         \* the node list it fetched
    todo          \* stage: the nodes left to stage, and those staged

podVars == <<cordoned, loaded, early>>
nodeVars == <<kubelet, deployed, pulled, tag, annotated, up, ready, rebooting, config, podVars>>
procVars == <<job, phase, list, todo>>
upgradeVars == <<kubelet, deployed, pulled, tag, annotated, up, ready, rebooting, config,
          cordoned, loaded, early, job, phase, list, todo>>

Phases == {"idle", "list", "check", "staging", "prepare", "drain", "evict", "script", "wait",
           "uncordon"}

UpgradeTypeOK ==
    /\ kubelet \in [Nodes -> Int]
    /\ deployed \in [Nodes -> Int]
    /\ pulled \in [Nodes -> Int]
    /\ tag \in [Nodes -> Int]
    /\ annotated \subseteq Nodes
    /\ cordoned \subseteq Nodes
    /\ loaded \subseteq Nodes
    /\ early \subseteq Nodes
    /\ up \subseteq Nodes
    /\ ready \subseteq Nodes
    /\ rebooting \subseteq Nodes
    /\ config \in Int
    /\ job \in [Procs -> Jobs \cup {NoJob}]
    /\ phase \in [Procs -> Phases]
    /\ list \in [Procs -> Lists \cup {NoList}]
    /\ todo \in [Procs -> [left : SUBSET Nodes, staged : BOOLEAN]]

NothingToDo == [left |-> {}, staged |-> FALSE]

UpgradeInit ==
    /\ kubelet = [n \in Nodes |-> Start]
    /\ deployed = [n \in Nodes |-> Start]
    /\ pulled = [n \in Nodes |-> Start]
    /\ tag = [n \in Nodes |-> Start]
    /\ annotated = {}
    /\ cordoned = {}
    /\ loaded = Nodes
    /\ early = {}
    /\ up = Nodes
    /\ ready = Nodes
    /\ rebooting = {}
    /\ config = Start
    /\ job = [p \in Procs |-> NoJob]
    /\ phase = [p \in Procs |-> "idle"]
    /\ list = [p \in Procs |-> NoList]
    /\ todo = [p \in Procs |-> NothingToDo]

advance(p, s) == phase' = [phase EXCEPT ![p] = s]

\* The command returns, with or without an error.
finish(p) ==
    /\ advance(p, "idle")
    /\ job' = [job EXCEPT ![p] = NoJob]
    /\ list' = [list EXCEPT ![p] = NoList]
    /\ todo' = [todo EXCEPT ![p] = NothingToDo]

target(p) == job[p].node
idle == \A p \in Procs : phase[p] = "idle"
\* Every node reports the version that was deployed to it.
settled == \A n \in Nodes : kubelet[n] = deployed[n] /\ n \notin rebooting

-----------------------------------------------------------------------------
(***************************************************************************)
(* What happens on the nodes by itself.                                    *)
(***************************************************************************)

\* The update service pulls the image of the configured tag, or a new patch
\* of it, and annotates the node.  The update script stops the service.
ServicePulls(n) ==
    /\ n \in up
    /\ n \notin rebooting
    /\ pulled' = [pulled EXCEPT ![n] = tag[n]]
    /\ annotated' = annotated \cup {n}
    /\ UNCHANGED <<kubelet, deployed, tag, up, ready, rebooting, config, podVars, procVars>>

\* The reboot that the update script scheduled, or a failure of the node.
GoesDown(n) ==
    /\ n \in up
    /\ n \in rebooting \/ NodeFailures
    /\ up' = up \ {n}
    /\ rebooting' = rebooting \ {n}
    /\ early' = early \ {n}
    /\ UNCHANGED <<kubelet, deployed, pulled, tag, annotated, cordoned, loaded, ready, config,
                   procVars>>

\* The API server notices only after a while that the node is gone.
LeaseExpires(n) ==
    /\ n \notin up
    /\ n \in ready
    /\ ready' = ready \ {n}
    /\ UNCHANGED <<kubelet, deployed, pulled, tag, annotated, up, rebooting, config, podVars, procVars>>

\* The node boots what was deployed last.
Boots(n) ==
    /\ n \notin up
    /\ up' = up \cup {n}
    /\ ready' = ready \cup {n}
    /\ kubelet' = [kubelet EXCEPT ![n] = deployed[n]]
    /\ UNCHANGED <<deployed, pulled, tag, annotated, rebooting, config, podVars, procVars>>

\* The scheduler puts a pod on a node.
Schedules(n) ==
    /\ n \in ready \ cordoned
    /\ loaded' = loaded \cup {n}
    /\ UNCHANGED <<kubelet, deployed, pulled, tag, annotated, cordoned, up, ready, rebooting, early,
                   config, procVars>>

-----------------------------------------------------------------------------
(***************************************************************************)
(* Both commands: begin, list the nodes, fail.                             *)
(***************************************************************************)

Issue(p, j) ==
    /\ phase[p] = "idle"
    /\ Overlap \/ idle
    /\ Hasty \/ settled
    /\ job' = [job EXCEPT ![p] = j]
    /\ advance(p, "list")
    /\ UNCHANGED <<nodeVars, list, todo>>

GetNodeList(p) ==
    /\ phase[p] = "list"
    /\ list' = [list EXCEPT ![p] = [kubelet |-> kubelet, annotated |-> annotated, ready |-> ready]]
    /\ advance(p, "check")
    /\ UNCHANGED <<nodeVars, job, todo>>

\* Some call returns an error, runs into its timeout, or the process is
\* killed: what was done so far stays.
Fails(p) ==
    /\ phase[p] # "idle"
    /\ finish(p)
    /\ UNCHANGED nodeVars

-----------------------------------------------------------------------------
(***************************************************************************)
(* cluster stage.                                                          *)
(***************************************************************************)

listed(p) == {list[p].kubelet[n] : n \in Nodes}

\* stageNodeClusterCheck: all nodes within one minor version of each other.
WithinOneMinor(minors) == \A a, b \in minors : a <= b + 1

\* stageNodeVersionCheck: the version of all nodes or the next one, and with
\* two versions in the cluster the larger one.
MutantMayStage(minors, v) == v \in minors \/ (v - 1) \in minors

MayStage(minors, v) ==
    \/ minors = {v}
    \/ minors = {v - 1}
    \/ minors = {v - 1, v}

StageCheck(p) ==
    /\ phase[p] = "check"
    /\ job[p].kind = "stage"
    /\ IF WithinOneMinor(listed(p)) /\ MayStage(listed(p), job[p].version)
       THEN /\ advance(p, "staging")
            /\ todo' = [todo EXCEPT ![p] = [left |-> list[p].ready, staged |-> FALSE]]
            /\ list' = [list EXCEPT ![p] = NoList]
            /\ UNCHANGED job
       ELSE finish(p)
    /\ UNCHANGED nodeVars

\* The stage script: set the tag, stop the update service, drop the
\* annotation, start the service.  It never finds the node staged already:
\* it looks for update.yaml in the root directory.
StageNode(p, n) ==
    /\ phase[p] = "staging"
    /\ n \in todo[p].left
    /\ n \in up
    /\ tag' = [tag EXCEPT ![n] = job[p].version]
    /\ annotated' = annotated \ {n}
    /\ todo' = [todo EXCEPT ![p] = [left |-> @.left \ {n}, staged |-> TRUE]]
    /\ UNCHANGED <<kubelet, deployed, pulled, up, ready, rebooting, config, podVars,
                   job, phase, list>>

\* A node that cannot be staged is skipped.  The script sets the tag first: it
\* may have done that when it fails.
tagsLeft(p, n) ==
    IF PartialStage /\ n \in up THEN {tag[n], job[p].version} ELSE {tag[n]}

StageNodeFails(p, n) ==
    /\ phase[p] = "staging"
    /\ n \in todo[p].left
    /\ todo' = [todo EXCEPT ![p] = [left |-> @.left \ {n}, staged |-> @.staged]]
    /\ \E v \in tagsLeft(p, n) : tag' = [tag EXCEPT ![n] = v]
    /\ UNCHANGED <<kubelet, deployed, pulled, annotated, up, ready, rebooting, config, podVars,
                   job, phase, list>>

\* One staged node is enough to change the version in kubeadm-config.
StageConfig(p) ==
    /\ phase[p] = "staging"
    /\ todo[p].left = {}
    /\ config' = IF todo[p].staged THEN job[p].version ELSE config
    /\ finish(p)
    /\ UNCHANGED <<kubelet, deployed, pulled, tag, annotated, up, ready, rebooting, podVars>>

-----------------------------------------------------------------------------
(***************************************************************************)
(* node update.                                                            *)
(***************************************************************************)

\* areControlPlaneNodesAcceptable: a worker may be updated when no control
\* plane node of the list has an update available and none of them is behind
\* the tag that the worker has now.
MutantAcceptable(p) == TRUE

Acceptable(p) ==
    \/ target(p) \in ControlPlane
    \/ \A c \in ControlPlane :
        /\ c \notin list[p].annotated
        /\ tag[target(p)] <= list[p].kubelet[c]

UpdateCheck(p) ==
    /\ phase[p] = "check"
    /\ job[p].kind = "update"
    /\ IF Acceptable(p)
       THEN /\ advance(p, "prepare")
            /\ list' = [list EXCEPT ![p] = NoList]
            /\ UNCHANGED <<job, todo>>
       ELSE finish(p)
    /\ UNCHANGED nodeVars

\* prepareNode: the availability is looked up afresh.  The only node of a
\* cluster is not drained; every other one is, whether or not it is cordoned.
MutantPrepareUpdate(p) ==
    /\ phase[p] = "prepare"
    /\ IF job[p].force \/ target(p) \in annotated
       THEN /\ advance(p, IF Nodes = {target(p)} \/ target(p) \in cordoned
                          THEN "script" ELSE "drain")
            /\ UNCHANGED <<job, list, todo>>
       ELSE finish(p)
    /\ UNCHANGED nodeVars

PrepareUpdate(p) ==
    /\ phase[p] = "prepare"
    /\ IF job[p].force \/ target(p) \in annotated
       THEN /\ advance(p, IF Nodes = {target(p)} THEN "script" ELSE "drain")
            /\ UNCHANGED <<job, list, todo>>
       ELSE finish(p)
    /\ UNCHANGED nodeVars

\* kubectl drain cordons the node and then evicts its pods, which may fail or
\* be cut off: the cordon is left behind, and so are pods.
Cordon(p) ==
    /\ phase[p] = "drain"
    /\ cordoned' = cordoned \cup {target(p)}
    /\ advance(p, "evict")
    /\ UNCHANGED <<kubelet, deployed, pulled, tag, annotated, loaded, up, ready, rebooting, early,
                   config, job, list, todo>>

Drain(p) ==
    /\ phase[p] = "evict"
    /\ loaded' = loaded \ {target(p)}
    /\ advance(p, "script")
    /\ UNCHANGED <<kubelet, deployed, pulled, tag, annotated, cordoned, up, ready, rebooting, early,
                   config, job, list, todo>>

\* The update script: deploy the pulled image, stop the update service, drop
\* the annotation, reboot in 3 seconds.  It goes on when the deployment fails.
UpdateScript(p) ==
    LET n == target(p) IN
    /\ phase[p] = "script"
    /\ n \in up
    /\ \/ deployed' = [deployed EXCEPT ![n] = pulled[n]]
       \/ deployed' = deployed
    /\ annotated' = annotated \ {n}
    /\ rebooting' = rebooting \cup {n}
    /\ advance(p, "wait")
    /\ UNCHANGED <<kubelet, pulled, tag, up, ready, config, podVars, job, list, todo>>

\* WaitUntilNodeIsReady, 5 seconds after the script.  It takes any Ready status,
\* also the one from before a reboot that is still on its way.
WaitReady(p) ==
    /\ phase[p] = "wait"
    /\ target(p) \in ready
    /\ advance(p, "uncordon")
    /\ UNCHANGED <<nodeVars, job, list, todo>>

Uncordon(p) ==
    /\ phase[p] = "uncordon"
    /\ cordoned' = cordoned \ {target(p)}
    /\ early' = early \cup ({target(p)} \cap rebooting)
    /\ finish(p)
    /\ UNCHANGED <<kubelet, deployed, pulled, tag, annotated, loaded, up, ready, rebooting, config>>

-----------------------------------------------------------------------------
Command(p) ==
    \/ GetNodeList(p) \/ StageCheck(p) \/ StageConfig(p)
    \/ \E n \in Nodes : StageNode(p, n) \/ StageNodeFails(p, n)
    \/ UpdateCheck(p) \/ PrepareUpdate(p) \/ Cordon(p) \/ Drain(p)
    \/ UpdateScript(p) \/ WaitReady(p) \/ Uncordon(p)

UpgradeNext ==
    \/ \E p \in Procs : Command(p) \/ Fails(p) \/ \E j \in Jobs : Issue(p, j)
    \/ \E n \in Nodes : ServicePulls(n) \/ GoesDown(n) \/ LeaseExpires(n) \/ Boots(n) \/ Schedules(n)

UpgradeSpec == UpgradeInit /\ [][UpgradeNext]_upgradeVars

-----------------------------------------------------------------------------
(***************************************************************************)
(* Properties.                                                             *)
(***************************************************************************)

\* "if a worker node was running 1.27, and the user wanted to upgrade this
\* worker node to 1.28, all of the control plane nodes must be running 1.28":
\* no worker ever runs a newer minor version than a control plane node.
WorkerNotAhead ==
    \A w \in Workers, c \in ControlPlane : kubelet[w] <= kubelet[c]

\* "all nodes within the cluster are within one minor version of each other":
\* what stage checks before it acts stays true however the updates of the
\* nodes that follow are ordered, fail or are interrupted.
SkewWithinOne ==
    \A n, m \in Nodes : kubelet[n] <= kubelet[m] + 1

\* A node never goes back to an older version, although a lower version may be
\* staged over a higher one that was pulled and not yet applied.
NoDowngrade ==
    [][\A n \in Nodes : kubelet'[n] >= kubelet[n]]_upgradeVars

\* Commands run one after the other, none begins before the nodes report the
\* versions deployed to them, none uses --force, and a stage script that fails
\* has changed nothing.
Careful == ~Overlap /\ ~Hasty /\ ~Forced /\ ~PartialStage

\* Part of UpgradeInv: neither the tag of a node nor the image it pulled is
\* older than what it runs, and an annotated node has pulled the image of its tag.
NodeInv(n) ==
    /\ kubelet[n] <= deployed[n]
    /\ deployed[n] <= tag[n]
    /\ deployed[n] <= pulled[n]
    /\ n \in annotated => pulled[n] = tag[n]

\* Part of UpgradeInv: nothing that a node may boot is more than one minor
\* version ahead of what another node runs.
PairInv(n, m) ==
    /\ tag[n] <= kubelet[m] + 1
    /\ pulled[n] <= kubelet[m] + 1
    /\ n \in Workers /\ m \in ControlPlane => deployed[n] <= kubelet[m]

updating == {"prepare", "drain", "evict", "script", "wait", "uncordon"}

\* Part of UpgradeInv: what the command of a process relies on since it looked.
ProcInv(p) ==
    /\ phase[p] # "idle" => job[p] \in Jobs
    /\ phase[p] = "check" => /\ list[p] \in Lists
                             /\ \A n \in Nodes : list[p].kubelet[n] = kubelet[n]
    /\ phase[p] = "staging" => job[p].kind = "stage"
    /\ phase[p] \in updating => job[p].kind = "update"
    /\ phase[p] \in {"list", "check", "staging"} => settled
    /\ phase[p] = "staging" => \A n \in Nodes : /\ kubelet[n] <= job[p].version
                                                /\ job[p].version <= kubelet[n] + 1
    /\ phase[p] \in {"prepare", "drain", "evict", "script"} /\ target(p) \in Workers =>
          \A c \in ControlPlane : tag[target(p)] <= kubelet[c]
    /\ phase[p] \in {"drain", "evict", "script"} => pulled[target(p)] = tag[target(p)]

\* With careful use, the check that a command made is still true of the cluster
\* whenever it changes a node: areControlPlaneNodesAcceptable and
\* stageNodeVersionCheck are never outdated by what happens in between.
UpgradeInv ==
    /\ UpgradeTypeOK
    /\ \A n \in Nodes : NodeInv(n)
    /\ \A n, m \in Nodes : PairInv(n, m)
    /\ \A p \in Procs : ProcInv(p)
    /\ \A p, q \in Procs : phase[p] # "idle" /\ phase[q] # "idle" => p = q

\* A node with others beside it is empty when its update script schedules the
\* reboot, and stays so until it goes down: the update that reboots a node has
\* drained it itself, however many earlier ones left it cordoned and half
\* drained.  The one exception is a node that its own update uncordoned too
\* soon, taking the Ready status from before the reboot for the one after it.
RebootsDrained ==
    \A n \in rebooting : Nodes = {n} \/ n \notin loaded \/ n \in early

\* RebootsDrained with what makes it inductive: the script runs on a node that
\* its update has cordoned and emptied, and the scheduler keeps off a cordon,
\* which only the update that reboots the node takes away.
DrainInv ==
    /\ early \subseteq rebooting
    /\ \A n \in rebooting : Nodes = {n} \/ n \in cordoned \ loaded \/ n \in early
    /\ \A p \in Procs : phase[p] = "evict" => target(p) \in cordoned
    /\ \A p \in Procs : phase[p] = "script" =>
          Nodes = {target(p)} \/ target(p) \in cordoned \ loaded

\* The version skew that stage and node update have to keep between the nodes
\* of a cluster at every moment, also in the middle of an update.
SkewPolicy == WorkerNotAhead /\ SkewWithinOne
=============================================================================
