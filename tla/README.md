# Oracle Cloud Native Environment CLI: TLA+ models and proofs

`ocne` is a command line program that makes, changes and deletes Kubernetes
clusters. Each command is a process of its own; what lasts between commands is
files under `~/.ocne`, the state of a hypervisor or cloud, and the clusters
themselves. Most of what is hard to test is in what several commands, or a
command and a failure, do to that state together. The modules here model that
state and the commands statement by statement where another process, a failing
call or a kill can come between.

## 1. Inventory

| Part | State it keeps | Operations | Who else touches the state | Hard behaviour | What makes it correct |
|---|---|---|---|---|---|
| `pkg/util/pidlock` | `~/.ocne/ocne.pid` | `WaitFor`, `Drop` | all ocne processes of the user | exclusive create, timeout, kill, unchecked write | one holder; only the creator removes; `WaitFor` returns |
| `pkg/cluster/cache` | `~/.ocne/clusters.yaml` | `GetCache`, `Get`, `Add`, `Delete`, `Save` | start, delete, list, show | read and write locked separately, truncation, ignored lock error | the cache agrees with the clusters that exist |
| `pkg/cluster/driver/libvirt/net.go` | the network file | `allocateIP`, `allocatePort`, `addCluster`, `removeCluster` | start and delete | address chosen outside the lock, dropped error, truncation | ports and addresses are given once and freed |
| `pkg/cluster/driver/libvirt` | volumes, domains, kubeconfigs | `Start`, `create`, `join`, `addNode`, `Delete`, `removeNode` | commands on other clusters share the base image | a command that ends half way and is repeated | a domain has its disks; delete leaves nothing; a start is complete |
| `pkg/commands/cluster/stage`, `pkg/commands/node/update` | node annotations, `update.yaml`, deployments, cordon | `Stage`, `Update` and their scripts | the update service of the node, the kubelet, other commands | stale node list, reboot, failing nodes and scripts | version skew, order of control plane and workers |
| `pkg/util/logutils` | `Waiter` structs shared with goroutines | `WaitFor`, `WaitForSerial` | the goroutines of the functors | polling under a mutex | no lost failure, order, termination |
| `pkg/commands/cluster/start` after the driver, `pkg/commands/application/install`, `pkg/helm` | helm releases, catalog services | `InstallApplications`, `UpdateApplications`, `getAppsToInstall`, `getCatalogsToAdd` | earlier commands that failed or were killed | retries, dropped errors, names and namespaces | success means installed, and nothing twice |
| `pkg/commands/cluster/join` | nodes of two clusters, tokens, uploaded certificates, admin pods | `joinNodeToCluster` | the kubelet and `ocne.sh` on the node, other migrations | errors, kills and other migrations between token, certificates, files, script and removal | a node leaves its cluster only when it was told where to go, and arrives |
| `pkg/cluster/update` | tags on nodes, workloads and releases of an old cluster, the virtual IP | `oneThirtyAndLower`, `virtualIp` | other stage and update commands | several applications and nodes half done, errors that are counted instead of returned | a workload uses a tag only when nodes have it; a clean run settles everything |
| `pkg/util/script` | a pod and a config map per action and node | `RunScript` | other processes, the kubelet | fixed names, leftovers of killed callers | the caller's own script runs |
| `pkg/cluster/driver/{oci,olvm,capi}` | Cluster API objects in one of two clusters, bootstrap cluster, images, machine templates | start, post-start, delete, close, stage, the pivots | controllers, other clusters in the same bootstrap cluster and compartment | asynchronous reconciliation, moves half done | machines are managed somewhere; staged templates are consistent |
| `pkg/cluster/driver/byo` | kubeconfig, PKI, printed ignition | start, join, delete | the user, who boots machines with what was printed | old ignition, tokens and keys used late | nodes agree on ports; what join prints admits a machine |
| `pkg/cluster/ignition` | none | the ignition of each role, `Merge`, `Compare`, edits for an update | the drivers | parts that must agree with each other | checked through its users |
| `pkg/config`, `pkg/cmdutil` | none; the cluster cache keeps the result | layers of a configuration | an edited defaults file | precedence field by field, stale values | values come from the right layer and survive in the cache |
| `pkg/commands/image` | images in OCI, pods, archives | `UploadOci`, `EnsureImageDetails`, image create | stage and start | imports that end later | images are ready when machines use them |
| `pkg/commands/cluster/dump`, `pkg/commands/catalog/{mirror,copy}`, port forwards, `pkg/ovirt` | archives, registries, streams | long linear I/O | | partial results | not modelled, see section 6 |

`PROJECT.json` lists the same parts with their status, and the hazards at the
lines where they bite.

## 2. Modules

```
PidLock ──┬── ClusterCache           Waiter ── AppInstall
          └── LibvirtNet             NodeUpgrade
LibvirtDriver                        Configuration
RunScript ─┬─ PreUpdate              Ignition ─┬─ CapiStage
           └─ NodeJoin                         └─ ByoDriver
CapiDriver ═══ Custody
```

A line is EXTENDS: `ClusterCache` and `LibvirtNet` take the steps of the two
lock calls from `PidLock` and guard them by their own control, the functors of
`Waiter` become installations in `AppInstall`, and the scripts that `PreUpdate`
and `NodeJoin` run on nodes are calls of `RunScript`, interleaved call by call.
The double line is a refinement: `CapiDriver` implements `Custody`. `MC*` modules
add symmetry sets and the worlds for TLC. The theorems are in modules of their own:

| Theorems | About | Inductive invariants |
|---|---|---|
| `Clusters_proofs` | `PidLock`, `ClusterCache`; `Configuration` | `LockInv`, `CacheInv`; `Inv` |
| `Libvirt_proofs` | `LibvirtNet`; `LibvirtDriver` | `NetInv`, `DescribedInv`; `DriverInv`, `DeliverInv` |
| `AppsAndNodes_proofs` | `Waiter`, `AppInstall`; `NodeUpgrade` | `WaiterInv`, `AppInv`, `StartInv`; `UpgradeInv`, `DrainInv` |
| `RunScript_proofs` | lemmas about `RunScript`, for any caller | `ScriptInv` |
| `NodeJoin_proofs` | `NodeJoin` | `JoinInv`, `CleanInv` |
| `PreUpdate_proofs` | `PreUpdate` | `Control`, `Tidy`, `Images`, `HandOver`, `Settling` |
| `Drivers_proofs` | `CapiDriver` and its refinement of `Custody`; `ByoDriver`, `Ignition` | `CapiInv`, `CustodyInv`, `SuccessInv`; `Facts` |
| `CapiStage_proofs` | `CapiStage`, `Ignition` | `StoreInv` |

Where one of them is about two components it has a section for each, and the
initial state, the actions and the variables of the second component have names of
their own (`DriverInit`, `ConfigNext`, `byoVars`).

**PidLock.** `pidfile` is the file with the pid in it, `call[p]` the place of a
process in `WaitFor` or `Drop`. The pid is written after the exclusive create,
and the error of that write is not looked at. `creator` is an observer.

**ClusterCache.** `cacheFile` is `clusters.yaml` (`NilMap` while it is
truncated: what unmarshalling an empty file yields), `mem[p]` the map a process
read, `infra` the clusters that exist. `GetCache` and `Save` each take the lock,
access the file whatever `WaitFor` returned, and call `Drop`. A Start goes
`check → driver → create → recheck → save`; nothing is locked in between.
`settled` observes how commands ended that ended well while no other ran: a start
that made its cluster, one that found it running and added nothing, a delete.
`unlisted` observes the clusters that a start has made and not listed, because it
was cut off between driver and cache, or that the file lost.

**LibvirtNet.** `net` is the network file, `vm` the first node of each cluster
with its address and forwarded port, `want` what a process has chosen and `out`
what it is about to write. `AllocateIP` happens before `Lock`, everything else
between `Lock` and `Unlock`. One host.

**LibvirtDriver.** Volumes, domains and kubeconfigs of several clusters. A boot
volume remembers with which PKI it was first booted, because ignition runs once.
The pid lock is a mutex here. Commands on the same cluster run one after the
other, those on different clusters interleave; any call may fail, any process
may be killed, and the user may remove a pidfile that a killed process left.
`base` is the image all boot volumes are made from; it is `"replaced"` from when a
command deletes one that was there, which it does after a lookup that failed for
whatever reason, under the lock or, in join, without it.

**NodeUpgrade.** Per node: the version it runs, boots next, has pulled and has
as tag, the annotation, the cordon, and whether it is up and believed Ready.
`loaded` are the nodes that may run pods which a drain would evict: the scheduler
puts some on every node that is Ready and not cordoned. Cordon, eviction, script,
wait and uncordon of an update are steps of their own. The wait only reads the Ready
condition, as the code does, so an update may uncordon its node before it went
down; `early` observes these. The
update service, reboot, lease expiry and boot are actions of the node. The
constants `Overlap`, `Hasty`, `Forced` and `PartialStage` switch on what the
theorems exclude.

**Waiter.** The slice of waiters, the round of the polling loop in `WaitFor`, and
per waiter the functor's state, `done` and `Error`. A functor may take for ever.

**AppInstall.** Start from the return of the driver to its end, and
`UpdateInternalCatalog`; releases have the status helm records. Applications are
numbered in the order they are given, the configured ones after the built-in
ones. Those given without a release name (`Unnamed`) or without a namespace
(`Unplaced`) match no release when a start compares names and namespaces.

**RunScript.** `cms` and `pods` are the config map and the pod of each name, a pair
of action and node; `at[p]` is the place of a caller. The config map is mounted
when the kubelet starts the pod, so what runs is what the map held then.
`met[p]` observes that somebody else used the name meanwhile, `ran[p]` what was
executed.

**PreUpdate.** `workload` and `release` are the tags of kube-proxy, CoreDNS, Flannel
and the UI; helm records a release (`"pending"`) before it changes the workload and
records the end of it afterwards, in steps of their own. `nodes[p]` are the nodes a pre-update still has to visit, `seen[p]` the
tags as it listed them first. What a script did to a node is `applied[n]`.
Errors are counted as the code does (`haveError`, `haveSuccess`), and some do not
end the command.

**NodeJoin.** `home[n]` is the cluster the kubelet of a node belongs to, `listed`
the nodes the source lists, `tokens` and `certs` what the destination accepts.
Admin pods are a set of prefix and node. The node resets itself and joins in
steps of its own, after the command may have ended.

**CapiDriver.** `held[c][p]` is the set of Cluster API objects of cluster `c` that
the bootstrap cluster (`"boot"`) or the cluster itself (`"self"`) holds, `capi` the
controllers in each site, `infra` the clusters with machines. A pivot first
copies and then deletes, object by object is abstracted to two resources. Start,
PostStart, Delete and Close of the OCI and the OLVM driver are one machine with
the differences in `conf`. Close may delete the ephemeral cluster, with
everything in it.

**Custody.** What the drivers promise: who holds the objects of a cluster that has
machines. It has no phases, commands or failures.

**CapiStage.** The custom images of a compartment with the state of their import,
which may fail or be canceled, machine templates, which are created one by one, and what control plane and machine deployment ask for. Stage
prints patches; whether and when the user applies them is an action of the user.
A machine template that both roles use has one shape, hence one architecture. The
last section has what holds between the steps of a command, in parts that name
what they are about: `TypeInv`, `FitInv`, `ReadyInv`, `OrderInv`, `JoinInv`,
`IgnitionInv`, `LatestInv`.

**Ignition.** Operators, no state: the ignition of a first, a joining and a worker
node with the files, units and ports in which the parts have to agree, `Merge`,
and what a staged update changes. `CapiStage` and `ByoDriver` are its callers. It
has its own `:>` and `@@`, because the provers know nothing of those of `TLC`.

**ByoDriver.** The driver has no machines: it writes a kubeconfig, prints ignition
or commands to run, and the user boots machines with any of what was printed at
any time.

**Configuration.** A configuration is the set of its fields that are set, each with
the layer that set it. `start`, `stage` and `delete` compute their configuration
through `MergeConfig`, `MergeClusterConfig`, `OverlayConfig` and
`MergeEphemeralConfig`, and start puts the result into the cache.

## 3. Runs

One run per component checks all its properties. Circumstances that only some of
the properties can bear are variables chosen in the initial state and never
changed: `world` in `PidLock` and its clients (`overlap`, `faults`, `slow`) and in
the modules of the lower half of the table, `faulty` in `LibvirtDriver`,
`community` and `flaky` in `AppInstall`. A property that needs a kind world says so
in its own text, and all properties are checked of the same behaviours.

A property of a run is often the conjunction of named parts that belong to one
question; the table gives the parts in parentheses. The inductive invariants of
section 4 are not in the runs: TLAPS proves them.

| Run | Bounds | Shows |
|---|---|---|
| `cache` | 2 processes, 1 cluster, 2 configurations; overlap with and without slow holders, or one at a time with faults | `LockKept` of the pid lock (`MutualExclusion`, and only the creator removes the file); `NoTornRead` as long as no holder is slow or killed; `CacheAgrees` (`TypeOK`, and with faults as long as commands do not overlap `CachedConfigMatches` and `CommandsSettle`: a cluster is off the list only if its start was cut off, and then until it is deleted); `CommandsEnd` |
| `net` | 2 processes, 2 clusters, 2 ports, 1 address; everything goes wrong, or nothing | `PortsConsistent` always; `FileDescribesVMs` if nothing goes wrong (`VMPortsDistinct`, `RecordMatchesVM`) |
| `upgrade` | 1 control plane node, 1 worker, three versions (two upgrades), nodes and commands fail | `SkewPolicy` (`WorkerNotAhead`, `SkewWithinOne`), `NoDowngrade`, `RebootsDrained`: from the reboot command until it goes down a node is empty, unless its own update uncordons it |
| `driver` | 2 clusters of 2 nodes, 2 starts; everything goes wrong, or nothing | `HostSafe` always (`DomainHasVolumes`, `DeletedHasNoDomain`, and until the image is deleted under a running machine `OneUpload`); `FaultlessDeliver` if nothing goes wrong (`BaseImageWhole`, `StartedCompleteUnlessFaulty`, `DeletedIsGone`, `NodesShareCerts`) |
| `waiter` | every slice of up to 4 functors, both calls | `ReportsFailures`, `SerialInOrder`, `ReturnsAtTheEnd` |
| `apps` | 1 built-in and 3 configured applications (one without a release name, one without a namespace), 2 catalogs, 3 commands, with and without the community catalog and failing lists | `StartedHasReleases`, `StartsWhatIsMissing` (`FirstStartDeploys`, `OnlyMissingApps`, `OnlyMissingCatalogs`), `ReleaseSteps` (`UpdateDeploys`, `ConfiguredAfterBuiltIn`, `StartKeepsDeployed`), `CommandsReturn` |
| `preupdate` | 2 processes, 2 nodes, 2 commands, 2 errors; twelve worlds of applications, releases and endpoints | `ScriptsTidy` of RunScript (`RunsOwnScript`, `ScriptsSucceed`, `LeavesNothing`); `ChangesInOrder` (`UpdateInv`, `CurrentBeforeUse`, `MonitorLast`), `CleanUpdateSettles`, `CommandsEnd` |
| `join` | 2 processes, 2 nodes, 2 commands, 2 errors; with and without virtual IP, one after the other and overlapping | `RunsOwnScript`, `RemovedWasTold`, `JoinsCleanly` (`JoinSucceeds`, `AdminPodsRemoved`), `Arrives` (`NodesArrive`, `CommandsEnd`) |
| `capi` | 2 clusters, 2 resources, every kind of cluster beside a self-managed one and one in a given bootstrap cluster, in order with and without faults, side by side | `MachinesManaged`, `SuccessMeans` (`StartedIsManaged`, `DeletedIsGone`, `OrderlySucceeds`), `CommandsEnd`, and the refinement `KeepsCustody` |
| `stage` | 2 clusters, 2 versions, up to 4 commands; both providers, uploads, failures, a control plane of an older ocne that a user changes | `TemplatesSound` (`StageInv`, `ParentsConsistent`, `ImagesReady`), `StagingWorks` (`StageSucceeds`, `StagedIsCurrent`, `UserChangesKept`, `JoinPrepared`), `LatestAndSettled` (`StagedUsesLatest`, `AppliedIsSettled`), `CommandsEnd` |
| `configuration` | every field in every combination of layers, and combinations of versions, tags, names and hypervisors; 3 commands | `ValuesFollow` (`ConfigInv`, `LayersInOrder`, `ImageFollowsVersion`, `EphemeralForced`), `CachedWins`, `FoundAgain` (`Tracked`, `RestartAccepted`) |
| `byo` | 3 machines, 4 commands; virtual IP or load balancer, two ports or one for both, each mistake in the file, failures | `StartsIgnite`, `NodesAsAsked` (`EndpointServed`, `ExtraWins`), `JoinsAdmit` (`ByoInv`, `JoinAdmits`, `InstructionsAdmit`) |

The bounds are the smallest in which the cases meet: two processes are needed for
every race in the code (each race is between one writer and one other), a second
cluster for the shared network file and the shared image, three versions for two
upgrades in a row, three commands for "fail, repeat, use the result", two
errors for an error in a command and in the one that repeats it, three machines for
a control plane of two and a worker. The counters (`MaxCommands`, `MaxErrors`, the budget of a world)
bound how often something is begun, never what a command does. Deadlock is
checked except where every process may be dead or the bound on commands is used
up.

The conditions in the passing properties are needed, and TLC shows it when one of
them is taken away. Without `~world.slow`, a process reads the truncated cache
while a holder is past the ten seconds (`GetCache` ignores the error of
`WaitFor`). Without `~faulty`, a start killed between the boot volume and the
domain leaves a volume that `Delete` does not look for, and an upload of the base
image that failed is taken for the image. Without `~community`, a second start
adds catalogs that exist and is refused; without `~flaky`, a start upgrades a
deployed application because the error of listing is dropped; an application
without a release name or without a namespace is on the list of every start (the
functor then finds the one without a namespace by its name and leaves it alone, and
upgrades the other); and with `Elsewhere` not
empty an application is skipped because another namespace has a release of that
name. In `NodeUpgrade`, with `Overlap` a worker is updated by the decision on a
node list that a stage has made obsolete, and with `PartialStage` a stage script
that fails between the tag and the annotation has the same effect. Without `early`,
`RebootsDrained` fails as soon as an update reads the Ready condition before its node
goes down, uncordons it, and the scheduler uses it again. `OneUpload` needs that no
image has been deleted: after a lookup that failed, a join uploads without the lock
while a start uploads under it. `CommandsSettle` has to leave a cluster out of the
cache whose start was cut off before `Add`: every later start finds it running,
returns no error and adds nothing, so only a delete ends this.

The newer modules have the same kind of conditions. Without `bootstrapKept \/
pivotsInOrder`, the Close of one self-managed cluster deletes the ephemeral cluster
in which another one keeps its only objects, and a pivot that failed with its error
dropped does the same to its own. Without the condition that the two self-managed
settings agree, the delete of an OLVM cluster looks for the objects where they are
not. `ImagesReady` leaves out images of `image upload`, and `StagedUsesLatest` a
compartment with two clusters and templates that both roles use: the stage of such a
cluster uploads new images, creates one template and is refused the second ("already
exists"), and the next stage of that version finds a newer image than the one in use,
takes this for being up to date and reports success with the old one. `NodesArrive` needs that nobody begins another
migration before the node has booted, because every control plane join replaces
the certificate key; `JoinSucceeds` excepts a leftover `exec` pod. `Tracked` needs
deletes that name their cluster and a defaults file that keeps naming the same
hypervisor. `EndpointServed` and `InstructionsAdmit` need `portsDiffer`: behind a
virtual IP nginx takes the one port and the API server the other, nothing in the code
checks that a configuration names two, and with one for both no joining node finds
the API. `CleanUpdateSettles` is about every application and every failure, with two
exceptions. `notOurs`: kube-proxy and CoreDNS where their workload was removed
(`updateKubeProxy` and `updateCoreDNS` return before they look at the release), and
applications whose release sets no tag or that have none. `interrupted`: helm records the new
release before it changes the workload, and when a failure, a kill or another command
comes between, every later update sees the current tag in the release and takes the
application for done.
`StagedIsCurrent` compares units whole, name, contents, drop-ins and whether they are
enabled, except that the path units which a stage adds to an older control plane are
not enabled. `StageSucceeds` is about stages in which nothing fails: what a stage has
created of its templates before it was killed or refused stays, and the next stage is
refused that name. `CommandsEnd` of `CapiStage` excepts a command whose import was
canceled: it waits for a state that never comes.
`LayersInOrder` asserts the order of the documents, and says what it is where the code
has another: a field that both an option of the program and the file of the cluster
set has the value of one of the two, and `Preserve` is dropped.
`StartsIgnite` is about a start that fails between the kubeconfig and the ignition
too: no start of that cluster succeeds until it is deleted.

### Fairness

Liveness is stated with weak fairness of the steps a running process takes by
itself. `PidLock`: the loop of `WaitFor` (its tries and its timer). `ClusterCache`:
every command. In both, a failing open of the pidfile is left out of the fair
steps, so that no property holds thanks to a failure. `Waiter`: the caller's
polling and, once a functor has returned, the publication of its result; nothing
is assumed of the functors, so `ReturnsAtTheEnd` is conditional on them.
`AppInstall`: the command's own steps, helm calls included since they carry a
timeout, and the passing of time. `PreUpdate` and `NodeJoin`: the commands, the
kubelets that start pods, and in `NodeJoin` the service on the node that resets
and joins; waits for pods end because the code counts its tries. `CapiDriver`:
the commands, whose waits have timeouts, and the controllers. `CapiStage`: the
commands and the imports of images, because the code waits for a work request
without a limit. Kills are never among
the fair steps, and an error of the API or a failing script is either not among them
or comes beside a step that succeeds, so that no command ends thanks to a fault.
`LibvirtNet`, `LibvirtDriver` and `NodeUpgrade` have no liveness property: their
waits depend on machines that may never answer. Nor have `ByoDriver`, whose waits
are for the user, and `Configuration`, which has none.

## 4. Proofs

All theorems are checked by TLAPS for every value of the constants that satisfies
the named assumptions of the module (model values are distinct, switches are
Booleans, bounds are natural numbers).

* `Clusters_proofs`, its first section about `PidLock`: `LockInv` ties the file to
  one creator: whoever is past the exclusive create and before the remove is it.
  Mutual exclusion alone is not inductive, because it does not say whose file `Drop`
  removes. `LockKept` follows. `HeldByTheLiving` (without kills and slow holders, a
  pidfile has a holder that is alive) is kept by every step of the lock; its clients
  use that.
* `Clusters_proofs`, the commands on the cache: every command step is a step of
  `PidLock` or leaves it alone (`CacheImplementsLock`), so `LockInv` carries over and
  the lock's property holds for the commands (`CacheKeepsLock`). `CacheInv` then has two parts for two kinds
  of world. Without faults and slow holders (`KindInv`) the process that reads or
  writes the file holds the lock, so the file is truncated only during its own
  write: `NoTornRead`. When commands do not overlap (`SerialInv`), with all faults, a
  map that is read or about to be written agrees with the clusters that exist, for
  every cluster whose last command ended well: `CacheAgrees`. The agreement of the
  file alone is not inductive, because a command changes the cluster before it
  saves; `AloneInv` says by phase what is already true and where.
* `Libvirt_proofs`, the network file: the same (`NetKeepsLock`); `NetInv` adds
  that between `allocatePort` and the write the process holds the lock and its port
  is in nobody's record, and that what is about to be written is consistent.
  `PortsConsistent` follows, with all faults and overlaps. `DescribedInv` adds, for
  careful worlds, that the file describes the machines except those of a command
  that has defined and not recorded its machine, or removed and not forgotten it
  (`lags`): `FileDescribesVMs`.
* `AppsAndNodes_proofs`, node updates, under `Careful` (one command at a time, none
  before the nodes report what was deployed, no `--force`, no half-done stage script):
  `UpgradeInv` says that what a node may boot, its tag and its pulled image, is
  never behind what it runs nor more than one minor version ahead of any node,
  and that the check a command made is still true when it acts. `SkewPolicy`
  and `NoDowngrade` follow. `DrainInv` says what an update has
  established about the cordon and the pods of its node in each phase, also when an
  earlier update left the node cordoned: a node whose script has run is cordoned
  and empty, and the scheduler keeps off a cordon, which only the update that reboots
  the node can take away too early. It gives `RebootsDrained`. Section 3 says
  what happens without the assumptions.
* `Libvirt_proofs`, the driver: `DriverInv` says that the lock is held exactly inside
  `initializeCluster`, that as long as no image has been deleted one is only
  transferred under it, and what of a node exists in each phase. There is one lemma per action and a frame
  lemma for the clusters an action does not touch. `HostSafe` follows. `DeliverInv`
  is about the behaviours in which nothing has failed yet: between commands every
  node is there with the certificates of the local kubeconfig or nothing of it
  is, and within start, join and delete the nodes already visited are; `FaultlessDeliver`
  follows for any number of overlapping commands on different clusters.
* `AppsAndNodes_proofs`, applications, under `Elsewhere = {}`: `WaiterInv` relates the
  slice the caller works on, the round it is in and what the goroutines have published; the
  theorems about `Waiter` come first. `AppInv` extends it: a functor that ended
  without an error has seen or made its release, and releases are never removed.
  `StartedHasReleases` and `ConfiguredAfterBuiltIn` follow. `StartInv` adds what a
  start has seen of an application and what is still true of it when its functor
  runs, which no earlier retry and no other functor of the same start can change;
  it gives `StartsWhatIsMissing` and all of `ReleaseSteps`.
* `Drivers_proofs`, OCI and OLVM: `CapiInv` ties the objects in the ephemeral cluster
  to its existence. `CustodyInv` has two parts. Whatever fails, as long as nobody removes
  the bootstrap cluster, a move deletes only what it has copied. And when commands
  come in order, at most one cluster has a command, and `orderInv` says for each
  phase of it where the objects are; this is what shows that Close finds the
  ephemeral cluster empty. `MachinesManaged` and the refinement of `Custody`
  (`DriversKeepCustody`: the initial state and every step) follow. `SuccessInv` has
  one part for each promise of `SuccessMeans`: nothing comes back after the wait for
  the deletion has seen the cluster gone, also when another command removes the
  ephemeral cluster (`goneInv`); the order of commands tells what a cluster has
  between them, also after failures (`turnInv`); and without failures the only call
  that cannot succeed is the delete of a Cluster that the bootstrap cluster does not
  hold, which the pivot excludes if the two settings agree (`placeInv`).
* `RunScript_proofs`: `ScriptInv` says that two callers with one name know of each
  other (`met`), and that whoever does not meets its own config map from its
  creation to its deletion and its own pod or none. That is what `RunsOwnScript`
  needs across the steps of others and of the kubelet, and what leftovers of a
  killed caller cannot disturb. The lemmas are about any module that calls
  `RunScript`; those about errors and leftovers have as a hypothesis that the API
  answers.
* `NodeJoin_proofs`: `RemovedWasTold` needs that a call that returned no
  error ran on the node of the command. `CleanInv` adds that a command which is
  alone finds every name free that it has freed itself, and that an admin pod has a
  command that will delete it; `JoinsCleanly` follows.
* `PreUpdate_proofs`: `Control` ties the phase of a command to the place of its call
  of `RunScript` and to the nodes it still has to visit; with `Tidy` and the lemmas
  about `RunScript` it gives `ScriptsTidy`. `Images` says that every script that
  tags images, be it called, stored, mounted or already executed, tags what its node
  lacks, and that a command is past a node without an error only when the node has
  the tags; `HandOver` says of the command which control plane nodes obey the new
  virtual IP. They give `ChangesInOrder`, which is not inductive because between the
  scripts and the workloads only the command knows what its nodes have. `Settling`
  says which applications a command that met no error has passed and what is true
  of them; that nobody moves one back makes it inductive although commands
  overlap. It gives `CleanUpdateSettles`. That property said too much at first: the
  proof stopped where the workload of kube-proxy or CoreDNS is absent, TLC
  confirmed it in a world that was added to the run, and the property now says what
  the code does.
* `CapiStage_proofs`, for any number of clusters, versions, images and commands, under
  `StageAssumption` (what a world is made of, and that a shared template has one
  shape). `StoreInv` has a part for each question. `FitInv`: what a stage found, the
  images it has dealt with, the templates it has created and the patches it has
  printed name images with the version and the architecture that the role will ask
  for, whatever else happens before they are used. `ReadyInv`: without failures and
  overlaps every image is ready or in the hands of the one command that imports it.
  Both with `StageInv` give `TemplatesSound`; template names alone are not inductive,
  as it takes the types of counters and the graph of a stage to see that a name is
  new. `OrderInv`: when patches are applied first, a template is in use or about to
  be, so no name that a stage makes is taken. `JoinInv` and `IgnitionInv`: the join
  configuration is never prepared by halves, and the ignition of a control plane, of
  whichever ocne, edited or not, is one that `UpdateIgnition` brings up to date in one
  step and then leaves alone. For this the section on ignition proves of `Merge`,
  `UpdateIgnition` and `Compare`, field by field, what they keep, that the result has
  the current units and that the second round changes nothing. Together they give
  `StagingWorks`. `LatestInv`: in a cluster that is alone both roles have the newest
  image of one version, or a stage or its patches will give it to them; it gives,
  with `IgnitionInv`, both steps of `LatestAndSettled`. Two properties changed when
  they would not prove: `StagedUsesLatest` was false for shared templates (section 3),
  and `StagedIsCurrent` now also asks for the check script.

* `Clusters_proofs`, configurations, for every set of circumstances that satisfies
  `ConfigurationAssumption`: fields are paths of names, and the lemmas of the first
  sections say which paths a structure has, of which it follows that a field that a
  `Merge` function lists belongs to that structure only. `LayersInOrder` then is
  computed through the merges, layer by layer. What a command uses is determined by
  its last step, but the cache is not: `Inv` says that every entry is the
  configuration of a start under its own name (`kept`), that what runs is found
  where an entry says (`found`), that without edits all entries are those of the
  same start (`same`), and what is known between the start of an ephemeral cluster
  and its end (`using`). `LastInv` has what the properties say of the last command.
  `ValuesFollow`, `CachedWins` and `FoundAgain` follow; `FoundAgain` needs all parts, as
  a start is refused by what an earlier one left in the cache.
* `Drivers_proofs`, machines of the user, for any configuration, number of machines
  and commands: the lemmas about ignition say for each role what the merged result
  has in the files and units in which nodes must agree, whatever the extra ignition
  brings (`FirstSays`, `JoinSays`, `ServesIs`). Of the state, `Facts` says in
  `PrintInv` that what was printed is such an ignition with secrets that were made,
  in `FirstInv` and `PlanInv` that a kubeconfig and a cluster come from a printed
  first node, and in `NowInv`, `AutoInv` and `ManualInv` which token and which
  certificate key the last command has and who knows them: the cluster, or the
  instructions that the user may still follow, of which no other pair has the same
  token. `StartsIgnite`, `NodesAsAsked` and `JoinsAdmit` follow.

Only model-checked: the liveness properties (`CommandsEnd`, `CommandsReturn`,
`ReturnsAtTheEnd` and `Arrives`), as fairness and ENABLED are outside the prover's
reach. Every invariant and every action property that a run checks is stated by a
theorem, and so is the refinement of `Custody` with `KeepsCustody`.

## 5. Where the code and its documents disagree

Met while modelling; the properties leave these cases out, and say so.

* `pkg/cluster/cache/cache.go:96`: an entry is added to the map that was read before
  the driver ran. When two starts overlap, the second Save drops the entry of the
  first, while `doc/manpages/ocne-cluster.md:261` says that `list` "Lists all known
  clusters".
* `pkg/cluster/driver/libvirt/libvirt.go:723`: the address is chosen before the lock
  is taken, so two overlapping starts can choose the same one; the comment at
  `net.go:244` says "Iterate over IPs until we find one in the range that is not
  used."
* `pkg/commands/node/update/update.go:161`: the comment says "wait until the node is
  ready", but the condition that is read five seconds after the reboot command
  (`pkg/k8s/node.go:80`) may be the one from before it. The node is then uncordoned
  and gets pods again before it goes down.
* `pkg/commands/cluster/start/start.go:139`: a start that finds its cluster running
  returns no error and adds nothing to the cache. When an earlier one was cut off
  between driver and cache, the cluster stays off the list that, by
  `doc/manpages/ocne-cluster.md:261`, has "all known clusters".
* `pkg/cluster/driver/libvirt/libvirt.go:791`: join returns nil when the token cannot
  be created, and Start reports success without the nodes.
* `pkg/commands/cluster/start/start.go:641`: a release that failed counts as
  "already deployed".
* `pkg/commands/cluster/start/start.go:641`: releases are compared by name and
  namespace, of which `pkg/commands/application/install/applications.go:121` says
  "Release and Namespace are optional"; an application given without one of them is
  never found installed.
* `pkg/cluster/driver/libvirt/image.go:117`: the comment says that the function returns
  "if the base image has been previously downloaded or manually placed", but it answers
  no to every error of the lookup (line 120). The transfer that follows deletes the
  volume that is there (line 84), which other machines have as their backing image.
* `pkg/cluster/update/update.go:190`: "If the tag is already 'current', assume this is
  already correctly configured and return." The release has that tag also when the
  upgrade was interrupted before it changed the workload.
* `pkg/cluster/driver/byo/byo.go:187`: the kubeconfig is written before the ignition is
  made, and after a failure in between the next start takes it for a cluster that runs
  and prints no ignition, while `doc/cluster-management/byo.md:54` says that starting
  "generates an Ignition file that is used by the initial control plane node" and that
  "subsequent invocations will install any applications".
* `pkg/cluster/driver/olvm/stage.go:313`: a stage adds `keepalived-refresh.path` and
  `ocne-nginx-refresh.path` to a control plane that an older ocne made, without
  enabling them. The ignition of a new cluster enables both
  (`pkg/cluster/ignition/virtual_ip.go:401`), and the presets of the image
  (`pkg/cluster/template/olvm/ignition.go:60`) do not.
* `pkg/util/oci/workrequests.go:66`: the wait ends when a work request has failed or
  succeeded; one that is canceled is waited for without end.
* `pkg/cmdutil/config.go:33`: the session option of the program is overlaid by the
  file of the cluster, while `doc/configuration/configuration.md:234` says "Command
  line options take precendence over all others." `LayersInOrder` asserts that order,
  except for fields that both set (`overruled`).
* `pkg/cmdutil/config.go:32`: the merge of the defaults file uses `MergeEphemeralConfig`,
  which ignores `preserve` (`pkg/config/types/types.go:703`), and so the value of the
  file, and the built-in `true` (`pkg/constants/constants.go:34`), never reach
  `pkg/commands/cluster/start/ephemeral.go:83`: the ephemeral cluster is always deleted.
* `pkg/cluster/driver/olvm/delete.go:48`: the delete of an OLVM cluster asks
  `Providers.Oci.SelfManaged`.
* `pkg/cluster/driver/oci/stage.go:107`: a new container image is only looked for if
  the template already uses the newest image of the compartment, so the second of
  two clusters is not brought to it by the same path.
* `pkg/cluster/driver/oci/stage.go:107`: the same path leaves a cluster whose two roles
  share a machine template with its old image after a stage was refused, and the next
  one reports success.
* `pkg/commands/image/upload/upload.go:137`: the upload never calls
  `EnsureImageDetails`, and a later stage takes the image for a finished one.
* `pkg/cluster/ignition/library.go:523`: the drop-in is for `kublet.service`.
* `pkg/cluster/driver/byo/byo.go:190`: the kubeconfig of the user has the port 6443,
  whatever port was configured.
* `pkg/k8s/tokens.go:171`: an admin pod `exec` that a killed command left refuses
  every later join of a control plane node.
* `pkg/util/backoff.go:40`: the waits of `ExponentialRetryImpl` do not grow.

## 6. What the models leave out

* Formatting, logging, XML and YAML text, and values of charts. Key material is a
  number that tells one PKI from another.
* `NodeUpgrade`: versions are minor versions; the comparison of timestamps that
  `IsUpdateAvailable` uses for some old patch versions, tags that are not
  versions, are left out; pre-update is `PreUpdate`, and is not composed with it. The
  reboot that a script schedules comes at any time after it, or before the next
  script of that node. A script is one step, with the outcomes it can have. Pods are
  one bit per node, and the eviction takes all of them away or fails. An update that
  fails after the cordon leaves the node cordoned until somebody updates it again.
* `LibvirtDriver`: pool discovery and refresh, the XML of domains, `PostStart`.
* `AppInstall`: time is only whether the deadline of `LinearRetry` has passed; that
  the waits of `ExponentialRetryImpl` do not grow (`wait = start + factor`) is not
  visible in it. Whether the namespace could be created is not looked at by the
  code, nor by the model.
* `LibvirtNet`: one hypervisor host, and addresses given in configurations are
  not checked against each other, as in the code.
* `RunScript` and its clients: the content of scripts, apart from their effect on the
  node; pods other than those of the scripts and admin pods.
* `CapiDriver`: the objects are two resources, the Cluster and everything else; the
  scanners of controller logs, and the validation of the OLVM configuration.
* `CapiStage`: object storage and its buckets; the patches are records of what they
  replace.
* `Ignition`: contents of files except the values put into them; users, containers
  and registries other than that of the OS.
* `Configuration`: parsing of YAML, and options that no other layer shares.

Not modelled at all: the client of OLVM (REST calls and JSON, what it changes is in
the engine), the creation of an image in a pod and its upload to a registry
(linear scripts around long I/O), dump, info and analyze (read only, the output is
their only result), catalog mirror and copy (lists of images and copies between
registries), port forwards, tunnels, console and backup (streams between two
connections, no state that lasts), the none driver (reads a kubeconfig), and help,
usage and checks of single options.

## 7. Plan

Done: `PidLock`, `ClusterCache`, `LibvirtNet`, `NodeUpgrade`, `LibvirtDriver`, `Waiter`,
`AppInstall`, `RunScript`, `PreUpdate`, `NodeJoin`, `Custody`, `CapiDriver`, `CapiStage`,
`Ignition`, `ByoDriver` and `Configuration`, each with a run or as part of one.

Every safety property that a run checks is proved, and the refinement of `Custody`.

Left, in this order: an atomic register of clusters that `ClusterCache` implements
when commands do not overlap, and an atomic port registry that `LibvirtNet`
implements; the scripts of `NodeUpgrade` as callers of `RunScript`, for which
`RunScript_proofs` has the lemmas; image create and the goroutine pool of `cluster
dump`.
