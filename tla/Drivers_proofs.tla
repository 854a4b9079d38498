--------------------------- MODULE Drivers_proofs ---------------------------
(***************************************************************************)
(* Theorems about the drivers that have no libvirt: the custody of Cluster *)
(* API objects for any number of clusters and objects, and what the ignition *)
(* of a node says, which makes nodes find and admit one another.           *)
(***************************************************************************)
EXTENDS CapiDriver, ByoDriver, TLAPS

-----------------------------------------------------------------------------
(***************************************************************************)
(* OCI and OLVM: CapiInv, the custody of the objects, that the drivers     *)
(* implement Custody, and what a start or a delete has done when it returns. *)
(***************************************************************************)

Configs == [provider : {"oci", "olvm"}, given : BOOLEAN, ociSelf : BOOLEAN, olvmSelf : BOOLEAN]

(* The settings of a state that satisfies CapiInv have their types. *)
LEMMA SettingsType ==
  ASSUME CapiInv
  PROVE  /\ conf \in [Clusters -> Configs]
         /\ world \in [orderly : BOOLEAN, faults : BOOLEAN, preserve : BOOLEAN]
BY CapiAssumption DEF CapiInv, Configs

(* The bootstrap cluster and the controllers of a cluster. *)
LEMMA SitesType ==
  ASSUME CapiInv, NEW c \in Clusters
  PROVE  /\ bootstrap(c) \in {"ephemeral", "admin"}
         /\ bootstrap(c) \in Sites /\ c \in Sites /\ bootstrap(c) \notin Clusters
         /\ "ephemeral" \in Sites /\ "ephemeral" \notin Clusters
         /\ getApplications(c) \subseteq Controllers
         /\ getApplications(c) # {}
BY SettingsType, CapiAssumption DEF bootstrap, Sites, getApplications, Controllers, Configs

(* A cluster whose bootstrap cluster has its controllers has a bootstrap   *)
(* cluster.                                                                *)
LEMMA ReadyIsAlive ==
  ASSUME CapiInv, NEW c \in Clusters, ready(c)
  PROVE  alive(c)
<1>1. capi[bootstrap(c)] # {}
  BY SitesType DEF ready, waitForControllers
<1>2. CASE conf[c].given
  BY <1>2 DEF alive
<1>3. CASE ~conf[c].given
  BY <1>1, <1>3 DEF alive, bootstrap, CapiInv
<1> QED
  BY <1>2, <1>3

(* Controllers that are only added keep every bootstrap cluster ready. *)
LEMMA ReadyGrows ==
  ASSUME CapiInv, UNCHANGED conf, NEW c \in Clusters, ready(c),
         capi[bootstrap(c)] \subseteq capi'[bootstrap(c)]
  PROVE  ready(c)'
BY DEF ready, waitForControllers, getApplications, bootstrap

(* CapiInv holds initially. *)
LEMMA CapiInvInit == Init => CapiInv
<1> SUFFICES ASSUME Init PROVE CapiInv
  OBVIOUS
<1>1. <<conf, world>> \in Cases
  <2>1. PICK case \in Cases : conf = case[1] /\ world = case[2]
    BY DEF Init
  <2> QED
    BY <2>1, CapiAssumption
<1>2. /\ capi \in [Sites -> SUBSET Controllers]
      /\ held \in [Clusters -> [Places -> SUBSET Resources]]
  BY DEF Init
<1>3. /\ cmd \in [Clusters -> Commands] /\ phase \in [Clusters -> Phases]
      /\ todo \in [Clusters -> SUBSET Resources] /\ status \in [Clusters -> Statuses]
  BY DEF Init, Commands, Phases, Statuses
<1>4. capi["ephemeral"] = {} /\ \A c \in Clusters : held[c]["boot"] = {}
  BY DEF Init, Sites, Places
<1> QED
  BY <1>1, <1>2, <1>3, <1>4 DEF Init, CapiInv

(* The state of a command keeps its types in every step. *)
ProcTypes ==
    /\ cmd \in [Clusters -> Commands]
    /\ phase \in [Clusters -> Phases]
    /\ todo \in [Clusters -> SUBSET Resources]
    /\ status \in [Clusters -> Statuses]

LEMMA ProcTypesStep ==
  ASSUME CapiInv, Next PROVE ProcTypes' /\ UNCHANGED settings
<1> USE DEF Commands, Phases, Statuses
<1>0. PICK c \in Clusters :
        \/ \E command \in Commands : Begin(c, command)
        \/ Works(c) \/ Fault(c) \/ Kill(c) \/ Provision(c) \/ Reap(c)
  BY DEF Next
<1>1. ASSUME NEW command \in Commands, Begin(c, command) PROVE ProcTypes' /\ UNCHANGED settings
  BY <1>1 DEF Begin, CapiInv, ProcTypes
<1>2. CASE Starts(c)
  <2>1. CASE EnsureCluster(c) \/ InstallCapi(c) \/ CreateRequiredResources(c) \/ WaitForKubeconfig(c)
    BY <2>1 DEF EnsureCluster, InstallCapi, CreateRequiredResources, WaitForKubeconfig, step, others,
       CapiInv, ProcTypes
  <2>6. CASE Prepare(c) \/ PrepareOlvm(c)
    <3>1. /\ \E to \in {"apply", "secrets"} : phase' = [phase EXCEPT ![c] = to]
          /\ todo' = [todo EXCEPT ![c] = Resources]
          /\ UNCHANGED <<status, cmd, settings>>
      BY <2>6 DEF Prepare, PrepareOlvm, step
    <3>2. todo' \in [Clusters -> SUBSET Resources]
      BY <3>1 DEF CapiInv
    <3> QED
      BY <3>1, <3>2 DEF CapiInv, ProcTypes
  <2>2. CASE ApplyResource(c)
    BY <2>2 DEF ApplyResource, step, CapiInv, ProcTypes
  <2>3. CASE \/ WaitForNodes(c) \/ InstallWorkloadApps(c) \/ InstallWorkloadAppsOlvm(c) \/ Register(c)
             \/ PostStart(c) \/ MoveCopies(c) \/ MoveDeletes(c)
    BY <2>3 DEF WaitForNodes, InstallWorkloadApps, InstallWorkloadAppsOlvm, Register, PostStart,
       MoveCopies, MoveDeletes, step, others, CapiInv, ProcTypes
  <2>4. CASE MoveFails(c) \/ MoveFailsOlvm(c) \/ MoveSkippedOlvm(c)
    BY <2>4 DEF MoveFails, MoveFailsOlvm, MoveSkippedOlvm, step, others, CapiInv, ProcTypes
  <2>5. CASE Close(c)
    BY <2>5 DEF Close, step, end, CapiInv, ProcTypes
  <2> QED
    BY <1>2, <2>1, <2>2, <2>3, <2>4, <2>5, <2>6 DEF Starts
<1>3. CASE Deletes(c)
  BY <1>3 DEF Deletes, Pivot, PivotOlvm, BackCopies, BackDeletes, BackSkipped, BackSkippedOlvm,
     DeleteResource, WaitForClusterDeletion, Cleanup, CleanupOlvm, step, others, end, CapiInv, ProcTypes
<1>4. CASE Fails(c) \/ Fault(c) \/ Kill(c)
  BY <1>4 DEF Fails, Fault, Kill, fail, step, end, CapiInv, ProcTypes
<1>5. CASE Provision(c) \/ Reap(c)
  BY <1>5 DEF Provision, Reap, procVars, CapiInv, ProcTypes
<1> QED
  BY <1>0, <1>1, <1>2, <1>3, <1>4, <1>5 DEF Works

(* The clusters keep their types, controllers of the ephemeral cluster go   *)
(* with it, and objects are only where controllers are.                     *)
SiteInv ==
    /\ ephemeral \in BOOLEAN
    /\ capi \in [Sites -> SUBSET Controllers]
    /\ held \in [Clusters -> [Places -> SUBSET Resources]]
    /\ infra \subseteq Clusters /\ deleting \subseteq Clusters /\ creds \subseteq Clusters
    /\ kubeconfig \subseteq Clusters /\ cached \subseteq Clusters
    /\ capi["ephemeral"] # {} => ephemeral
    /\ \A c \in Clusters : held[c]["boot"] # {} => ready(c)

LEMMA SiteInvStep ==
  ASSUME CapiInv, Next PROVE SiteInv'
<1>0. PICK c \in Clusters :
        \/ \E command \in Commands : Begin(c, command)
        \/ Works(c) \/ Fault(c) \/ Kill(c) \/ Provision(c) \/ Reap(c)
  BY DEF Next
<1>a. UNCHANGED settings /\ UNCHANGED conf
  BY ProcTypesStep DEF settings
<1>b. ASSUME NEW d \in Clusters, UNCHANGED capi PROVE ready(d) <=> ready(d)'
  BY <1>a, <1>b DEF ready, waitForControllers, getApplications, bootstrap
<1>c. CASE UNCHANGED clusterVars
  BY <1>b, <1>c DEF clusterVars, CapiInv, SiteInv
<1>d. ASSUME UNCHANGED <<ephemeral, capi, held, infra, deleting>>,
             creds' \subseteq Clusters, kubeconfig' \subseteq Clusters, cached' \subseteq Clusters
      PROVE  SiteInv'
  BY <1>b, <1>d DEF CapiInv, SiteInv
<1>e. ASSUME UNCHANGED <<ephemeral, capi, creds, kubeconfig, cached>>,
             infra' \subseteq Clusters, deleting' \subseteq Clusters,
             held' \in [Clusters -> [Places -> SUBSET Resources]],
             \A d \in Clusters : held'[d]["boot"] # {} => ready(d)
      PROVE  SiteInv'
  BY <1>b, <1>e DEF CapiInv, SiteInv
<1>1. ASSUME NEW command \in Commands, Begin(c, command) PROVE SiteInv'
  BY <1>1, <1>c DEF Begin
<1>2. CASE EnsureCluster(c)
  BY <1>2, <1>b, SettingsType DEF EnsureCluster, CapiInv, SiteInv, Configs
<1>3. CASE InstallCapi(c)
  <2>1. /\ capi' = [capi EXCEPT ![bootstrap(c)] = @ \cup getApplications(c)]
        /\ alive(c) /\ UNCHANGED <<ephemeral, held, infra, deleting, creds, kubeconfig, cached>>
    BY <1>3 DEF InstallCapi
  <2>2. capi' \in [Sites -> SUBSET Controllers]
    BY <2>1, SitesType DEF CapiInv
  <2>3. capi'["ephemeral"] # {} => ephemeral'
    BY <2>1, SitesType DEF CapiInv, alive, bootstrap
  <2>4. ASSUME NEW d \in Clusters, held'[d]["boot"] # {} PROVE ready(d)'
    BY <2>1, <2>4, <1>a, ReadyGrows, SitesType DEF CapiInv
  <2> QED
    BY <2>1, <2>2, <2>3, <2>4 DEF CapiInv, SiteInv
<1>4. CASE PostStart(c)
  <2>1. /\ \/ capi' = [capi EXCEPT ![c] = @ \cup getApplications(c)]
           \/ capi' = capi
        /\ UNCHANGED <<ephemeral, held, infra, deleting, creds, kubeconfig, cached>>
    BY <1>4 DEF PostStart
  <2>2. capi' \in [Sites -> SUBSET Controllers]
    BY <2>1, SitesType DEF CapiInv
  <2>3. capi'["ephemeral"] = capi["ephemeral"]
    BY <2>1, SitesType DEF CapiInv
  <2>4. ASSUME NEW d \in Clusters, held'[d]["boot"] # {} PROVE ready(d)'
    BY <2>1, <2>4, <1>a, ReadyGrows, SitesType DEF CapiInv
  <2> QED
    BY <2>1, <2>2, <2>3, <2>4 DEF CapiInv, SiteInv
<1>5. CASE CreateRequiredResources(c) \/ WaitForKubeconfig(c) \/ Register(c) \/ BackSkippedOlvm(c)
           \/ Cleanup(c) \/ CleanupOlvm(c)
  BY <1>5, <1>d DEF CreateRequiredResources, WaitForKubeconfig, Register, BackSkippedOlvm, Cleanup,
     CleanupOlvm, CapiInv
<1>6. CASE ApplyResource(c)
  <2>1. PICK r \in todo[c] : \/ held' = [held EXCEPT ![c]["boot"] = @ \cup {r}]
                             \/ UNCHANGED held
    BY <1>6 DEF ApplyResource
  <2>2. r \in Resources
    BY <2>1 DEF CapiInv
  <2>3. held' \in [Clusters -> [Places -> SUBSET Resources]]
    BY <2>1, <2>2 DEF CapiInv, Places
  <2>4. ready(c) /\ UNCHANGED <<ephemeral, capi, infra, deleting, creds, kubeconfig, cached>>
    BY <1>6 DEF ApplyResource
  <2>5. \A d \in Clusters : held'[d]["boot"] # {} => ready(d)
    BY <2>1, <2>4 DEF CapiInv, Places
  <2> QED
    BY <1>e, <2>3, <2>4, <2>5 DEF CapiInv
<1>7. CASE MoveCopies(c) \/ MoveDeletes(c) \/ BackCopies(c) \/ BackDeletes(c)
  <2>1. /\ \/ held' = [held EXCEPT ![c]["self"] = @ \cup held[c]["boot"]]
           \/ held' = [held EXCEPT ![c]["boot"] = {}]
           \/ ready(c) /\ held' = [held EXCEPT ![c]["boot"] = @ \cup held[c]["self"]]
           \/ held' = [held EXCEPT ![c]["self"] = {}]
        /\ UNCHANGED <<ephemeral, capi, infra, deleting, creds, kubeconfig, cached>>
    BY <1>7 DEF MoveCopies, MoveDeletes, BackCopies, BackDeletes
  <2>2. held' \in [Clusters -> [Places -> SUBSET Resources]]
    BY <2>1 DEF CapiInv, Places
  <2>3. \A d \in Clusters : held'[d]["boot"] # {} => ready(d)
    BY <2>1 DEF CapiInv, Places
  <2> QED
    BY <1>e, <2>1, <2>2, <2>3 DEF CapiInv
<1>8. CASE Close(c)
  <2>1. CASE UNCHANGED <<ephemeral, capi, held, deleting, creds>>
    BY <1>8, <2>1, <1>c DEF Close, clusterVars
  <2>2. CASE StopEphemeralCluster
    <3>1. UNCHANGED <<infra, kubeconfig, cached>>
      BY <1>8 DEF Close
    <3>2. capi' \in [Sites -> SUBSET Controllers] /\ capi'["ephemeral"] = {}
      BY <2>2, SitesType DEF StopEphemeralCluster, CapiInv
    <3>3. held' \in [Clusters -> [Places -> SUBSET Resources]]
      BY <2>2 DEF StopEphemeralCluster, CapiInv, Places
    <3>4. ASSUME NEW d \in Clusters, held'[d]["boot"] # {} PROVE ready(d)'
      <4>1. conf[d].given /\ held'[d] = held[d]
        BY <2>2, <3>4 DEF StopEphemeralCluster, CapiInv, Places
      <4>2. bootstrap(d) = "admin" /\ capi'["admin"] = capi["admin"]
        BY <2>2, <4>1 DEF StopEphemeralCluster, CapiInv, bootstrap, Sites
      <4> QED
        BY <3>4, <4>1, <4>2, <1>a, ReadyGrows DEF CapiInv
    <3> QED
      BY <2>2, <3>1, <3>2, <3>3, <3>4 DEF StopEphemeralCluster, SiteInv, CapiInv
  <2> QED
    BY <1>8, <2>1, <2>2 DEF Close
<1>9. CASE DeleteResource(c) \/ Provision(c)
  BY <1>9, <1>e DEF DeleteResource, Provision, CapiInv
<1>10. CASE Reap(c)
  <2>1. capi' \in [Sites -> SUBSET Controllers]
    BY <1>10 DEF Reap, CapiInv
  <2>2. held' \in [Clusters -> [Places -> SUBSET Resources]]
    BY <1>10 DEF Reap, CapiInv, Places
  <2>3. ASSUME NEW d \in Clusters, held'[d]["boot"] # {} PROVE ready(d)'
    <3>1. held'[d] = held[d]
      BY <1>10, <2>3 DEF Reap, CapiInv, Places
    <3>2. capi'[bootstrap(d)] = capi[bootstrap(d)]
      BY <1>10, SitesType DEF Reap, CapiInv
    <3> QED
      BY <2>3, <3>1, <3>2, <1>a, ReadyGrows DEF CapiInv
  <2>4. capi'["ephemeral"] = capi["ephemeral"]
    BY <1>10, SitesType DEF Reap, CapiInv
  <2> QED
    BY <1>10, <2>1, <2>2, <2>3, <2>4 DEF Reap, CapiInv, SiteInv
<1>11. CASE \/ Prepare(c) \/ PrepareOlvm(c) \/ WaitForNodes(c) \/ InstallWorkloadApps(c)
            \/ InstallWorkloadAppsOlvm(c) \/ MoveFails(c) \/ MoveFailsOlvm(c) \/ MoveSkippedOlvm(c)
            \/ Pivot(c) \/ PivotOlvm(c) \/ BackSkipped(c) \/ WaitForClusterDeletion(c)
            \/ Fails(c) \/ Fault(c) \/ Kill(c)
  BY <1>11, <1>c DEF Prepare, PrepareOlvm, WaitForNodes, InstallWorkloadApps, InstallWorkloadAppsOlvm,
     MoveFails, MoveFailsOlvm, MoveSkippedOlvm, Pivot, PivotOlvm, BackSkipped, WaitForClusterDeletion,
     Fails, Fault, fail, Kill
<1> QED
  BY <1>0, <1>1, <1>2, <1>3, <1>4, <1>5, <1>6, <1>7, <1>8, <1>9, <1>10, <1>11 DEF Works, Starts, Deletes

(* The state of the driver and of the clusters it deals with, for any      *)
(* number of clusters and objects and with every fault.                    *)
THEOREM CapiInvHolds == Spec => []CapiInv
<1>1. CapiInv /\ [Next]_vars => CapiInv'
  <2> SUFFICES ASSUME CapiInv, [Next]_vars PROVE CapiInv'
    OBVIOUS
  <2>1. CASE Next
    BY <2>1, ProcTypesStep, SiteInvStep DEF CapiInv, SiteInv, ProcTypes, settings
  <2>2. CASE UNCHANGED vars
    BY <2>2 DEF vars, clusterVars, procVars, settings, CapiInv, ready, waitForControllers,
       getApplications, bootstrap
  <2> QED
    BY <2>1, <2>2
<1> QED
  BY <1>1, CapiInvInit, PTL DEF Spec

-----------------------------------------------------------------------------
(* Custody *)

(* What only depends on the settings stays as it is. *)
LEMMA SettingsKept ==
  ASSUME UNCHANGED settings
  PROVE  /\ UNCHANGED bootstrapKept /\ UNCHANGED pivotsInOrder
         /\ \A c \in Clusters : /\ selfManaged(c)' = selfManaged(c) /\ bootstrap(c)' = bootstrap(c)
                                /\ getApplications(c)' = getApplications(c)
BY DEF settings, bootstrapKept, pivotsInOrder, selfManaged, pivotsBack, stops, olvm, bootstrap,
       getApplications

(* What depends on the settings, the controllers and the ephemeral cluster. *)
LEMMA SitesKept ==
  ASSUME UNCHANGED settings, UNCHANGED <<ephemeral, capi>>, NEW c \in Clusters
  PROVE  /\ ready(c)' <=> ready(c)
         /\ alive(c)' <=> alive(c)
         /\ waitForControllers(c, c)' <=> waitForControllers(c, c)
BY DEF settings, ready, alive, waitForControllers, getApplications, bootstrap

(* The move and the order hold for a cluster where CustodyInv says so. *)
Kept == bootstrapKept \/ pivotsInOrder

(* When Close removes the ephemeral cluster, no object is lost with it. *)
LEMMA StopKeepsHeld ==
  ASSUME CapiInv, CustodyInv, Kept, NEW c \in Clusters, Close(c)
  PROVE  held' = held
<1>1. CASE UNCHANGED <<ephemeral, capi, held, deleting, creds>>
  BY <1>1
<1>2. CASE stops(c) /\ StopEphemeralCluster
  <2>1. pivotsInOrder
    BY <1>2 DEF Kept, bootstrapKept, stops
  <2>2. ASSUME NEW d \in Clusters, ~conf[d].given PROVE held[d]["boot"] = {}
    <3>1. selfManaged(d) /\ orderInv(d) /\ orderInv(c) /\ oneAtATime
      BY <1>2, <2>1, <2>2 DEF pivotsInOrder, CustodyInv
    <3>2. phase[c] \in {"close", "closeAgain"}
      BY <3>1 DEF Close, orderInv
    <3>3. CASE d = c
      BY <3>1, <3>2, <3>3 DEF orderInv
    <3>4. CASE d # c
      <4>1. phase[d] = "idle"
        BY <3>1, <3>2, <3>4 DEF oneAtATime
      <4>2. status[d] \in {"new", "started", "deleted", "failed"}
        BY <3>1 DEF orderInv, CapiInv, Statuses
      <4> QED
        BY <3>1, <4>1, <4>2 DEF orderInv, fresh, untouched
    <3> QED
      BY <3>3, <3>4
  <2>3. ASSUME NEW d \in Clusters PROVE held'[d] = held[d]
    BY <1>2, <2>2 DEF StopEphemeralCluster, CapiInv, Places
  <2> QED
    BY <1>2, <2>3 DEF StopEphemeralCluster, CapiInv
<1> QED
  BY <1>1, <1>2 DEF Close

(* What a step of the command on c may change. *)
Touches(c) ==
    /\ UNCHANGED settings
    /\ \A d \in Clusters \ {c} :
        /\ phase'[d] = phase[d] /\ status'[d] = status[d] /\ cmd'[d] = cmd[d] /\ held'[d] = held[d]
        /\ d \in infra' <=> d \in infra
        /\ d \in kubeconfig' <=> d \in kubeconfig
        /\ d \in cached' <=> d \in cached
        /\ d \in deleting' => d \in deleting

LEMMA StepTouches ==
  ASSUME CapiInv, CustodyInv, Kept, NEW c \in Clusters,
         \/ \E command \in Commands : Begin(c, command)
         \/ Works(c) \/ Fault(c) \/ Kill(c) \/ Provision(c) \/ Reap(c),
         Next
  PROVE  Touches(c)
<1> USE ProcTypesStep
<1>1. CASE \E command \in Commands : Begin(c, command)
  BY <1>1 DEF Begin, Touches, clusterVars, CapiInv
<1>2. CASE EnsureCluster(c) \/ InstallCapi(c) \/ Prepare(c) \/ PrepareOlvm(c) \/ CreateRequiredResources(c)
  BY <1>2 DEF EnsureCluster, InstallCapi, Prepare, PrepareOlvm, CreateRequiredResources, step, others,
     Touches, clusterVars, CapiInv
<1>3. CASE ApplyResource(c)
  BY <1>3 DEF ApplyResource, step, Touches, CapiInv
<1>4. CASE WaitForKubeconfig(c) \/ WaitForNodes(c) \/ InstallWorkloadApps(c) \/ InstallWorkloadAppsOlvm(c)
           \/ Register(c) \/ PostStart(c)
  BY <1>4 DEF WaitForKubeconfig, WaitForNodes, InstallWorkloadApps, InstallWorkloadAppsOlvm, Register,
     PostStart, step, others, Touches, clusterVars, CapiInv
<1>5. CASE MoveCopies(c) \/ MoveDeletes(c) \/ MoveFails(c) \/ MoveFailsOlvm(c) \/ MoveSkippedOlvm(c)
  BY <1>5 DEF MoveCopies, MoveDeletes, MoveFails, MoveFailsOlvm, MoveSkippedOlvm, step, others,
     Touches, clusterVars, CapiInv
<1>6. CASE Close(c)
  <2>1. held' = held
    BY <1>6, StopKeepsHeld
  <2>2. deleting' \subseteq deleting
    BY <1>6 DEF Close, StopEphemeralCluster
  <2>3. \A d \in Clusters \ {c} : phase'[d] = phase[d] /\ status'[d] = status[d] /\ cmd'[d] = cmd[d]
    BY <1>6 DEF Close, step, end, CapiInv
  <2> QED
    BY <1>6, <2>1, <2>2, <2>3 DEF Close, Touches
<1>7. CASE Pivot(c) \/ PivotOlvm(c) \/ BackCopies(c) \/ BackDeletes(c) \/ BackSkipped(c)
  BY <1>7 DEF Pivot, PivotOlvm, BackCopies, BackDeletes, BackSkipped, step, others, Touches,
     clusterVars, CapiInv
<1>8. CASE BackSkippedOlvm(c) \/ DeleteResource(c) \/ WaitForClusterDeletion(c) \/ Cleanup(c) \/ CleanupOlvm(c)
  BY <1>8 DEF BackSkippedOlvm, DeleteResource, WaitForClusterDeletion, Cleanup, CleanupOlvm, step, others,
     end, Touches, clusterVars, CapiInv
<1>9. CASE Fails(c) \/ Fault(c) \/ Kill(c)
  BY <1>9 DEF Fails, Fault, Kill, fail, step, end, Touches, clusterVars, CapiInv
<1>10. CASE Provision(c) \/ Reap(c)
  BY <1>10 DEF Provision, Reap, procVars, Touches, CapiInv
<1> QED
  BY <1>1, <1>2, <1>3, <1>4, <1>5, <1>6, <1>7, <1>8, <1>9, <1>10 DEF Works, Starts, Deletes

(* Who holds the objects of c. *)
Holding(K, h) ==
    /\ h["boot"] = {} /\ h["self"] = {} => K = {}
    /\ h["boot"] # {} /\ h["self"] = {} => K = {"boot"}
    /\ h["boot"] = {} /\ h["self"] # {} => K = {"self"}
    /\ h["boot"] # {} /\ h["self"] # {} => K = {"boot", "self"}

LEMMA Custodians ==
  ASSUME NEW c \in Clusters
  PROVE  Holding(custodians(c), held[c]) /\ Holding(custodians(c)', held'[c])
BY DEF custodians, Places, Holding

(* The steps of Custody, for the cluster that a step of the driver is about. *)
HolderStep(c) ==
    LET K == custodians(c)
        L == custodians(c)'
        same == c \in infra' <=> c \in infra
    IN  \/ L = K /\ same
        \/ L = K \cup {"boot"} /\ same
        \/ K # {} /\ L = {"boot", "self"} /\ same
        \/ K = {"boot", "self"} /\ (L = {"boot"} \/ L = {"self"}) /\ same
        \/ K # {} /\ L = K /\ c \in infra'
        \/ K # {} /\ L = {} /\ c \notin infra'

LEMMA StepHolds ==
  ASSUME CapiInv, CapiInv', CustodyInv, Kept, NEW c \in Clusters,
         \/ \E command \in Commands : Begin(c, command)
         \/ Works(c) \/ Fault(c) \/ Kill(c) \/ Provision(c) \/ Reap(c),
         Next
  PROVE  HolderStep(c) /\ moveInv(c)'
<1>a. moveInv(c)
  BY DEF CustodyInv, Kept
<1>b. Holding(custodians(c), held[c]) /\ Holding(custodians(c)', held'[c])
  BY Custodians
<1>c. ASSUME UNCHANGED <<held, infra>>,
             phase'[c] \notin {"moved", "movedBack"} \/ phase'[c] = phase[c]
      PROVE  HolderStep(c) /\ moveInv(c)'
  <2>1. custodians(c)' = custodians(c)
    BY <1>c DEF custodians
  <2> QED
    BY <1>a, <1>c, <2>1 DEF HolderStep, moveInv
<1>1. CASE \E command \in Commands : Begin(c, command)
  BY <1>1, <1>c DEF Begin, clusterVars, CapiInv
<1>2. CASE EnsureCluster(c) \/ InstallCapi(c) \/ Prepare(c) \/ PrepareOlvm(c) \/ CreateRequiredResources(c)
  BY <1>2, <1>c DEF EnsureCluster, InstallCapi, Prepare, PrepareOlvm, CreateRequiredResources, step, others,
     clusterVars, CapiInv
<1>3. CASE ApplyResource(c)
  <2>1. /\ held'[c]["boot"] = held[c]["boot"] \/ held'[c]["boot"] # {}
        /\ held'[c]["self"] = held[c]["self"]
    <3>1. PICK r \in todo[c] : held' = [held EXCEPT ![c]["boot"] = @ \cup {r}] \/ UNCHANGED held
      BY <1>3 DEF ApplyResource
    <3>2. CASE UNCHANGED held
      BY <3>2
    <3>3. CASE held' = [held EXCEPT ![c]["boot"] = @ \cup {r}]
      <4>1. held'[c]["boot"] = held[c]["boot"] \cup {r} /\ held'[c]["self"] = held[c]["self"]
        BY <3>3 DEF CapiInv, Places
      <4> QED
        BY <4>1
    <3> QED
      BY <3>1, <3>2, <3>3
  <2>2. UNCHANGED infra /\ phase'[c] \in {"kubeconfig", "apply"}
    BY <1>3 DEF ApplyResource, step, CapiInv
  <2>3. custodians(c)' = custodians(c) \/ custodians(c)' = custodians(c) \cup {"boot"}
    BY <1>b, <2>1 DEF Holding
  <2> QED
    BY <1>a, <2>2, <2>3 DEF HolderStep, moveInv
<1>4. CASE WaitForKubeconfig(c) \/ WaitForNodes(c) \/ InstallWorkloadApps(c) \/ InstallWorkloadAppsOlvm(c)
           \/ Register(c) \/ PostStart(c)
  BY <1>4, <1>c DEF WaitForKubeconfig, WaitForNodes, InstallWorkloadApps, InstallWorkloadAppsOlvm, Register,
     PostStart, step, others, clusterVars, CapiInv
<1>5. CASE MoveFails(c) \/ MoveFailsOlvm(c) \/ MoveSkippedOlvm(c)
  BY <1>5, <1>c DEF MoveFails, MoveFailsOlvm, MoveSkippedOlvm, step, others, clusterVars, CapiInv
<1>6. CASE MoveCopies(c)
  <2>1. /\ held'[c]["self"] = held[c]["self"] \cup held[c]["boot"]
        /\ held'[c]["boot"] = held[c]["boot"]
        /\ UNCHANGED infra /\ phase'[c] = "moved"
    <3>1. held' = [held EXCEPT ![c]["self"] = @ \cup held[c]["boot"]] /\ UNCHANGED infra
      BY <1>6 DEF MoveCopies
    <3>2. phase'[c] = "moved"
      BY <1>6 DEF MoveCopies, step, CapiInv
    <3> QED
      BY <3>1, <3>2 DEF CapiInv, Places
  <2>2. custodians(c)' = custodians(c) \/ (custodians(c) # {} /\ custodians(c)' = {"boot", "self"})
    BY <1>b, <2>1 DEF Holding
  <2> QED
    BY <1>a, <2>1, <2>2 DEF HolderStep, moveInv
<1>7. CASE MoveDeletes(c)
  <2>1. /\ held'[c]["boot"] = {}
        /\ held'[c]["self"] = held[c]["self"]
        /\ UNCHANGED infra /\ phase'[c] = "close"
        /\ held[c]["boot"] \subseteq held[c]["self"]
    <3>1. held' = [held EXCEPT ![c]["boot"] = {}] /\ UNCHANGED infra
      BY <1>7 DEF MoveDeletes
    <3>2. phase'[c] = "close" /\ phase[c] = "moved"
      BY <1>7 DEF MoveDeletes, step, CapiInv
    <3> QED
      BY <3>1, <3>2, <1>a DEF CapiInv, Places, moveInv
  <2>2. custodians(c)' = custodians(c) \/ (custodians(c) = {"boot", "self"} /\ custodians(c)' = {"self"})
    BY <1>b, <2>1 DEF Holding
  <2> QED
    BY <1>a, <2>1, <2>2 DEF HolderStep, moveInv
<1>8. CASE Close(c)
  BY <1>8, <1>c, StopKeepsHeld DEF Close, step, CapiInv
<1>9. CASE Pivot(c) \/ PivotOlvm(c) \/ BackSkipped(c) \/ BackSkippedOlvm(c)
  BY <1>9, <1>c DEF Pivot, PivotOlvm, BackSkipped, BackSkippedOlvm, step, others, clusterVars, CapiInv
<1>10. CASE BackCopies(c)
  <2>1. /\ held'[c]["boot"] = held[c]["boot"] \cup held[c]["self"]
        /\ held'[c]["self"] = held[c]["self"]
        /\ UNCHANGED infra /\ phase'[c] = "movedBack"
    <3>1. held' = [held EXCEPT ![c]["boot"] = @ \cup held[c]["self"]] /\ UNCHANGED infra
      BY <1>10 DEF BackCopies
    <3>2. phase'[c] = "movedBack"
      BY <1>10 DEF BackCopies, step, CapiInv
    <3> QED
      BY <3>1, <3>2 DEF CapiInv, Places
  <2>2. custodians(c)' = custodians(c) \/ (custodians(c) # {} /\ custodians(c)' = {"boot", "self"})
    BY <1>b, <2>1 DEF Holding
  <2> QED
    BY <1>a, <2>1, <2>2 DEF HolderStep, moveInv
<1>11. CASE BackDeletes(c)
  <2>1. /\ held'[c]["self"] = {}
        /\ held'[c]["boot"] = held[c]["boot"]
        /\ UNCHANGED infra /\ phase'[c] = "remove"
        /\ held[c]["self"] \subseteq held[c]["boot"]
    <3>1. held' = [held EXCEPT ![c]["self"] = {}] /\ UNCHANGED infra
      BY <1>11 DEF BackDeletes
    <3>2. phase'[c] = "remove" /\ phase[c] = "movedBack"
      BY <1>11 DEF BackDeletes, step, CapiInv
    <3> QED
      BY <3>1, <3>2, <1>a DEF CapiInv, Places, moveInv
  <2>2. custodians(c)' = custodians(c) \/ (custodians(c) = {"boot", "self"} /\ custodians(c)' = {"boot"})
    BY <1>b, <2>1 DEF Holding
  <2> QED
    BY <1>a, <2>1, <2>2 DEF HolderStep, moveInv
<1>12. CASE DeleteResource(c) \/ WaitForClusterDeletion(c) \/ Cleanup(c) \/ CleanupOlvm(c)
  BY <1>12, <1>c DEF DeleteResource, WaitForClusterDeletion, Cleanup, CleanupOlvm, step, others, clusterVars,
     CapiInv
<1>13. CASE Fails(c) \/ Fault(c) \/ Kill(c)
  BY <1>13, <1>c DEF Fails, Fault, Kill, fail, step, clusterVars, CapiInv
<1>14. CASE Provision(c)
  <2>1. UNCHANGED held /\ held[c]["boot"] # {} /\ c \in infra' /\ UNCHANGED phase
    BY <1>14, CapiAssumption DEF Provision, procVars
  <2>2. custodians(c) # {} /\ custodians(c)' = custodians(c)
    BY <1>b, <2>1 DEF Holding, custodians
  <2> QED
    BY <1>a, <2>1, <2>2 DEF HolderStep, moveInv
<1>15. CASE Reap(c)
  <2>1. held'[c]["boot"] = {} /\ held'[c]["self"] = {} /\ c \notin infra' /\ UNCHANGED phase
    <3>1. held' = [held EXCEPT ![c] = [p \in Places |-> {}]] /\ infra' = infra \ {c} /\ UNCHANGED phase
      BY <1>15 DEF Reap, procVars
    <3> QED
      BY <3>1 DEF CapiInv, Places
  <2>2. custodians(c)' = {}
    BY <1>b, <2>1 DEF Holding
  <2> QED
    BY <1>a, <2>1, <2>2 DEF HolderStep, moveInv
<1> QED
  BY <1>1, <1>2, <1>3, <1>4, <1>5, <1>6, <1>7, <1>8, <1>9, <1>10, <1>11, <1>12, <1>13, <1>14, <1>15
     DEF Works, Starts, Deletes

-----------------------------------------------------------------------------
(* Commands in order *)

(* Only a command that runs takes a step of a driver. *)
LEMMA WorksIsActive ==
  ASSUME NEW c \in Clusters, Works(c) PROVE phase[c] # "idle"
<1>1. Starts(c) => phase[c] # "idle"
  BY DEF Starts, EnsureCluster, InstallCapi, Prepare, PrepareOlvm, CreateRequiredResources,
   ApplyResource, WaitForKubeconfig, WaitForNodes, InstallWorkloadApps, InstallWorkloadAppsOlvm,
   Register, PostStart, MoveCopies, MoveDeletes, MoveFails, MoveFailsOlvm, MoveSkippedOlvm, Close, step
<1>2. Deletes(c) => phase[c] # "idle"
  BY DEF Deletes, Pivot, PivotOlvm, BackCopies, BackDeletes, BackSkipped, BackSkippedOlvm,
   DeleteResource, WaitForClusterDeletion, Cleanup, CleanupOlvm, step
<1>3. Fails(c) => phase[c] # "idle"
  BY DEF Fails, fail
<1> QED
  BY <1>1, <1>2, <1>3 DEF Works

(* Without failures, only the command of one cluster takes steps. *)
LEMMA OneActive ==
  ASSUME CapiInv, CustodyInv, pivotsInOrder, NEW c \in Clusters, NEW d \in Clusters,
         phase'[c] # "idle", phase'[d] # "idle", c # d, Next
  PROVE  FALSE
<1>0. PICK e \in Clusters :
        \/ \E command \in Commands : Begin(e, command)
        \/ Works(e) \/ Fault(e) \/ Kill(e) \/ Provision(e) \/ Reap(e)
  BY DEF Next
<1>1. Touches(e)
  BY <1>0, StepTouches DEF Kept
<1>2. oneAtATime
  BY DEF CustodyInv
<1>3. world.orderly /\ ~world.faults
  BY DEF pivotsInOrder
<1>4. CASE Provision(e) \/ Reap(e)
  BY <1>2, <1>4 DEF Provision, Reap, procVars, oneAtATime
<1>5. CASE phase[e] # "idle"
  BY <1>1, <1>2, <1>5 DEF Touches, oneAtATime
<1>6. CASE \E command \in Commands : Begin(e, command)
  BY <1>1, <1>3, <1>6 DEF Begin, mayBegin, Touches
<1>7. Works(e) => phase[e] # "idle"
  BY WorksIsActive
<1> QED
  BY <1>0, <1>3, <1>4, <1>5, <1>6, <1>7 DEF Fault, Kill


(* A step about c leaves the others in order: they are idle, or only the   *)
(* controllers work on c.                                                  *)
LEMMA OrderOthers ==
  ASSUME CapiInv, CustodyInv, pivotsInOrder, NEW c \in Clusters, NEW d \in Clusters, d # c,
         \/ \E command \in Commands : Begin(c, command)
         \/ Works(c) \/ Fault(c) \/ Kill(c) \/ Provision(c) \/ Reap(c),
         Next
  PROVE  orderInv(d)'
<1>1. Touches(c) /\ UNCHANGED settings
  BY StepTouches DEF Kept, Touches
<1>2. orderInv(d) /\ oneAtATime
  BY DEF CustodyInv
<1>3. selfManaged(d)' = selfManaged(d)
  BY <1>1, SettingsKept
<1>4. CASE phase[d] = "idle"
  BY <1>1, <1>2, <1>3, <1>4 DEF Touches, orderInv, fresh, untouched, running, DeletePhases
<1>5. CASE Provision(c) \/ Reap(c)
  <2>1. ready(d)' <=> ready(d)
    <3>1. capi'[bootstrap(d)] = capi[bootstrap(d)]
      BY <1>5, SitesType DEF Provision, Reap, CapiInv
    <3> QED
      BY <1>1, <3>1, SettingsKept DEF ready, waitForControllers
  <2>2. alive(d)' <=> alive(d)
    BY <1>1, <1>5 DEF Provision, Reap, alive, settings
  <2>3. waitForControllers(d, d)' <=> waitForControllers(d, d)
    <3>1. capi'[d] = capi[d]
      BY <1>5, SitesType DEF Provision, Reap, CapiInv
    <3> QED
      BY <1>1, <3>1, SettingsKept DEF waitForControllers
  <2>4. d \in deleting' <=> d \in deleting
    BY <1>5 DEF Provision, Reap
  <2> QED
    BY <1>1, <1>2, <1>3, <2>1, <2>2, <2>3, <2>4 DEF Touches, orderInv, fresh, untouched, running, DeletePhases
<1>6. CASE phase[d] # "idle" /\ ~(Provision(c) \/ Reap(c))
  <2>1. phase[c] = "idle"
    BY <1>2, <1>6 DEF oneAtATime
  <2>3. ~Fault(c) /\ ~Kill(c)
    BY DEF pivotsInOrder, Fault, Kill
  <2>4. ~\E command \in Commands : Begin(c, command)
    BY <1>6 DEF pivotsInOrder, Begin, mayBegin
  <2> QED
    BY <1>6, <2>1, <2>3, <2>4, WorksIsActive
<1> QED
  BY <1>4, <1>5, <1>6

(* In order, the only call that cannot succeed is the delete of a Cluster   *)
(* that the bootstrap cluster does not hold.                                *)
LEMMA OrderlyHope ==
  ASSUME CapiInv, NEW c \in Clusters, orderInv(c), hopeless(c)
  PROVE  phase[c] = "remove" /\ held[c]["boot"] = {}
<1>1. status[c] = "started" \/ fresh(c) \/ phase[c] = "idle"
  BY DEF orderInv, fresh, CapiInv, Statuses
<1>2. phase[c] \in {"back", "movedBack"} => running(c) /\ ready(c)
  BY <1>1 DEF orderInv, DeletePhases
<1>3. phase[c] \in {"nodes", "workload", "register", "post"} => running(c)
  BY DEF orderInv
<1>4. phase[c] \in {"prepare", "secrets", "apply", "nodes", "remove", "cleanup"} => ready(c)
  BY DEF orderInv
<1>5. phase[c] = "nodes" => found(c)
  BY <1>4 DEF orderInv, found
<1>6. (phase[c] = "capi" => alive(c)) /\ (ready(c) => alive(c))
  BY ReadyIsAlive DEF orderInv
<1> QED
  BY <1>2, <1>3, <1>4, <1>5, <1>6 DEF hopeless, getOciCcmOptions, found, running

(* A step about c keeps c in order. *)
LEMMA OrderOwn ==
  ASSUME CapiInv, CustodyInv, pivotsInOrder, NEW c \in Clusters,
         \/ \E command \in Commands : Begin(c, command)
         \/ Works(c) \/ Fault(c) \/ Kill(c) \/ Provision(c) \/ Reap(c),
         Next
  PROVE  orderInv(c)'
<1>a. /\ orderInv(c) /\ moveInv(c)
      /\ UNCHANGED settings /\ world.orderly /\ ~world.faults
      /\ selfManaged(c)' = selfManaged(c) /\ bootstrap(c)' = bootstrap(c)
      /\ getApplications(c)' = getApplications(c)
  BY ProcTypesStep, SettingsKept DEF CustodyInv, pivotsInOrder
<1>b. ASSUME UNCHANGED <<ephemeral, capi>>
      PROVE  /\ ready(c)' <=> ready(c)
             /\ alive(c)' <=> alive(c)
             /\ waitForControllers(c, c)' <=> waitForControllers(c, c)
  BY <1>a, <1>b, SitesKept
<1>1. ASSUME NEW command \in Commands, Begin(c, command) PROVE orderInv(c)'
  <2>1. /\ phase[c] = "idle" /\ phase'[c] = "ensure" /\ cmd'[c] = command
        /\ UNCHANGED <<status, held, infra, deleting, kubeconfig, cached>>
    BY <1>1 DEF Begin, mayBegin, clusterVars, CapiInv
  <2>2. /\ command = "start" => fresh(c)
        /\ command = "delete" => status[c] = "started"
    BY <1>a, <1>1 DEF Begin, mayBegin, fresh
  <2> QED
    BY <1>a, <2>1, <2>2 DEF Commands, orderInv, fresh, untouched, running, DeletePhases
<1>3. CASE EnsureCluster(c)
  <2>1. /\ phase[c] = "ensure" /\ phase'[c] = "capi" /\ alive(c)'
        /\ UNCHANGED <<cmd, status, held, infra, deleting, kubeconfig, cached>>
    BY <1>a, <1>3, SettingsType DEF EnsureCluster, step, others, alive, settings, CapiInv, Configs
  <2> QED
    BY <1>a, <2>1 DEF orderInv, fresh, untouched, running, DeletePhases
<1>4. CASE InstallCapi(c)
  <2>1. /\ phase[c] = "capi" /\ phase'[c] = IF cmd[c] = "start" THEN "prepare" ELSE "pivot"
        /\ capi' = [capi EXCEPT ![bootstrap(c)] = @ \cup getApplications(c)]
        /\ UNCHANGED <<cmd, status, held, infra, deleting, kubeconfig, cached>>
    BY <1>4 DEF InstallCapi, step, others, CapiInv
  <2>2. ready(c)'
    BY <1>a, <2>1, SitesType DEF ready, waitForControllers, CapiInv
  <2> QED
    BY <1>a, <2>1, <2>2 DEF orderInv, fresh, untouched, running, DeletePhases
<1>5. CASE Prepare(c) \/ PrepareOlvm(c)
  BY <1>a, <1>b, <1>5 DEF Prepare, PrepareOlvm, step, others, clusterVars, CapiInv,
     orderInv, fresh, untouched, running, DeletePhases
<1>6. CASE CreateRequiredResources(c)
  BY <1>a, <1>b, <1>6 DEF CreateRequiredResources, step, others, clusterVars, CapiInv,
     orderInv, fresh, untouched, running, DeletePhases
<1>7. CASE ApplyResource(c)
  <2>1. /\ phase[c] = "apply" /\ phase'[c] \in {"apply", "kubeconfig"}
        /\ UNCHANGED <<cmd, status, ephemeral, capi, infra, deleting, kubeconfig, cached>>
    BY <1>7 DEF ApplyResource, step, CapiInv
  <2> QED
    BY <1>a, <1>b, <2>1 DEF orderInv, fresh, untouched, running, DeletePhases
<1>8. CASE WaitForKubeconfig(c)
  BY <1>a, <1>b, <1>8, CapiAssumption DEF WaitForKubeconfig, step, others, published, clusterVars, CapiInv,
     orderInv, fresh, untouched, running, DeletePhases
<1>9. CASE WaitForNodes(c) \/ InstallWorkloadApps(c) \/ InstallWorkloadAppsOlvm(c)
  BY <1>a, <1>b, <1>9 DEF WaitForNodes, InstallWorkloadApps, InstallWorkloadAppsOlvm, step, others, clusterVars, CapiInv,
     orderInv, fresh, untouched, running, DeletePhases
<1>10. CASE Register(c)
  BY <1>a, <1>b, <1>10 DEF Register, step, others, clusterVars, CapiInv,
     orderInv, fresh, untouched, running, DeletePhases
<1>11. CASE PostStart(c)
  <2>1. /\ phase[c] = "post" /\ phase'[c] = IF selfManaged(c) THEN "move" ELSE "close"
        /\ capi' = IF selfManaged(c) THEN [capi EXCEPT ![c] = @ \cup getApplications(c)] ELSE capi
        /\ UNCHANGED <<cmd, status, held, infra, deleting, kubeconfig, cached>>
    BY <1>11 DEF PostStart, step, others, CapiInv
  <2>2. capi'[bootstrap(c)] = capi[bootstrap(c)]
    BY <2>1, SitesType DEF CapiInv
  <2>3. ready(c)'
    BY <1>a, <2>1, <2>2, ReadyGrows DEF orderInv, settings
  <2>4. selfManaged(c) => waitForControllers(c, c)'
    BY <1>a, <2>1, SitesType DEF waitForControllers, CapiInv
  <2> QED
    BY <1>a, <2>1, <2>3, <2>4 DEF orderInv, fresh, untouched, running, DeletePhases
<1>12. CASE MoveCopies(c)
  <2>1. /\ phase[c] = "move" /\ phase'[c] = "moved"
        /\ UNCHANGED <<cmd, status, ephemeral, capi, infra, deleting, kubeconfig, cached>>
    BY <1>12 DEF MoveCopies, step, others, CapiInv
  <2> QED
    BY <1>a, <1>b, <2>1 DEF orderInv, fresh, untouched, running, DeletePhases
<1>13. CASE MoveDeletes(c)
  <2>1. /\ phase[c] = "moved" /\ phase'[c] = "close" /\ held' = [held EXCEPT ![c]["boot"] = {}]
        /\ UNCHANGED <<cmd, status, ephemeral, capi, infra, deleting, kubeconfig, cached>>
    BY <1>13 DEF MoveDeletes, step, others, CapiInv
  <2>2. held'[c]["boot"] = {}
    BY <2>1 DEF CapiInv, Places
  <2> QED
    BY <1>a, <1>b, <2>1, <2>2 DEF orderInv, fresh, untouched, running, DeletePhases
<1>14. CASE MoveFails(c) \/ MoveFailsOlvm(c) \/ MoveSkippedOlvm(c)
  <2>1. phase[c] \in {"move", "moved"}
    BY <1>14 DEF MoveFails, MoveFailsOlvm, MoveSkippedOlvm, step
  <2>2. ready(c) /\ waitForControllers(c, c) /\ c \in infra
    BY <1>a, <2>1 DEF orderInv, running
  <2> QED
    BY <1>a, <1>14, <2>2 DEF MoveFails, MoveFailsOlvm, MoveSkippedOlvm, moveRefused, movable
<1>15. CASE Close(c)
  <2>1. phase[c] \in {"close", "closeAgain"}
    BY <1>a, <1>15 DEF Close, orderInv
  <2>2. /\ phase'[c] = IF phase[c] = "close" THEN "closeAgain" ELSE "idle"
        /\ UNCHANGED <<cmd, infra, kubeconfig, cached>> /\ deleting' \subseteq deleting
    BY <1>15, <2>1 DEF Close, step, StopEphemeralCluster, CapiInv
  <2>3. status'[c] = IF phase[c] = "close" THEN status[c] ELSE "started"
    BY <1>15, <2>1 DEF Close, end, CapiInv
  <2>4. held' = held
    BY <1>15, StopKeepsHeld DEF Kept
  <2> QED
    BY <1>a, <2>1, <2>2, <2>3, <2>4 DEF orderInv, fresh, untouched, running, DeletePhases
<1>16. CASE Pivot(c) \/ PivotOlvm(c)
  BY <1>a, <1>b, <1>16 DEF Pivot, PivotOlvm, step, others, clusterVars, CapiInv,
     orderInv, fresh, untouched, running, DeletePhases
<1>17. CASE BackCopies(c)
  <2>1. /\ phase[c] = "back" /\ phase'[c] = "movedBack"
        /\ UNCHANGED <<cmd, status, ephemeral, capi, infra, deleting, kubeconfig, cached>>
    BY <1>17 DEF BackCopies, step, others, CapiInv
  <2> QED
    BY <1>a, <1>b, <2>1 DEF orderInv, fresh, untouched, running, DeletePhases
<1>18. CASE BackDeletes(c)
  <2>1. /\ phase[c] = "movedBack" /\ phase'[c] = "remove"
        /\ UNCHANGED <<cmd, status, ephemeral, capi, infra, deleting, kubeconfig, cached>>
    BY <1>18 DEF BackDeletes, step, others, CapiInv
  <2> QED
    BY <1>a, <1>b, <2>1 DEF orderInv, fresh, untouched, running, DeletePhases
<1>19. CASE BackSkipped(c) \/ BackSkippedOlvm(c)
  BY <1>a, <1>19 DEF BackSkipped, BackSkippedOlvm
<1>20. CASE DeleteResource(c)
  BY <1>a, <1>b, <1>20 DEF DeleteResource, step, others, found, clusterVars, CapiInv,
     orderInv, fresh, untouched, running, DeletePhases
<1>21. CASE WaitForClusterDeletion(c)
  BY <1>a, <1>b, <1>21 DEF WaitForClusterDeletion, step, others, clusterVars, CapiInv,
     orderInv, fresh, untouched, running, DeletePhases
<1>22. CASE Cleanup(c) \/ CleanupOlvm(c)
  <2>1. /\ phase[c] = "cleanup" /\ phase'[c] = "idle" /\ status'[c] = "deleted" /\ c \notin cached'
        /\ UNCHANGED <<cmd, ephemeral, capi, held, infra, deleting>>
    BY <1>22 DEF Cleanup, CleanupOlvm, step, end, CapiInv
  <2> QED
    BY <1>a, <1>b, <2>1 DEF orderInv, fresh, untouched, running, DeletePhases
<1>23. CASE Fails(c)
  <2>1. hopeless(c) /\ fail(c)
    BY <1>a, <1>23 DEF Fails
  <2>2. phase[c] = "remove" /\ held[c]["boot"] = {}
    BY <1>a, <2>1, OrderlyHope
  <2>3. /\ phase'[c] = "idle" /\ status'[c] = "failed"
        /\ UNCHANGED <<cmd, ephemeral, capi, held, infra, deleting, kubeconfig, cached>>
    BY <1>a, <2>1, <2>2 DEF fail, step, end, clusterVars, CapiInv, orderInv, fresh, untouched, running, DeletePhases
  <2> QED
    BY <1>a, <1>b, <2>2, <2>3 DEF orderInv, fresh, untouched, running, DeletePhases
<1>24. CASE Fault(c) \/ Kill(c)
  BY <1>a, <1>24 DEF Fault, Kill
<1>25. CASE Provision(c)
  <2>1. /\ held[c]["boot"] # {} /\ c \notin deleting /\ infra' = infra \cup {c}
        /\ UNCHANGED <<phase, cmd, status, ephemeral, capi, held, deleting, kubeconfig, cached>>
    BY <1>25, CapiAssumption DEF Provision, procVars
  <2> QED
    BY <1>a, <1>b, <2>1 DEF orderInv, fresh, untouched, running, DeletePhases
<1>26. CASE Reap(c)
  <2>1. /\ c \in deleting /\ infra' = infra \ {c} /\ deleting' = deleting \ {c}
        /\ held' = [held EXCEPT ![c] = [p \in Places |-> {}]] /\ capi' = [capi EXCEPT ![c] = {}]
        /\ UNCHANGED <<phase, cmd, status, ephemeral, kubeconfig, cached>>
    BY <1>26 DEF Reap, procVars
  <2>2. held'[c]["boot"] = {} /\ held'[c]["self"] = {}
    BY <2>1 DEF CapiInv, Places
  <2>3. capi'[bootstrap(c)] = capi[bootstrap(c)]
    BY <2>1, SitesType DEF CapiInv
  <2>4. ready(c) => ready(c)'
    BY <1>a, <2>3, ReadyGrows DEF settings
  <2>5. ~fresh(c) /\ phase[c] \in {"idle", "ensure", "capi", "pivot", "back", "movedBack", "remove", "await"}
        /\ ~(status[c] = "started" /\ phase[c] \in {"idle", "ensure", "capi", "pivot", "back", "movedBack"})
    BY <1>a, <2>1 DEF CapiInv, Phases, orderInv, fresh, untouched, running, DeletePhases
  <2>6. alive(c) => alive(c)'
    BY <1>a, <2>1 DEF alive, settings
  <2> QED
    BY <1>a, <2>1, <2>2, <2>4, <2>5, <2>6 DEF orderInv, fresh, untouched, running, DeletePhases
<1> QED
  BY <1>1, <1>3, <1>4, <1>5, <1>6, <1>7, <1>8, <1>9, <1>10, <1>11, <1>12, <1>13, <1>14, <1>15, <1>16, <1>17, <1>18, <1>19, <1>20, <1>21, <1>22, <1>23, <1>24, <1>25, <1>26
     DEF Works, Starts, Deletes

(* CustodyInv holds initially ... *)
LEMMA CustodyInvInit == Init => CustodyInv
<1> SUFFICES ASSUME Init PROVE CustodyInv
  OBVIOUS
<1>1. ASSUME NEW c \in Clusters PROVE moveInv(c) /\ orderInv(c) /\ phase[c] = "idle"
  <2>1. /\ phase[c] = "idle" /\ status[c] = "new" /\ held[c]["boot"] = {} /\ held[c]["self"] = {}
        /\ infra = {} /\ deleting = {} /\ cached = {}
    BY DEF Init, Places
  <2> QED
    BY <2>1 DEF moveInv, orderInv, fresh, untouched, DeletePhases
<1> QED
  BY <1>1 DEF CustodyInv, oneAtATime

(* ... and every step keeps it. *)
LEMMA CustodyInvStep ==
  ASSUME CapiInv, CapiInv', CustodyInv, Next PROVE CustodyInv'
<1>0. PICK c \in Clusters :
        \/ \E command \in Commands : Begin(c, command)
        \/ Works(c) \/ Fault(c) \/ Kill(c) \/ Provision(c) \/ Reap(c)
  BY DEF Next
<1>1. UNCHANGED bootstrapKept /\ UNCHANGED pivotsInOrder
  BY ProcTypesStep, SettingsKept
<1>2. ASSUME Kept, NEW d \in Clusters PROVE moveInv(d)'
  <2>1. CASE d = c
    BY <1>0, <1>2, <2>1, StepHolds
  <2>2. CASE d # c
    <3>1. Touches(c) /\ moveInv(d)
      BY <1>0, <1>2, StepTouches DEF CustodyInv, Kept
    <3> QED
      BY <2>2, <3>1 DEF Touches, moveInv, custodians
  <2> QED
    BY <2>1, <2>2
<1>3. ASSUME pivotsInOrder, NEW d \in Clusters PROVE orderInv(d)'
  BY <1>0, <1>3, OrderOwn, OrderOthers
<1>4. ASSUME pivotsInOrder PROVE oneAtATime'
  BY <1>4, OneActive DEF oneAtATime
<1> QED
  BY <1>1, <1>2, <1>3, <1>4 DEF CustodyInv, Kept

(* Under every fault, as long as the bootstrap cluster is kept, and in     *)
(* order, when clusters are moved out of it before it is removed: a move   *)
(* deletes only what it copied, and no cluster depends on an ephemeral     *)
(* cluster that Close removes.                                             *)
THEOREM CustodyInvHolds == Spec => []CustodyInv
<1>1. CapiInv /\ CapiInv' /\ CustodyInv /\ [Next]_vars => CustodyInv'
  <2> SUFFICES ASSUME CapiInv, CapiInv', CustodyInv, [Next]_vars PROVE CustodyInv'
    OBVIOUS
  <2>1. CASE Next
    BY <2>1, CustodyInvStep
  <2>2. CASE UNCHANGED vars
    <3>1. UNCHANGED bootstrapKept /\ UNCHANGED pivotsInOrder
      BY <2>2, SettingsKept DEF vars
    <3>2. ASSUME NEW c \in Clusters PROVE (moveInv(c) => moveInv(c)') /\ (orderInv(c) => orderInv(c)')
      <4>1. /\ ready(c)' <=> ready(c)
            /\ alive(c)' <=> alive(c)
            /\ waitForControllers(c, c)' <=> waitForControllers(c, c)
            /\ selfManaged(c)' = selfManaged(c)
        BY <2>2, SettingsKept, SitesKept DEF vars, clusterVars
      <4> QED
        BY <2>2, <4>1 DEF vars, clusterVars, procVars, moveInv, custodians, orderInv, fresh, untouched, running
    <3> QED
      BY <2>2, <3>1, <3>2 DEF CustodyInv, oneAtATime, vars, procVars
  <2> QED
    BY <2>1, <2>2
<1> QED
  BY <1>1, CapiInvHolds, CustodyInvInit, PTL DEF Spec

(* Machines always have a cluster that manages them: under every fault if  *)
(* the bootstrap cluster is kept, and in order if clusters that use the    *)
(* ephemeral cluster are self-managed (PostStart and Close).               *)
THEOREM MachinesStayManaged == Spec => []MachinesManaged
<1>1. CapiInv /\ CustodyInv => MachinesManaged
  BY DEF CapiInv, CustodyInv, MachinesManaged, moveInv
<1> QED
  BY <1>1, CapiInvHolds, CustodyInvHolds, PTL

(* The drivers implement Custody: every step of theirs is a step of        *)
(* Custody about one cluster, or leaves it alone.                          *)
THEOREM DriversKeepCustody == Spec => KeepsCustody
<1>1. Init => custody!Init
  <2> SUFFICES ASSUME Init PROVE custody!Init
    OBVIOUS
  <2>1. ASSUME NEW c \in Clusters PROVE custodians(c) = {} /\ c \notin infra
    BY DEF Init, custodians
  <2>2. [c \in Clusters |-> custodians(c)] = [c \in Clusters |-> {}]
    BY <2>1
  <2> QED
    BY <2>2 DEF Init, custody!Init
<1>2. CapiInv /\ CapiInv' /\ CustodyInv /\ [Next]_vars
        => [custody!Next \/ ~(bootstrapKept \/ pivotsInOrder)]_(custody!custodyVars)
  <2> SUFFICES ASSUME CapiInv, CapiInv', CustodyInv, [Next]_vars, Kept
               PROVE  custody!Next \/ UNCHANGED custody!custodyVars
    BY DEF Kept
  <2>1. CASE UNCHANGED vars
    BY <2>1 DEF vars, clusterVars, custody!custodyVars, custodians
  <2>2. CASE Next
    <3>0. PICK c \in Clusters :
            \/ \E command \in Commands : Begin(c, command)
            \/ Works(c) \/ Fault(c) \/ Kill(c) \/ Provision(c) \/ Reap(c)
      BY <2>2 DEF Next
    <3>1. HolderStep(c) /\ Touches(c)
      BY <2>2, <3>0, StepHolds, StepTouches
    <3>2. ASSUME NEW d \in Clusters, d # c
          PROVE  custodians(d)' = custodians(d) /\ (d \in infra' <=> d \in infra)
      BY <3>1, <3>2 DEF Touches, custodians
    <3> DEFINE K == custodians(c)
               L == custodians(c)'
               H == [d \in Clusters |-> custodians(d)]
    <3>3. H' = [H EXCEPT ![c] = L] /\ H[c] = K /\ H \in [Clusters -> SUBSET Places]
      BY <3>2 DEF custodians
    <3>4. infra \subseteq Clusters /\ infra' \subseteq Clusters
      BY DEF CapiInv
    <3>5. (c \in infra' <=> c \in infra) => infra' = infra
      BY <3>2, <3>4
    <3>6. c \in infra' => infra' = infra \cup {c}
      BY <3>2, <3>4
    <3>7. c \notin infra' => infra' = infra \ {c}
      BY <3>2, <3>4
    <3> HIDE DEF H, K, L
    <3>8. CASE L = K /\ (c \in infra' <=> c \in infra)
      <4>1. H' = H /\ infra' = infra
        BY <3>3, <3>5, <3>8
      <4> QED
        BY <4>1 DEF H, custody!custodyVars
    <3>9. CASE L = K \cup {"boot"} /\ (c \in infra' <=> c \in infra)
      <4>1. H' = [H EXCEPT ![c] = @ \cup {"boot"}] /\ infra' = infra
        BY <3>3, <3>5, <3>9
      <4> QED
        BY <4>1 DEF H, custody!Next, custody!Apply
    <3>10. CASE K # {} /\ L = {"boot", "self"} /\ (c \in infra' <=> c \in infra)
      <4>1. H[c] # {} /\ H' = [H EXCEPT ![c] = {"boot", "self"}] /\ infra' = infra
        BY <3>3, <3>5, <3>10
      <4> QED
        BY <4>1 DEF H, custody!Next, custody!Copy
    <3>11. CASE K = {"boot", "self"} /\ (L = {"boot"} \/ L = {"self"}) /\ (c \in infra' <=> c \in infra)
      <4>1. /\ H[c] = {"boot", "self"} /\ infra' = infra
            /\ \E h \in {"boot", "self"} : H' = [H EXCEPT ![c] = {h}]
        BY <3>3, <3>5, <3>11
      <4> QED
        BY <4>1 DEF H, custody!Next, custody!Drop
    <3>12. CASE K # {} /\ L = K /\ c \in infra'
      <4>1. H[c] # {} /\ H' = H /\ infra' = infra \cup {c}
        BY <3>3, <3>6, <3>12
      <4> QED
        BY <4>1 DEF H, custody!Next, custody!Provision
    <3>13. CASE K # {} /\ L = {} /\ c \notin infra'
      <4>1. H[c] # {} /\ H' = [H EXCEPT ![c] = {}] /\ infra' = infra \ {c}
        BY <3>3, <3>7, <3>13
      <4> QED
        BY <4>1 DEF H, custody!Next, custody!Destroy
    <3> QED
      BY <3>1, <3>8, <3>9, <3>10, <3>11, <3>12, <3>13 DEF HolderStep, K, L
  <2> QED
    BY <2>1, <2>2
<1> QED
  BY <1>1, <1>2, CapiInvHolds, CustodyInvHolds, PTL DEF Spec, KeepsCustody

-----------------------------------------------------------------------------
(* Success *)

(* What a step about c changes of the other clusters, whatever fails: Close *)
(* may take the ephemeral cluster away from them.                           *)
Beside(c) ==
    /\ UNCHANGED settings
    /\ \A d \in Clusters \ {c} :
        /\ phase'[d] = phase[d] /\ status'[d] = status[d] /\ cmd'[d] = cmd[d]
        /\ d \in infra' <=> d \in infra
        /\ d \in kubeconfig' <=> d \in kubeconfig
        /\ d \in deleting' => d \in deleting
        /\ \/ held'[d] = held[d] /\ (d \in deleting' <=> d \in deleting)
           \/ /\ Close(c) /\ stops(c)
              /\ held'[d]["boot"] \subseteq held[d]["boot"] /\ held'[d]["self"] = held[d]["self"]

LEMMA StepBeside ==
  ASSUME CapiInv, NEW c \in Clusters,
         \/ \E command \in Commands : Begin(c, command)
         \/ Works(c) \/ Fault(c) \/ Kill(c) \/ Provision(c) \/ Reap(c),
         Next
  PROVE  Beside(c)
<1> USE ProcTypesStep
<1>1. CASE \E command \in Commands : Begin(c, command)
  BY <1>1 DEF Begin, Beside, clusterVars, CapiInv
<1>2. CASE EnsureCluster(c) \/ InstallCapi(c) \/ Prepare(c) \/ PrepareOlvm(c) \/ CreateRequiredResources(c)
  BY <1>2 DEF EnsureCluster, InstallCapi, Prepare, PrepareOlvm, CreateRequiredResources, step, others,
     Beside, clusterVars, CapiInv
<1>3. CASE ApplyResource(c)
  BY <1>3 DEF ApplyResource, step, Beside, CapiInv
<1>4. CASE WaitForKubeconfig(c) \/ WaitForNodes(c) \/ InstallWorkloadApps(c) \/ InstallWorkloadAppsOlvm(c)
           \/ Register(c) \/ PostStart(c)
  BY <1>4 DEF WaitForKubeconfig, WaitForNodes, InstallWorkloadApps, InstallWorkloadAppsOlvm, Register,
     PostStart, step, others, Beside, clusterVars, CapiInv
<1>5. CASE MoveCopies(c) \/ MoveDeletes(c) \/ MoveFails(c) \/ MoveFailsOlvm(c) \/ MoveSkippedOlvm(c)
  BY <1>5 DEF MoveCopies, MoveDeletes, MoveFails, MoveFailsOlvm, MoveSkippedOlvm, step, others,
     Beside, clusterVars, CapiInv
<1>6. CASE Close(c)
  <2>1. ASSUME NEW d \in Clusters \ {c}
        PROVE  \/ held'[d] = held[d] /\ (d \in deleting' <=> d \in deleting)
               \/ /\ stops(c) /\ (d \in deleting' => d \in deleting)
                  /\ held'[d]["boot"] \subseteq held[d]["boot"] /\ held'[d]["self"] = held[d]["self"]
    BY <1>6 DEF Close, StopEphemeralCluster, CapiInv, Places
  <2>3. \A d \in Clusters \ {c} : phase'[d] = phase[d] /\ status'[d] = status[d] /\ cmd'[d] = cmd[d]
    BY <1>6 DEF Close, step, end, CapiInv
  <2> QED
    BY <1>6, <2>1, <2>3 DEF Close, Beside
<1>7. CASE Pivot(c) \/ PivotOlvm(c) \/ BackCopies(c) \/ BackDeletes(c) \/ BackSkipped(c)
  BY <1>7 DEF Pivot, PivotOlvm, BackCopies, BackDeletes, BackSkipped, step, others, Beside,
     clusterVars, CapiInv
<1>8. CASE BackSkippedOlvm(c) \/ DeleteResource(c) \/ WaitForClusterDeletion(c) \/ Cleanup(c) \/ CleanupOlvm(c)
  BY <1>8 DEF BackSkippedOlvm, DeleteResource, WaitForClusterDeletion, Cleanup, CleanupOlvm, step, others,
     end, Beside, clusterVars, CapiInv
<1>9. CASE Fails(c) \/ Fault(c) \/ Kill(c)
  BY <1>9 DEF Fails, Fault, Kill, fail, step, end, Beside, clusterVars, CapiInv
<1>10. CASE Provision(c) \/ Reap(c)
  BY <1>10 DEF Provision, Reap, procVars, Beside, CapiInv
<1> QED
  BY <1>1, <1>2, <1>3, <1>4, <1>5, <1>6, <1>7, <1>8, <1>9, <1>10 DEF Works, Starts, Deletes

(* In order, one command runs at a time, failures or not. *)
LEMMA AloneStep ==
  ASSUME CapiInv, world.orderly, oneAtATime, Next PROVE oneAtATime'
<1>0. PICK e \in Clusters :
        \/ \E command \in Commands : Begin(e, command)
        \/ Works(e) \/ Fault(e) \/ Kill(e) \/ Provision(e) \/ Reap(e)
  BY DEF Next
<1>1. Beside(e)
  BY <1>0, StepBeside
<1>4. CASE Provision(e) \/ Reap(e)
  BY <1>4 DEF Provision, Reap, procVars, oneAtATime
<1>5. CASE phase[e] # "idle"
  BY <1>1, <1>5 DEF Beside, oneAtATime
<1>6. CASE \E command \in Commands : Begin(e, command)
  BY <1>1, <1>6 DEF Begin, mayBegin, Beside, oneAtATime
<1>7. Works(e) \/ Fault(e) \/ Kill(e) => phase[e] # "idle"
  BY WorksIsActive DEF Fault, Kill, fail
<1> QED
  BY <1>0, <1>4, <1>5, <1>6, <1>7

(* What the configuration of a cluster says. *)
LEMMA ConfKept ==
  ASSUME UNCHANGED settings, NEW c \in Clusters
  PROVE  /\ (olvm(c) => ~world.faults)' <=> (olvm(c) => ~world.faults)
         /\ selfManaged(c)' = selfManaged(c)
         /\ pivotsBack(c)' = pivotsBack(c)
BY DEF settings, selfManaged, pivotsBack, olvm

(* A step about c does not bring d back ... *)
LEMMA GoneOthers ==
  ASSUME CapiInv, world.orderly \/ bootstrapKept, world.orderly => oneAtATime,
         NEW c \in Clusters, NEW d \in Clusters, d # c, Beside(c), goneInv(d)
  PROVE  goneInv(d)'
<1>1. (olvm(d) => ~world.faults)' <=> (olvm(d) => ~world.faults)
  BY ConfKept DEF Beside
<1>2. CASE held'[d] = held[d] /\ (d \in deleting' <=> d \in deleting)
  BY <1>1, <1>2 DEF Beside, goneInv, untouched
<1>3. CASE /\ Close(c) /\ stops(c)
           /\ held'[d]["boot"] \subseteq held[d]["boot"] /\ held'[d]["self"] = held[d]["self"]
  <2>1. phase[c] # "idle" /\ world.orderly
    BY <1>3 DEF Close, stops, bootstrapKept
  <2>2. phase[d] = "idle"
    BY <2>1 DEF oneAtATime
  <2> QED
    BY <1>1, <1>3, <2>2 DEF Beside, goneInv, untouched
<1> QED
  BY <1>2, <1>3 DEF Beside

(* ... nor does a step about d itself. *)
LEMMA GoneOwn ==
  ASSUME CapiInv, NEW c \in Clusters, goneInv(c),
         \/ \E command \in Commands : Begin(c, command)
         \/ Works(c) \/ Fault(c) \/ Kill(c) \/ Provision(c) \/ Reap(c),
         Next
  PROVE  goneInv(c)'
<1>a. UNCHANGED settings /\ ((olvm(c) => ~world.faults)' <=> (olvm(c) => ~world.faults))
  BY ProcTypesStep, ConfKept
<1>b. ASSUME phase'[c] \notin {"idle", "await", "cleanup"} PROVE goneInv(c)'
  BY <1>b DEF goneInv
<1>c. ASSUME phase'[c] = "idle", status'[c] # "deleted" PROVE goneInv(c)'
  BY <1>c DEF goneInv
<1>1. CASE \E command \in Commands : Begin(c, command)
  BY <1>1, <1>b DEF Begin, CapiInv
<1>2. CASE Starts(c) /\ ~Close(c)
  <2>1. phase'[c] \notin {"idle", "await", "cleanup"}
    BY <1>2 DEF Starts, EnsureCluster, InstallCapi, Prepare, PrepareOlvm, CreateRequiredResources,
       ApplyResource, WaitForKubeconfig, WaitForNodes, InstallWorkloadApps, InstallWorkloadAppsOlvm,
       Register, PostStart, MoveCopies, MoveDeletes, MoveFails, MoveFailsOlvm, MoveSkippedOlvm, step, CapiInv
  <2> QED
    BY <1>b, <2>1
<1>3. CASE Close(c)
  <2>1. phase[c] \in {"close", "closeAgain", "failed"}
        /\ phase'[c] = IF phase[c] = "close" THEN "closeAgain" ELSE "idle"
    BY <1>3 DEF Close, step, CapiInv
  <2>2. phase[c] # "close" => status'[c] \in {"started", "failed"}
    BY <1>3, <2>1 DEF Close, end, CapiInv
  <2> QED
    BY <1>b, <1>c, <2>1, <2>2
<1>4. CASE Pivot(c) \/ PivotOlvm(c) \/ BackCopies(c) \/ BackDeletes(c) \/ BackSkipped(c)
  BY <1>4, <1>b DEF Pivot, PivotOlvm, BackCopies, BackDeletes, BackSkipped, step, CapiInv
<1>5. CASE BackSkippedOlvm(c)
  BY <1>a, <1>5 DEF BackSkippedOlvm, step, goneInv, CapiInv
<1>6. CASE DeleteResource(c)
  <2>1. phase'[c] = "await" /\ c \in deleting' /\ held'[c]["boot"] # {}
    BY <1>6 DEF DeleteResource, found, step, CapiInv
  <2> QED
    BY <2>1 DEF goneInv
<1>7. CASE WaitForClusterDeletion(c)
  <2>1. phase[c] = "await" /\ phase'[c] = "cleanup" /\ held[c]["boot"] = {}
        /\ UNCHANGED <<held, infra, deleting>>
    BY <1>7 DEF WaitForClusterDeletion, step, clusterVars, CapiInv
  <2> QED
    BY <2>1 DEF goneInv, untouched
<1>8. CASE Cleanup(c) \/ CleanupOlvm(c)
  <2>1. phase[c] = "cleanup" /\ phase'[c] = "idle" /\ UNCHANGED <<held, infra, deleting>>
    BY <1>8 DEF Cleanup, CleanupOlvm, step, CapiInv
  <2> QED
    BY <2>1 DEF goneInv, untouched
<1>9. CASE Fails(c) \/ Fault(c)
  <2>1. fail(c)
    BY <1>9 DEF Fails, Fault
  <2>2. phase'[c] = "failed" \/ (phase'[c] = "idle" /\ status'[c] = "failed")
    BY <2>1 DEF fail, step, end, CapiInv
  <2> QED
    BY <1>b, <1>c, <2>2
<1>10. CASE Kill(c)
  BY <1>10, <1>c DEF Kill, step, end, CapiInv
<1>11. CASE Provision(c)
  <2>1. ~untouched(c) /\ c \notin deleting /\ UNCHANGED <<phase, status, held, deleting>>
    BY <1>11, CapiAssumption DEF Provision, procVars, untouched
  <2> QED
    BY <1>a, <2>1 DEF goneInv
<1>12. CASE Reap(c)
  <2>1. /\ held' = [held EXCEPT ![c] = [p \in Places |-> {}]]
        /\ c \notin infra' /\ c \notin deleting'
    BY <1>12 DEF Reap
  <2>2. held'[c]["boot"] = {} /\ held'[c]["self"] = {}
    BY <2>1 DEF CapiInv, Places
  <2> QED
    BY <2>1, <2>2 DEF goneInv, untouched
<1> QED
  BY <1>1, <1>2, <1>3, <1>4, <1>5, <1>6, <1>7, <1>8, <1>9, <1>10, <1>11, <1>12 DEF Works, Deletes

(* A step about c leaves what the order says about d. *)
LEMMA TurnOthers ==
  ASSUME NEW c \in Clusters, NEW d \in Clusters, d # c, Beside(c), turnInv(d)
  PROVE  turnInv(d)'
BY DEF Beside, turnInv, fresh, running

(* A step about c keeps what the order says about c, also when it fails. *)
LEMMA TurnOwn ==
  ASSUME CapiInv, world.orderly, NEW c \in Clusters, turnInv(c), goneInv(c),
         \/ \E command \in Commands : Begin(c, command)
         \/ Works(c) \/ Fault(c) \/ Kill(c) \/ Provision(c) \/ Reap(c),
         Next
  PROVE  turnInv(c)'
<1> USE DEF turnInv, fresh, running, DeletePhases
<1>1. ASSUME NEW command \in Commands, Begin(c, command) PROVE turnInv(c)'
  <2>1. /\ phase[c] = "idle" /\ phase'[c] = "ensure" /\ cmd'[c] = command
        /\ UNCHANGED <<status, infra, deleting, kubeconfig>>
    BY <1>1 DEF Begin, mayBegin, clusterVars, CapiInv
  <2>2. /\ command = "start" => fresh(c)
        /\ command = "delete" => status[c] = "started"
    BY <1>1 DEF Begin, mayBegin
  <2> QED
    BY <2>1, <2>2 DEF Commands
<1>2. CASE \/ EnsureCluster(c) \/ Prepare(c) \/ PrepareOlvm(c) \/ CreateRequiredResources(c)
           \/ InstallWorkloadApps(c) \/ InstallWorkloadAppsOlvm(c)
  BY <1>2 DEF EnsureCluster, Prepare, PrepareOlvm, CreateRequiredResources,
     InstallWorkloadApps, InstallWorkloadAppsOlvm, step, others, clusterVars, CapiInv
<1>3. CASE InstallCapi(c)
  BY <1>3 DEF InstallCapi, step, others, CapiInv, Commands
<1>4. CASE ApplyResource(c)
  <2>1. /\ phase[c] = "apply" /\ phase'[c] \in {"apply", "kubeconfig"}
        /\ UNCHANGED <<cmd, status, infra, deleting, kubeconfig>>
    BY <1>4 DEF ApplyResource, step, CapiInv
  <2> QED
    BY <2>1
<1>5. CASE WaitForKubeconfig(c)
  BY <1>5 DEF WaitForKubeconfig, step, others, published, CapiInv
<1>6. CASE WaitForNodes(c) \/ Register(c) \/ PostStart(c)
  BY <1>6 DEF WaitForNodes, Register, PostStart, step, others, clusterVars, CapiInv
<1>7. CASE MoveCopies(c) \/ MoveDeletes(c) \/ MoveFails(c) \/ MoveFailsOlvm(c) \/ MoveSkippedOlvm(c)
  BY <1>7 DEF MoveCopies, MoveDeletes, MoveFails, MoveFailsOlvm, MoveSkippedOlvm, step, others,
     clusterVars, CapiInv
<1>8. CASE Close(c)
  <2>1. /\ phase[c] \in {"close", "closeAgain", "failed"}
        /\ phase'[c] = IF phase[c] = "close" THEN "closeAgain" ELSE "idle"
        /\ UNCHANGED <<cmd, infra, kubeconfig>> /\ deleting' \subseteq deleting
    BY <1>8 DEF Close, step, StopEphemeralCluster, CapiInv
  <2>2. status'[c] = CASE phase[c] = "close" -> status[c]
                       [] phase[c] = "closeAgain" -> "started"
                       [] phase[c] = "failed" -> "failed"
    BY <1>8, <2>1 DEF Close, end, CapiInv
  <2> QED
    BY <2>1, <2>2
<1>9. CASE Pivot(c) \/ PivotOlvm(c) \/ BackCopies(c) \/ BackDeletes(c) \/ BackSkipped(c)
  BY <1>9 DEF Pivot, PivotOlvm, BackCopies, BackDeletes, BackSkipped, step, others, clusterVars, CapiInv
<1>10. CASE BackSkippedOlvm(c)
  BY <1>10 DEF BackSkippedOlvm, step, end, CapiInv
<1>11. CASE DeleteResource(c) \/ WaitForClusterDeletion(c)
  BY <1>11 DEF DeleteResource, WaitForClusterDeletion, step, others, clusterVars, CapiInv
<1>12. CASE Cleanup(c) \/ CleanupOlvm(c)
  BY <1>12 DEF Cleanup, CleanupOlvm, step, end, CapiInv, goneInv, untouched
<1>13. CASE Fails(c) \/ Fault(c)
  <2>1. fail(c)
    BY <1>13 DEF Fails, Fault
  <2>2. \/ /\ cmd[c] = "start" /\ phase[c] \notin {"idle", "ensure", "capi"}
           /\ phase'[c] = "failed" /\ status'[c] = status[c]
        \/ phase'[c] = "idle" /\ status'[c] = "failed"
    BY <2>1 DEF fail, step, end, CapiInv
  <2>3. UNCHANGED <<cmd, infra, deleting, kubeconfig>>
    BY <2>1 DEF fail, step, clusterVars
  <2> QED
    BY <2>2, <2>3
<1>14. CASE Kill(c)
  <2>1. phase'[c] = "idle" /\ status'[c] = "killed" /\ UNCHANGED <<cmd, infra, deleting, kubeconfig>>
    BY <1>14 DEF Kill, step, end, clusterVars, CapiInv
  <2> QED
    BY <2>1
<1>15. CASE Provision(c)
  BY <1>15 DEF Provision, procVars
<1>16. CASE Reap(c)
  <2>1. /\ c \in deleting /\ infra' = infra \ {c} /\ deleting' = deleting \ {c}
        /\ UNCHANGED <<phase, cmd, status, kubeconfig>>
    BY <1>16 DEF Reap, procVars
  <2>2. ~fresh(c) /\ phase[c] \in Phases /\ cmd[c] \in Commands
    BY <2>1 DEF CapiInv
  <2> QED
    BY <2>1, <2>2 DEF Phases, Commands
<1> QED
  BY <1>1, <1>2, <1>3, <1>4, <1>5, <1>6, <1>7, <1>8, <1>9, <1>10, <1>11, <1>12, <1>13, <1>14, <1>15, <1>16
     DEF Works, Starts, Deletes

(* A step about c leaves the objects and the controllers of d in place ... *)
LEMMA PlaceOthers ==
  ASSUME CapiInv, CustodyInv, pivotsInOrder, NEW c \in Clusters, NEW d \in Clusters, d # c, placeInv(d),
         \/ \E command \in Commands : Begin(c, command)
         \/ Works(c) \/ Fault(c) \/ Kill(c) \/ Provision(c) \/ Reap(c),
         Next
  PROVE  placeInv(d)'
<1>1. Touches(c)
  BY StepTouches DEF Kept
<1>2. /\ selfManaged(d)' = selfManaged(d) /\ pivotsBack(d)' = pivotsBack(d)
      /\ getApplications(d)' = getApplications(d)
  BY <1>1, SettingsKept, ConfKept DEF Touches
<1>3. \A x \in Sites : x \notin {c, bootstrap(c), "ephemeral"} => capi'[x] = capi[x]
  BY SitesType DEF Works, Starts, Deletes, Begin, Fault, Kill, Fails, fail, Provision, Reap,
     EnsureCluster, InstallCapi, Prepare, PrepareOlvm, CreateRequiredResources,
     ApplyResource, WaitForKubeconfig, WaitForNodes, InstallWorkloadApps, InstallWorkloadAppsOlvm,
     Register, PostStart, MoveCopies, MoveDeletes, MoveFails, MoveFailsOlvm, MoveSkippedOlvm, Close,
     StopEphemeralCluster, Pivot, PivotOlvm, BackCopies, BackDeletes, BackSkipped, BackSkippedOlvm,
     DeleteResource, WaitForClusterDeletion, Cleanup, CleanupOlvm, clusterVars, CapiInv
<1>4. capi'[d] = capi[d]
  BY <1>3, SitesType
<1>5. waitForControllers(d, d)' <=> waitForControllers(d, d)
  BY <1>2, <1>4 DEF waitForControllers
<1> QED
  BY <1>1, <1>2, <1>5 DEF Touches, placeInv

(* ... and those of c where the phase of its command says. *)
LEMMA PlaceOwn ==
  ASSUME CapiInv, CustodyInv, pivotsInOrder, NEW c \in Clusters, placeInv(c),
         \/ \E command \in Commands : Begin(c, command)
         \/ Works(c) \/ Fault(c) \/ Kill(c) \/ Provision(c) \/ Reap(c),
         Next
  PROVE  placeInv(c)'
<1>a. /\ orderInv(c) /\ moveInv(c)
      /\ UNCHANGED settings /\ world.orderly /\ ~world.faults
      /\ selfManaged(c)' = selfManaged(c) /\ pivotsBack(c)' = pivotsBack(c)
      /\ bootstrap(c)' = bootstrap(c) /\ getApplications(c)' = getApplications(c)
  BY ProcTypesStep, SettingsKept, ConfKept DEF CustodyInv, pivotsInOrder
<1>b. ASSUME UNCHANGED capi PROVE waitForControllers(c, c)' <=> waitForControllers(c, c)
  BY <1>a, <1>b DEF waitForControllers
<1>c. c \in infra => held[c]["boot"] # {} \/ held[c]["self"] # {}
  BY <1>a DEF moveInv, custodians, Places
<1>d. phase[c] \in DeletePhases => ~fresh(c) /\ status[c] = "started"
  BY <1>a DEF orderInv, CapiInv, Statuses, fresh, DeletePhases
<1>1. CASE \E command \in Commands : Begin(c, command)
  BY <1>a, <1>b, <1>1 DEF Begin, clusterVars, CapiInv, placeInv
<1>2. CASE EnsureCluster(c) \/ Prepare(c) \/ PrepareOlvm(c) \/ CreateRequiredResources(c)
  BY <1>a, <1>b, <1>2 DEF EnsureCluster, Prepare, PrepareOlvm, CreateRequiredResources, step, others,
     clusterVars, CapiInv, placeInv
<1>3. CASE InstallCapi(c)
  BY <1>a, <1>3 DEF InstallCapi, step, others, CapiInv, placeInv
<1>4. CASE ApplyResource(c)
  <2>1. /\ phase'[c] \in {"apply", "kubeconfig"} /\ UNCHANGED status /\ held'[c]["self"] = held[c]["self"]
    BY <1>4 DEF ApplyResource, step, CapiInv, Places
  <2> QED
    BY <1>a, <2>1 DEF placeInv
<1>5. CASE \/ WaitForKubeconfig(c) \/ WaitForNodes(c) \/ InstallWorkloadApps(c)
           \/ InstallWorkloadAppsOlvm(c) \/ Register(c)
  BY <1>a, <1>b, <1>5 DEF WaitForKubeconfig, WaitForNodes, InstallWorkloadApps, InstallWorkloadAppsOlvm,
     Register, step, others, clusterVars, CapiInv, placeInv
<1>6. CASE PostStart(c)
  BY <1>a, <1>6 DEF PostStart, step, others, CapiInv, placeInv
<1>7. CASE MoveCopies(c)
  <2>1. /\ phase[c] = "move" /\ phase'[c] = "moved" /\ selfManaged(c)
        /\ UNCHANGED <<status, deleting>>
    BY <1>a, <1>7 DEF MoveCopies, step, others, orderInv, CapiInv
  <2> QED
    BY <1>a, <2>1 DEF placeInv
<1>8. CASE MoveDeletes(c)
  <2>1. /\ phase[c] = "moved" /\ phase'[c] = "close" /\ waitForControllers(c, c)
        /\ UNCHANGED <<status, capi>> /\ held' = [held EXCEPT ![c]["boot"] = {}]
    BY <1>a, <1>8 DEF MoveDeletes, step, others, orderInv, CapiInv
  <2>2. held'[c]["self"] = held[c]["self"]
    BY <2>1 DEF CapiInv, Places
  <2> QED
    BY <1>a, <1>b, <2>1, <2>2 DEF placeInv
<1>9. CASE MoveFails(c) \/ MoveFailsOlvm(c) \/ MoveSkippedOlvm(c)
  <2>1. phase[c] \in {"move", "moved"}
    BY <1>9 DEF MoveFails, MoveFailsOlvm, MoveSkippedOlvm, step
  <2>2. ready(c) /\ waitForControllers(c, c) /\ c \in infra
    BY <1>a, <2>1 DEF orderInv, running
  <2> QED
    BY <1>a, <1>9, <2>2 DEF MoveFails, MoveFailsOlvm, MoveSkippedOlvm, moveRefused, movable
<1>10. CASE Close(c)
  <2>1. phase[c] \in {"close", "closeAgain"}
    BY <1>a, <1>10 DEF Close, orderInv
  <2>2. phase'[c] = IF phase[c] = "close" THEN "closeAgain" ELSE "idle"
    BY <1>10, <2>1 DEF Close, step, CapiInv
  <2>3. status'[c] = IF phase[c] = "close" THEN status[c] ELSE "started"
    BY <1>10, <2>1 DEF Close, end, CapiInv
  <2>4. held' = held /\ capi'[c] = capi[c]
    BY <1>10, StopKeepsHeld, SitesType DEF Kept, Close, StopEphemeralCluster, CapiInv
  <2>5. waitForControllers(c, c)' <=> waitForControllers(c, c)
    BY <1>a, <2>4 DEF waitForControllers
  <2> QED
    BY <1>a, <2>1, <2>2, <2>3, <2>4, <2>5 DEF placeInv
<1>11. CASE Pivot(c)
  <2>1. /\ phase[c] = "pivot" /\ UNCHANGED <<status, held, infra, deleting>>
        /\ phase'[c] \in {"back", "remove"}
        /\ phase'[c] = "remove" =>
              ~pivotsBack(c) \/ ~(c \in kubeconfig /\ c \in infra /\ held[c]["self"] # {})
    BY <1>a, <1>11 DEF Pivot, step, others, clusterVars, CapiInv
  <2>2. running(c) /\ c \notin deleting
    BY <1>a, <1>d, <2>1 DEF orderInv, DeletePhases
  <2>3. selfManaged(c) = pivotsBack(c) /\ phase'[c] = "remove" => held[c]["boot"] # {}
    BY <1>c, <2>1, <2>2 DEF placeInv, running
  <2> QED
    BY <1>a, <2>1, <2>2, <2>3 DEF placeInv
<1>12. CASE PivotOlvm(c)
  <2>1. /\ phase[c] = "pivot" /\ UNCHANGED <<status, held, infra, deleting>>
        /\ phase'[c] = IF pivotsBack(c) THEN "back" ELSE "remove"
    BY <1>12 DEF PivotOlvm, step, others, clusterVars, CapiInv
  <2>2. running(c) /\ c \notin deleting
    BY <1>a, <1>d, <2>1 DEF orderInv, DeletePhases
  <2>3. selfManaged(c) = pivotsBack(c) /\ phase'[c] = "remove" => held[c]["boot"] # {}
    BY <1>c, <2>1, <2>2 DEF placeInv, running
  <2> QED
    BY <1>a, <2>1, <2>2, <2>3 DEF placeInv
<1>13. CASE BackCopies(c)
  <2>1. /\ phase[c] = "back" /\ phase'[c] = "movedBack" /\ c \in infra
        /\ UNCHANGED <<status, deleting>> /\ held' = [held EXCEPT ![c]["boot"] = @ \cup held[c]["self"]]
    BY <1>13 DEF BackCopies, step, others, CapiInv
  <2>2. held'[c]["self"] = held[c]["self"] /\ held'[c]["boot"] = held[c]["boot"] \cup held[c]["self"]
    BY <2>1 DEF CapiInv, Places
  <2> QED
    BY <1>a, <1>c, <1>d, <2>1, <2>2 DEF placeInv, DeletePhases
<1>14. CASE BackDeletes(c)
  <2>1. /\ phase[c] = "movedBack" /\ phase'[c] = "remove"
        /\ UNCHANGED <<status, deleting>> /\ held' = [held EXCEPT ![c]["self"] = {}]
    BY <1>14 DEF BackDeletes, step, others, CapiInv
  <2>2. held'[c]["self"] = {} /\ held'[c]["boot"] = held[c]["boot"]
    BY <2>1 DEF CapiInv, Places
  <2>3. c \notin deleting
    BY <1>a, <1>d, <2>1 DEF orderInv, DeletePhases
  <2> QED
    BY <1>a, <2>1, <2>2, <2>3 DEF placeInv
<1>15. CASE BackSkipped(c) \/ BackSkippedOlvm(c) \/ Fault(c) \/ Kill(c)
  BY <1>a, <1>15 DEF BackSkipped, BackSkippedOlvm, Fault, Kill
<1>16. CASE DeleteResource(c) \/ WaitForClusterDeletion(c)
  BY <1>a, <1>b, <1>16 DEF DeleteResource, WaitForClusterDeletion, step, others, clusterVars, CapiInv, placeInv
<1>17. CASE Cleanup(c) \/ CleanupOlvm(c)
  BY <1>a, <1>17 DEF Cleanup, CleanupOlvm, step, end, CapiInv, placeInv
<1>18. CASE Fails(c)
  <2>1. hopeless(c) /\ fail(c)
    BY <1>a, <1>18 DEF Fails
  <2>2. phase[c] = "remove" /\ held[c]["boot"] = {}
    BY <1>a, <2>1, OrderlyHope
  <2>3. selfManaged(c) # pivotsBack(c)
    BY <2>2 DEF placeInv
  <2>4. phase'[c] = "idle" /\ status'[c] = "failed" /\ UNCHANGED held
    BY <1>a, <1>d, <2>1, <2>2 DEF fail, step, end, clusterVars, CapiInv, orderInv, DeletePhases
  <2> QED
    BY <1>a, <2>3, <2>4 DEF placeInv
<1>19. CASE Provision(c)
  BY <1>a, <1>b, <1>19 DEF Provision, procVars, placeInv
<1>20. CASE Reap(c)
  <2>1. /\ c \in deleting /\ deleting' = deleting \ {c}
        /\ held' = [held EXCEPT ![c] = [p \in Places |-> {}]]
        /\ UNCHANGED <<phase, cmd, status>>
    BY <1>20 DEF Reap, procVars
  <2>2. held'[c]["boot"] = {} /\ held'[c]["self"] = {}
    BY <2>1 DEF CapiInv, Places
  <2>3. /\ ~(status[c] = "started" /\ phase[c] \in {"idle", "movedBack"})
        /\ phase[c] \notin {"close", "closeAgain", "remove", "movedBack"}
    BY <1>a, <1>d, <2>1 DEF orderInv, fresh, DeletePhases, placeInv
  <2> QED
    BY <1>a, <2>1, <2>2, <2>3 DEF placeInv
<1> QED
  BY <1>1, <1>2, <1>3, <1>4, <1>5, <1>6, <1>7, <1>8, <1>9, <1>10, <1>11, <1>12, <1>13, <1>14, <1>15, <1>16, <1>17, <1>18, <1>19, <1>20
     DEF Works, Starts, Deletes

(* SuccessInv holds initially ... *)
LEMMA SuccessInvInit == Init => SuccessInv
<1> SUFFICES ASSUME Init PROVE SuccessInv
  OBVIOUS
<1>1. ASSUME NEW c \in Clusters PROVE goneInv(c) /\ turnInv(c) /\ placeInv(c) /\ phase[c] = "idle"
  <2>1. /\ phase[c] = "idle" /\ status[c] = "new" /\ held[c]["boot"] = {} /\ held[c]["self"] = {}
        /\ infra = {} /\ deleting = {}
    BY DEF Init, Places
  <2> QED
    BY <2>1 DEF goneInv, turnInv, placeInv, fresh, untouched, DeletePhases
<1> QED
  BY <1>1 DEF SuccessInv, oneAtATime

(* ... and every step keeps it. *)
LEMMA SuccessInvStep ==
  ASSUME CapiInv, CustodyInv, SuccessInv, Next PROVE SuccessInv'
<1>0. PICK c \in Clusters :
        \/ \E command \in Commands : Begin(c, command)
        \/ Works(c) \/ Fault(c) \/ Kill(c) \/ Provision(c) \/ Reap(c)
  BY DEF Next
<1>1. /\ UNCHANGED bootstrapKept /\ UNCHANGED pivotsInOrder /\ UNCHANGED world
  BY ProcTypesStep, SettingsKept DEF settings
<1>2. Beside(c)
  BY <1>0, StepBeside
<1>3. ASSUME world.orderly \/ bootstrapKept, NEW d \in Clusters PROVE goneInv(d)'
  BY <1>0, <1>2, <1>3, GoneOwn, GoneOthers DEF SuccessInv
<1>4. ASSUME world.orderly, NEW d \in Clusters PROVE turnInv(d)'
  BY <1>0, <1>2, <1>4, TurnOwn, TurnOthers DEF SuccessInv
<1>5. ASSUME world.orderly PROVE oneAtATime'
  BY <1>5, AloneStep DEF SuccessInv
<1>6. ASSUME pivotsInOrder, NEW d \in Clusters PROVE placeInv(d)'
  BY <1>0, <1>6, PlaceOwn, PlaceOthers DEF SuccessInv
<1> QED
  BY <1>1, <1>3, <1>4, <1>5, <1>6 DEF SuccessInv

(* What start and delete rely on when they return no error, with every      *)
(* failure that the circumstances allow: nothing comes back after a delete, *)
(* and what a cluster has agrees with its last command.                     *)
THEOREM SuccessInvHolds == Spec => []SuccessInv
<1>1. CapiInv /\ CustodyInv /\ SuccessInv /\ [Next]_vars => SuccessInv'
  <2> SUFFICES ASSUME CapiInv, CustodyInv, SuccessInv, [Next]_vars PROVE SuccessInv'
    OBVIOUS
  <2>1. CASE Next
    BY <2>1, SuccessInvStep
  <2>2. CASE UNCHANGED vars
    <3>1. /\ UNCHANGED bootstrapKept /\ UNCHANGED pivotsInOrder /\ UNCHANGED world
      BY <2>2, SettingsKept DEF vars, settings
    <3>2. ASSUME NEW c \in Clusters
          PROVE  (goneInv(c) => goneInv(c)') /\ (turnInv(c) => turnInv(c)') /\ (placeInv(c) => placeInv(c)')
      <4>1. /\ (olvm(c) => ~world.faults)' <=> (olvm(c) => ~world.faults)
            /\ selfManaged(c)' = selfManaged(c) /\ pivotsBack(c)' = pivotsBack(c)
            /\ waitForControllers(c, c)' <=> waitForControllers(c, c)
        BY <2>2, ConfKept, SitesKept DEF vars, clusterVars
      <4> QED
        BY <2>2, <4>1 DEF vars, clusterVars, procVars, goneInv, turnInv, placeInv, untouched, fresh, running
    <3> QED
      BY <2>2, <3>1, <3>2 DEF SuccessInv, oneAtATime, vars, procVars
  <2> QED
    BY <2>1, <2>2
<1> QED
  BY <1>1, CapiInvHolds, CustodyInvHolds, SuccessInvInit, PTL DEF Spec

(* Start and Delete report success only for what they have done: machines   *)
(* that run and are managed where the configuration says, or none and no    *)
(* objects; and without failures they do report it (StartedIsManaged,       *)
(* DeletedIsGone, OrderlySucceeds).                                         *)
THEOREM SuccessIsMeant == Spec => []SuccessMeans
<1>1. CapiInv /\ CustodyInv /\ SuccessInv => SuccessMeans
  <2> SUFFICES ASSUME CapiInv, CustodyInv, SuccessInv PROVE SuccessMeans
    OBVIOUS
  <2>1. ASSUME NEW c \in Clusters, status[c] = "started", phase[c] = "idle", world.orderly
        PROVE  c \in infra /\ c \in kubeconfig
    BY <2>1 DEF SuccessInv, turnInv, running
  <2>2. ASSUME NEW c \in Clusters, status[c] = "started", phase[c] = "idle", pivotsInOrder
        PROVE  /\ custodians(c) = {IF selfManaged(c) THEN "self" ELSE "boot"}
               /\ waitForControllers(c, IF selfManaged(c) THEN c ELSE bootstrap(c))
    <3>1. orderInv(c) /\ moveInv(c) /\ placeInv(c) /\ c \in infra
      BY <2>1, <2>2 DEF CustodyInv, SuccessInv, pivotsInOrder
    <3>2. Holding(custodians(c), held[c]) /\ custodians(c) # {}
      BY <3>1, Custodians DEF moveInv
    <3>3. CASE selfManaged(c)
      <4>1. held[c]["boot"] = {} /\ waitForControllers(c, c)
        BY <2>2, <3>1, <3>3 DEF orderInv, placeInv
      <4> QED
        BY <3>2, <3>3, <4>1 DEF Holding
    <3>4. CASE ~selfManaged(c)
      <4>1. held[c]["self"] = {}
        BY <3>1, <3>4 DEF placeInv
      <4>2. held[c]["boot"] # {} /\ custodians(c) = {"boot"}
        BY <3>2, <4>1 DEF Holding
      <4> QED
        BY <3>4, <4>2 DEF CapiInv, ready
    <3> QED
      BY <3>3, <3>4
  <2>3. DeletedIsGone
    BY DEF SuccessInv, goneInv, untouched, DeletedIsGone, custodians, Places
  <2>4. OrderlySucceeds
    BY DEF SuccessInv, placeInv, OrderlySucceeds
  <2> QED
    BY <2>1, <2>2, <2>3, <2>4 DEF SuccessMeans, StartedIsManaged
<1> QED
  BY <1>1, CapiInvHolds, CustodyInvHolds, SuccessInvHolds, PTL

-----------------------------------------------------------------------------
(***************************************************************************)
(* Bring your own: ByoDriver and Ignition.                                 *)
(***************************************************************************)

-----------------------------------------------------------------------------
(* Putting an ignition together                                             *)

LEMMA OneEntry == ASSUME NEW x, NEW y PROVE DOMAIN (x :> y) = {x} /\ (x :> y)[x] = y
  BY DEF :>

\* What f @@ g is.
isJoined(h, f, g) ==
    /\ DOMAIN h = DOMAIN f \cup DOMAIN g
    /\ \A x \in DOMAIN f : h[x] = f[x]
    /\ \A x \in DOMAIN g : x \notin DOMAIN f => h[x] = g[x]
LEMMA JoinedIs == \A f, g : isJoined(f @@ g, f, g)
<1> SUFFICES ASSUME NEW f, NEW g PROVE isJoined(f @@ g, f, g)
  OBVIOUS
<1>1. f @@ g = joined(f, g)
  BY DEF @@
<1> QED
  BY <1>1 DEF joined, isJoined

\* An ignition has these fields and no others.
ignitionOf(f, d, l, k, r, s, u, v, g, e) ==
    [files |-> f, directories |-> d, links |-> l, disks |-> k, raid |-> r, filesystems |-> s,
     units |-> u, users |-> v, groups |-> g, err |-> e]
isIgnition(i) == \E f, d, l, k, r, s, u, v, g, e : i = ignitionOf(f, d, l, k, r, s, u, v, g, e)

LEMMA NewIs == isIgnition(NewIgnition) /\ NewIgnition.files = Nothing /\ NewIgnition.units = Nothing
               /\ DOMAIN Nothing = {}
  BY DEF isIgnition, ignitionOf, NewIgnition, Nothing

\* A field is replaced.
LEMMA FilesReplaced ==
    ASSUME NEW i, isIgnition(i), NEW x, NEW j, j = [i EXCEPT !.files = x]
    PROVE  isIgnition(j) /\ j.files = x /\ j.units = i.units
<1>1. PICK f, d, l, k, r, s, u, v, g, e : i = ignitionOf(f, d, l, k, r, s, u, v, g, e)
  BY DEF isIgnition
<1>2. j = ignitionOf(x, d, l, k, r, s, u, v, g, e)
  BY <1>1, Zenon DEF ignitionOf
<1>3. j.files = x /\ j.units = u /\ i.units = u
  BY <1>1, <1>2 DEF ignitionOf
<1> QED
  BY <1>2, <1>3 DEF isIgnition
LEMMA UnitsReplaced ==
    ASSUME NEW i, isIgnition(i), NEW x, NEW j, j = [i EXCEPT !.units = x]
    PROVE  isIgnition(j) /\ j.files = i.files /\ j.units = x
<1>1. PICK f, d, l, k, r, s, u, v, g, e : i = ignitionOf(f, d, l, k, r, s, u, v, g, e)
  BY DEF isIgnition
<1>2. j = ignitionOf(f, d, l, k, r, s, x, v, g, e)
  BY <1>1, Zenon DEF ignitionOf
<1>3. j.files = f /\ j.units = x /\ i.files = f
  BY <1>1, <1>2 DEF ignitionOf
<1> QED
  BY <1>2, <1>3 DEF isIgnition
LEMMA OthersReplaced ==
    ASSUME NEW i, isIgnition(i), NEW x, NEW j,
           \/ j = [i EXCEPT !.directories = x] \/ j = [i EXCEPT !.users = x]
           \/ j = [i EXCEPT !.groups = x] \/ j = [i EXCEPT !.err = x]
    PROVE  isIgnition(j) /\ j.files = i.files /\ j.units = i.units
<1>1. PICK f, d, l, k, r, s, u, v, g, e : i = ignitionOf(f, d, l, k, r, s, u, v, g, e)
  BY DEF isIgnition
<1>2. j = [i EXCEPT !.directories = x] => j = ignitionOf(f, x, l, k, r, s, u, v, g, e)
  BY <1>1, Zenon DEF ignitionOf
<1>3. j = [i EXCEPT !.users = x] => j = ignitionOf(f, d, l, k, r, s, u, x, g, e)
  BY <1>1, Zenon DEF ignitionOf
<1>4. j = [i EXCEPT !.groups = x] => j = ignitionOf(f, d, l, k, r, s, u, v, x, e)
  BY <1>1, Zenon DEF ignitionOf
<1>5. j = [i EXCEPT !.err = x] => j = ignitionOf(f, d, l, k, r, s, u, v, g, x)
  BY <1>1, Zenon DEF ignitionOf
<1>6. \A d1, v1, g1, e1 :
          j = ignitionOf(f, d1, l, k, r, s, u, v1, g1, e1) =>
              isIgnition(j) /\ j.files = f /\ j.units = u
  <2> SUFFICES ASSUME NEW d1, NEW v1, NEW g1, NEW e1, j = ignitionOf(f, d1, l, k, r, s, u, v1, g1, e1)
               PROVE  isIgnition(j) /\ j.files = f /\ j.units = u
    OBVIOUS
  <2>1. j.files = f /\ j.units = u
    BY DEF ignitionOf
  <2> QED
    BY <2>1 DEF isIgnition
<1>7. i.files = f /\ i.units = u
  BY <1>1 DEF ignitionOf
<1> QED
  BY <1>2, <1>3, <1>4, <1>5, <1>6, <1>7

\* Merge: the files of the second have precedence, units that both have are
\* merged.
LEMMA MergedIs ==
    ASSUME NEW a, NEW b
    PROVE  /\ isIgnition(Merge(a, b))
           /\ isJoined(Merge(a, b).files, b.files, a.files)
           /\ DOMAIN Merge(a, b).units = DOMAIN a.units \cup DOMAIN b.units
           /\ \A n \in DOMAIN a.units \cap DOMAIN b.units :
                  Merge(a, b).units[n] = mergeUnit(a.units[n], b.units[n])
           /\ \A n \in DOMAIN b.units \ DOMAIN a.units : Merge(a, b).units[n] = b.units[n]
<1>1. PICK m : m = Merge(a, b) /\ m = merged(a, b)
  BY DEF Merge
<1>2. isIgnition(m)
  BY <1>1, Zenon DEF merged, isIgnition, ignitionOf
<1>3. m.files = b.files @@ a.files
  BY <1>1 DEF merged
<1>4. isJoined(m.files, b.files, a.files)
  BY <1>3, JoinedIs
<1>5. PICK u : u = [n \in both(a.units, b.units) |-> mergeUnit(a.units[n], b.units[n])]
  OBVIOUS
<1>6. PICK v : v = u @@ b.units
  OBVIOUS
<1>7. m.units = v @@ a.units
  BY <1>1, <1>5, <1>6 DEF merged
<1>8. isJoined(v, u, b.units) /\ isJoined(m.units, v, a.units)
  BY <1>6, <1>7, JoinedIs
<1>9. /\ DOMAIN u = DOMAIN a.units \cap DOMAIN b.units
      /\ \A n \in DOMAIN a.units \cap DOMAIN b.units : u[n] = mergeUnit(a.units[n], b.units[n])
  BY <1>5 DEF both
<1>10. /\ \A n \in DOMAIN a.units \cap DOMAIN b.units : m.units[n] = mergeUnit(a.units[n], b.units[n])
       /\ \A n \in DOMAIN b.units \ DOMAIN a.units : m.units[n] = b.units[n]
       /\ DOMAIN m.units = DOMAIN a.units \cup DOMAIN b.units
  BY <1>8, <1>9 DEF isJoined
<1> QED
  BY <1>1, <1>2, <1>4, <1>10

-----------------------------------------------------------------------------
(* The files that the nodes of a cluster must agree on                      *)

Special == {"kubeadm.conf", "nginx.conf", "check_apiserver.sh"}
\* An ignition without them, and one that has those of another.
plain(i) == isIgnition(i) /\ \A x \in Special : x \notin DOMAIN i.files
alike(i, j) ==
    /\ isIgnition(i)
    /\ \A x \in Special : /\ x \in DOMAIN i.files <=> x \in DOMAIN j.files
                          /\ x \in DOMAIN j.files => i.files[x] = j.files[x]
LEMMA AlikeTwice == ASSUME NEW i, NEW j, NEW k, alike(i, j), alike(j, k) PROVE alike(i, k)
  BY DEF alike
LEMMA PlainAlike == ASSUME NEW i, NEW j, alike(i, j), plain(j) PROVE plain(i)
  BY DEF alike, plain
LEMMA NewPlain == plain(NewIgnition)
  BY NewIs DEF plain

LEMMA PlainMerged ==
    ASSUME NEW a, NEW b, plain(b)
    PROVE  alike(Merge(a, b), a)
  BY MergedIs DEF alike, plain, isJoined

LEMMA PlainFile ==
    ASSUME NEW i, isIgnition(i), NEW x, x \notin Special, NEW y
    PROVE  alike(AddFile(i, x, y), i)
<1>1. PICK h : h = (x :> y)
  OBVIOUS
<1>2. PICK f : f = i.files @@ h
  OBVIOUS
<1>3. DOMAIN h = {x} /\ isJoined(f, i.files, h)
  BY <1>1, <1>2, OneEntry, JoinedIs
<1>4. PICK j : j = AddFile(i, x, y)
  OBVIOUS
<1>5. j = [i EXCEPT !.files = f]
  BY <1>1, <1>2, <1>4 DEF AddFile
<1>6. isIgnition(j) /\ j.files = f
  BY <1>5, FilesReplaced
<1> QED
  BY <1>3, <1>4, <1>6 DEF alike, isJoined

\* A file that is not there yet is there afterwards.
LEMMA NewFile ==
    ASSUME NEW i, isIgnition(i), NEW x, x \notin DOMAIN i.files, NEW y
    PROVE  /\ isIgnition(AddFile(i, x, y))
           /\ DOMAIN AddFile(i, x, y).files = DOMAIN i.files \cup {x}
           /\ AddFile(i, x, y).files[x] = y
<1>1. PICK h : h = (x :> y)
  OBVIOUS
<1>2. PICK f : f = i.files @@ h
  OBVIOUS
<1>3. DOMAIN h = {x} /\ h[x] = y /\ isJoined(f, i.files, h)
  BY <1>1, <1>2, OneEntry, JoinedIs
<1>4. PICK j : j = AddFile(i, x, y)
  OBVIOUS
<1>5. j = [i EXCEPT !.files = f]
  BY <1>1, <1>2, <1>4 DEF AddFile
<1>6. isIgnition(j) /\ j.files = f
  BY <1>5, FilesReplaced
<1> QED
  BY <1>3, <1>4, <1>6 DEF isJoined

LEMMA PlainOthers ==
    ASSUME NEW i, isIgnition(i), NEW x, NEW y, NEW z
    PROVE  /\ alike(AddUser(i, x, y, z), i) /\ alike(AddGroup(i, x), i)
           /\ alike(AddDir(i, x), i) /\ alike(failed(i), i)
<1>1. PICK j : j = AddUser(i, x, y, z)
  OBVIOUS
<1>2. \E v : j = [i EXCEPT !.users = v]
  BY <1>1 DEF AddUser
<1>3. PICK k : k = AddGroup(i, x)
  OBVIOUS
<1>4. \E v : k = [i EXCEPT !.groups = v]
  BY <1>3 DEF AddGroup
<1>5. PICK l : l = AddDir(i, x)
  OBVIOUS
<1>6. \E v : l = [i EXCEPT !.directories = v]
  BY <1>5 DEF AddDir
<1>7. PICK m : m = failed(i)
  OBVIOUS
<1>8. \E v : m = [i EXCEPT !.err = v]
  BY <1>7 DEF failed
<1>9. \A n : isIgnition(n) /\ n.files = i.files => alike(n, i)
  BY DEF alike
<1>10. alike(j, i)
  BY <1>2, <1>9, OthersReplaced
<1>11. alike(k, i)
  BY <1>4, <1>9, OthersReplaced
<1>12. alike(l, i)
  BY <1>6, <1>9, OthersReplaced
<1>13. alike(m, i)
  BY <1>8, <1>9, OthersReplaced
<1> QED
  BY <1>1, <1>3, <1>5, <1>7, <1>10, <1>11, <1>12, <1>13

\* A unit that is added is no file.
LEMMA PlainUnit ==
    ASSUME NEW i, NEW n, NEW u
    PROVE  alike(AddUnit(i, n, u), i)
<1>1. PICK f : f = (n :> u)
  OBVIOUS
<1>2. PICK j : j = [NewIgnition EXCEPT !.units = f]
  OBVIOUS
<1>3. isIgnition(j) /\ j.files = Nothing
  BY <1>2, NewIs, UnitsReplaced
<1>4. plain(j)
  BY <1>3, NewIs DEF plain
<1>5. AddUnit(i, n, u) = Merge(i, j)
  BY <1>1, <1>2 DEF AddUnit
<1> QED
  BY <1>4, <1>5, PlainMerged

-----------------------------------------------------------------------------
(* The parts of an ignition: none has one of the special files               *)

LEMMA UnitsPlain ==
    /\ \A i, n, u : plain(i) => plain(AddUnit(i, n, u))
    /\ \A i, x, y : plain(i) /\ x \notin Special => plain(AddFile(i, x, y))
    /\ \A i, j : plain(i) /\ plain(j) => plain(Merge(i, j))
    /\ \A i, x : plain(i) => plain(AddDir(i, x)) /\ plain(failed(i))
    /\ \A i, x, y, z : plain(i) => plain(AddUser(i, x, y, z))
<1>1. \A i, n, u : plain(i) => plain(AddUnit(i, n, u))
  BY PlainUnit, PlainAlike
<1>2. \A i, x, y : plain(i) /\ x \notin Special => plain(AddFile(i, x, y))
  <2>1. \A i : plain(i) => isIgnition(i)
    BY DEF plain
  <2> QED
    BY <2>1, PlainFile, PlainAlike
<1>3. \A i, j : plain(i) /\ plain(j) => plain(Merge(i, j))
  BY PlainMerged, PlainAlike
<1>4. \A i : plain(i) => isIgnition(i)
  BY DEF plain
<1>5. \A i, x : plain(i) => plain(AddDir(i, x)) /\ plain(failed(i))
  BY <1>4, PlainOthers, PlainAlike
<1>6. \A i, x, y, z : plain(i) => plain(AddUser(i, x, y, z))
  BY <1>4, PlainOthers, PlainAlike
<1> QED
  BY <1>1, <1>2, <1>3, <1>5, <1>6

LEMMA CommonPlain == \A c, action : plain(clusterCommon(c, action))
<1> SUFFICES ASSUME NEW c, NEW action PROVE plain(clusterCommon(c, action))
  OBVIOUS
<1>1. /\ "update.yaml" \notin Special /\ "ocne.sh" \notin Special
      /\ "registries.conf" \notin Special /\ "ocne-kubeadm-upgrade.sh" \notin Special
  BY DEF Special
<1>2. \A y, z : plain(AddFile(AddFile(NewIgnition, "update.yaml", y), "ocne.sh", z))
  BY <1>1, NewPlain, UnitsPlain
<1>3. \A i, m, u, n, v : plain(i) => plain(AddUnit(AddUnit(i, m, u), n, v))
  BY UnitsPlain
<1>4. plain(ContainerConfiguration(c.registry))
  <2>1. PICK i : i = AddUnit(AddUnit(NewIgnition, "crio.service", enabledUnit),
                             "kubelet.service", enabledUnit)
    OBVIOUS
  <2>2. plain(i)
    BY <1>3, <2>1, NewPlain
  <2>3. plain(AddFile(i, "registries.conf", <<c.registry>>))
    BY <1>1, <2>2, UnitsPlain
  <2> QED
    BY <2>1, <2>3 DEF ContainerConfiguration
<1>5. plain(KubeadmPatches)
  <2>1. plain(AddFile(NewIgnition, "ocne-kubeadm-upgrade.sh", <<"exit 0">>))
    BY <1>1, NewPlain, UnitsPlain
  <2> QED
    BY <2>1, UnitsPlain DEF KubeadmPatches
<1>6. PICK i : i = AddFile(AddFile(NewIgnition, "update.yaml", updateFile(c.osRegistry, c.osTag)),
                           "ocne.sh", <<"OcneSh">>)
  OBVIOUS
<1>7. PICK j : j = AddUnit(AddUnit(i, "ocne-update.service", enabledUnit), "ocne.service",
                           unit("yes", <<>>, "bootstrap.conf" :> <<action, c.iface>>))
  OBVIOUS
<1>8. PICK k : k = Merge(Merge(j, ContainerConfiguration(c.registry)), KubeadmPatches)
  OBVIOUS
<1>9. plain(k) /\ plain(failed(k))
  BY <1>2, <1>3, <1>4, <1>5, <1>6, <1>7, <1>8, UnitsPlain
<1>10. clusterCommon(c, action) = k \/ clusterCommon(c, action) = failed(k)
  BY <1>6, <1>7, <1>8 DEF clusterCommon
<1> QED
  BY <1>9, <1>10

LEMMA ProxyPlain == \A x, y : plain(Proxy(x, y))
<1> SUFFICES ASSUME NEW x, NEW y PROVE plain(Proxy(x, y))
  OBVIOUS
<1>1. PICK u : u = proxyUnits(<<x, y>>)
  OBVIOUS
<1>2. plain(AddUnit(AddUnit(AddUnit(AddUnit(NewIgnition, "crio.service", u.crio),
                                    "kublet.service", enabledUnit),
                            "ocne-update.service", u.update),
                    "rpm-ostreed.service", u.rpm))
  BY NewPlain, UnitsPlain
<1> QED
  BY <1>1, <1>2, NewPlain DEF Proxy

LEMMA UserPlain == \A x, y : plain(OcneUser(x, y))
  BY NewPlain, UnitsPlain DEF OcneUser

LEMMA ExtraPlain == \A e : plain(FromPath(e, extraIgnition))
<1>1. "registries.conf" \notin Special
  BY DEF Special
<1>2. plain(AddFile(NewIgnition, "registries.conf", <<"mine">>))
  BY <1>1, NewPlain, UnitsPlain
<1>3. plain(extraIgnition)
  BY <1>2, UnitsPlain DEF extraIgnition
<1>4. plain(failed(NewIgnition))
  BY NewPlain, UnitsPlain
<1> QED
  BY <1>3, <1>4, NewPlain DEF FromPath

\* What the extra ignition switches off and replaces.
LEMMA ExtraSays ==
    /\ "registries.conf" \in DOMAIN extraIgnition.files
    /\ extraIgnition.files["registries.conf"] = <<"mine">>
    /\ \A a : Merge(a, extraIgnition).units["ocne-update.service"].enabled = "no"
<1>1. PICK i : i = AddFile(NewIgnition, "registries.conf", <<"mine">>)
  OBVIOUS
<1>2. isIgnition(i) /\ "registries.conf" \in DOMAIN i.files /\ i.files["registries.conf"] = <<"mine">>
      /\ i.units = Nothing
  <2>1. isIgnition(NewIgnition) /\ "registries.conf" \notin DOMAIN NewIgnition.files
    BY NewIs
  <2>2. isIgnition(i) /\ "registries.conf" \in DOMAIN i.files /\ i.files["registries.conf"] = <<"mine">>
    BY <1>1, <2>1, NewFile
  <2>3. PICK f : i = [NewIgnition EXCEPT !.files = f]
    BY <1>1 DEF AddFile
  <2>4. i.units = NewIgnition.units
    BY <2>1, <2>3, FilesReplaced
  <2> QED
    BY <2>2, <2>4, NewIs
<1>3. PICK u : u = unit("no", <<>>, Nothing)
  OBVIOUS
<1>4. PICK g : g = ("ocne-update.service" :> u)
  OBVIOUS
<1>5. DOMAIN g = {"ocne-update.service"} /\ g["ocne-update.service"] = u
  BY <1>4, OneEntry
<1>6. PICK j : j = [NewIgnition EXCEPT !.units = g]
  OBVIOUS
<1>7. isIgnition(j) /\ j.files = Nothing /\ j.units = g
  BY <1>6, NewIs, UnitsReplaced
<1>8. extraIgnition = Merge(i, j)
  BY <1>1, <1>3, <1>4, <1>6 DEF extraIgnition, AddUnit
<1>9. PICK x : x = extraIgnition
  OBVIOUS
<1>10. isJoined(x.files, j.files, i.files) /\ x.units["ocne-update.service"] = u
  BY <1>2, <1>5, <1>7, <1>8, <1>9, MergedIs, NewIs
<1>11. "registries.conf" \in DOMAIN x.files /\ x.files["registries.conf"] = <<"mine">>
  BY <1>2, <1>7, <1>10, NewIs DEF isJoined
<1>12. "ocne-update.service" \in DOMAIN x.units
  BY <1>8, <1>9, <1>5, <1>7, MergedIs
<1>13. u.enabled = "no" /\ \A v : mergeUnit(v, u).enabled = "no"
  BY <1>3 DEF unit, mergeUnit
<1>14. ASSUME NEW a PROVE Merge(a, x).units["ocne-update.service"].enabled = "no"
  <2>1. CASE "ocne-update.service" \in DOMAIN a.units
    BY <1>10, <1>12, <1>13, <2>1, MergedIs
  <2>2. CASE "ocne-update.service" \notin DOMAIN a.units
    BY <1>10, <1>12, <1>13, <2>2, MergedIs
  <2> QED
    BY <2>1, <2>2
<1> QED
  BY <1>9, <1>11, <1>14

-----------------------------------------------------------------------------
(* What the ignition of a node says                                         *)

\* Of the files of a virtual IP, those that the nodes must agree on.
vipSays(f, port, alt, vip) ==
    /\ "kubeadm.conf" \notin DOMAIN f
    /\ "nginx.conf" \in DOMAIN f /\ f["nginx.conf"] = <<port, alt>>
    /\ "check_apiserver.sh" \in DOMAIN f /\ f["check_apiserver.sh"] = <<port, vip>>
LEMMA VipSays == \A port, alt, vip, iface : vipSays(vipFiles(port, alt, vip, iface), port, alt, vip)
<1> SUFFICES ASSUME NEW port, NEW alt, NEW vip, NEW iface
             PROVE  vipSays(vipFiles(port, alt, vip, iface), port, alt, vip)
  OBVIOUS
<1>1. PICK k : k = keepalivedConfig(iface, vip, {})
  OBVIOUS
<1>2. PICK f1 : f1 = ("keepalived.conf" :> k)
  OBVIOUS
<1>3. PICK g2 : g2 = ("check_apiserver.sh" :> <<port, vip>>)
  OBVIOUS
<1>4. PICK f2 : f2 = f1 @@ g2
  OBVIOUS
<1>5. PICK g3 : g3 = ("keepalived_state.sh" :> <<"state">>)
  OBVIOUS
<1>6. PICK f3 : f3 = f2 @@ g3
  OBVIOUS
<1>7. PICK g4 : g4 = ("keepalived/log" :> <<>>)
  OBVIOUS
<1>8. PICK f4 : f4 = f3 @@ g4
  OBVIOUS
<1>9. PICK g5 : g5 = ("nginx.conf" :> <<port, alt>>)
  OBVIOUS
<1>10. PICK f5 : f5 = f4 @@ g5
  OBVIOUS
<1>11. PICK g6 : g6 = ("pull_ocne_nginx" :> <<"pull">>)
  OBVIOUS
<1>12. PICK f6 : f6 = f5 @@ g6
  OBVIOUS
<1>13. PICK g7 : g7 = ("start_ocne_nginx" :> <<"start">>)
  OBVIOUS
<1>14. PICK f7 : f7 = f6 @@ g7
  OBVIOUS
<1>15. PICK g8 : g8 = ("nginx/image" :> <<"image">>)
  OBVIOUS
<1>16. PICK f8 : f8 = f7 @@ g8
  OBVIOUS
<1>17. vipFiles(port, alt, vip, iface) = f8
  BY <1>1, <1>2, <1>3, <1>4, <1>5, <1>6, <1>7, <1>8, <1>9, <1>10, <1>11, <1>12, <1>13, <1>14, <1>15,
     <1>16 DEF vipFiles, GenerateKeepalivedCheckScript, generateNginxConfig
<1>18. /\ DOMAIN f1 = {"keepalived.conf"} /\ DOMAIN g2 = {"check_apiserver.sh"}
       /\ g2["check_apiserver.sh"] = <<port, vip>>
  BY <1>2, <1>3, OneEntry
<1>19. /\ DOMAIN g3 = {"keepalived_state.sh"} /\ DOMAIN g4 = {"keepalived/log"}
       /\ DOMAIN g5 = {"nginx.conf"} /\ g5["nginx.conf"] = <<port, alt>>
  BY <1>5, <1>7, <1>9, OneEntry
<1>20. DOMAIN g6 = {"pull_ocne_nginx"} /\ DOMAIN g7 = {"start_ocne_nginx"} /\ DOMAIN g8 = {"nginx/image"}
  BY <1>11, <1>13, <1>15, OneEntry
<1>21. /\ DOMAIN f2 = {"keepalived.conf", "check_apiserver.sh"}
       /\ f2["check_apiserver.sh"] = <<port, vip>>
  <2>1. isJoined(f2, f1, g2)
    BY <1>4, JoinedIs
  <2> QED
    BY <2>1, <1>18 DEF isJoined
<1>22. /\ DOMAIN f4 = {"keepalived.conf", "check_apiserver.sh", "keepalived_state.sh", "keepalived/log"}
       /\ f4["check_apiserver.sh"] = <<port, vip>>
  <2>1. isJoined(f3, f2, g3) /\ isJoined(f4, f3, g4)
    BY <1>6, <1>8, JoinedIs
  <2> QED
    BY <2>1, <1>19, <1>21 DEF isJoined
<1>23. /\ DOMAIN f5 = DOMAIN f4 \cup {"nginx.conf"}
       /\ f5["check_apiserver.sh"] = <<port, vip>> /\ f5["nginx.conf"] = <<port, alt>>
  <2>1. isJoined(f5, f4, g5)
    BY <1>10, JoinedIs
  <2> QED
    BY <2>1, <1>19, <1>22 DEF isJoined
<1>24. isJoined(f6, f5, g6) /\ isJoined(f7, f6, g7) /\ isJoined(f8, f7, g8)
  BY <1>12, <1>14, <1>16, JoinedIs
<1>25. vipSays(f8, port, alt, vip)
  <2>1. "check_apiserver.sh" \in DOMAIN f5 /\ "nginx.conf" \in DOMAIN f5 /\ "kubeadm.conf" \notin DOMAIN f5
    BY <1>22, <1>23
  <2>2. /\ \A x \in DOMAIN f5 : x \in DOMAIN f8 /\ f8[x] = f5[x]
        /\ "kubeadm.conf" \notin DOMAIN f8
    BY <1>20, <1>24, <2>1 DEF isJoined
  <2> QED
    BY <1>23, <2>1, <2>2 DEF vipSays
<1> QED
  BY <1>17, <1>25

\* A virtual IP adds its files and leaves the configuration of kubeadm alone.
balanced(i, c, k) ==
    /\ isIgnition(i)
    /\ "kubeadm.conf" \in DOMAIN i.files /\ i.files["kubeadm.conf"] = k
    /\ "nginx.conf" \in DOMAIN i.files /\ i.files["nginx.conf"] = <<c.port, c.alt>>
    /\ "check_apiserver.sh" \in DOMAIN i.files /\ i.files["check_apiserver.sh"] = <<c.port, c.address>>
LEMMA WithVip ==
    ASSUME NEW i, isIgnition(i), NEW c, NEW k,
           "kubeadm.conf" \in DOMAIN i.files, i.files["kubeadm.conf"] = k
    PROVE  balanced(withVirtualIp(i, c), c, k)
<1>1. PICK f, u : f = vipFiles(c.port, c.alt, c.address, c.iface) /\ u = vipUnits(c.proxy)
  OBVIOUS
<1>2. vipSays(f, c.port, c.alt, c.address)
  BY <1>1, VipSays
<1>3. PICK b : b = [NewIgnition EXCEPT !.files = f]
  OBVIOUS
<1>4. isIgnition(b) /\ b.files = f
  BY <1>3, NewIs, FilesReplaced
<1>5. PICK a : a = [b EXCEPT !.units = u]
  OBVIOUS
<1>6. isIgnition(a) /\ a.files = f
  BY <1>4, <1>5, UnitsReplaced
<1>7. a = GenerateAssetsForVirtualIp(c.port, c.alt, c.address, c.proxy, c.iface)
  <2>1. [NewIgnition EXCEPT !.files = f, !.units = u] = [[NewIgnition EXCEPT !.files = f] EXCEPT !.units = u]
    OBVIOUS
  <2> QED
    BY <1>1, <1>3, <1>5, <2>1, Zenon DEF GenerateAssetsForVirtualIp
<1>8. PICK g : g = AddGroup(i, "nginx_script")
  OBVIOUS
<1>9. PICK h : h = AddUser(g, "nginx_script", "unset", {})
  OBVIOUS
<1>10. alike(g, i)
  BY <1>8, PlainOthers
<1>11. isIgnition(g)
  BY <1>10 DEF alike
<1>12. alike(h, g)
  BY <1>9, <1>11, PlainOthers
<1>13. "kubeadm.conf" \in DOMAIN h.files /\ h.files["kubeadm.conf"] = k
  BY <1>10, <1>12 DEF alike, Special
<1>14. PICK m : m = Merge(h, a)
  OBVIOUS
<1>15. isIgnition(m) /\ isJoined(m.files, f, h.files)
  BY <1>6, <1>14, MergedIs
<1>16. balanced(m, c, k)
  BY <1>2, <1>13, <1>15 DEF balanced, isJoined, vipSays
<1>17. PICK n : n = failed(m)
  OBVIOUS
<1>18. alike(n, m)
  BY <1>15, <1>17, PlainOthers
<1>19. balanced(n, c, k)
  BY <1>16, <1>18 DEF balanced, alike, Special
<1>20. withVirtualIp(i, c) = m \/ withVirtualIp(i, c) = n
  BY <1>7, <1>8, <1>9, <1>14, <1>17 DEF withVirtualIp, IgnitionForVirtualIp
<1> QED
  BY <1>16, <1>19, <1>20

\* The configuration of kubeadm in an ignition, with or without a virtual IP.
based(i, c, k, internal) ==
    IF internal THEN balanced(i, c, k)
    ELSE /\ isIgnition(i)
         /\ "kubeadm.conf" \in DOMAIN i.files /\ i.files["kubeadm.conf"] = k
         /\ "nginx.conf" \notin DOMAIN i.files
LEMMA InitBased ==
    ASSUME NEW c
    PROVE  based(InitializeCluster(c), c, <<GenerateKubeadmInit(c), GenerateClusterConfiguration(c)>>,
                 c.internalLB)
<1>1. PICK k : k = <<GenerateKubeadmInit(c), GenerateClusterConfiguration(c)>>
  OBVIOUS
<1>2. PICK p : p = clusterCommon(c, "init")
  OBVIOUS
<1>3. plain(p)
  BY <1>2, CommonPlain
<1>4. PICK i : i = AddFile(p, "kubeadm.conf", k)
  OBVIOUS
<1>5. isIgnition(i) /\ DOMAIN i.files = DOMAIN p.files \cup {"kubeadm.conf"} /\ i.files["kubeadm.conf"] = k
  BY <1>3, <1>4, NewFile DEF plain, Special
<1>6. PICK j : j = AddFile(i, "ca.crt", <<c.ca>>)
  OBVIOUS
<1>7. PICK l : l = AddFile(j, "ca.key", <<c.ca>>)
  OBVIOUS
<1>8. "ca.crt" \notin Special /\ "ca.key" \notin Special
  BY DEF Special
<1>9. alike(j, i)
  BY <1>5, <1>6, <1>8, PlainFile
<1>10. alike(l, j)
  BY <1>7, <1>8, <1>9, PlainFile DEF alike
<1>11. alike(l, i)
  BY <1>9, <1>10, AlikeTwice
<1>12. /\ isIgnition(l) /\ "kubeadm.conf" \in DOMAIN l.files /\ l.files["kubeadm.conf"] = k
       /\ "nginx.conf" \notin DOMAIN l.files
  BY <1>3, <1>5, <1>11 DEF alike, plain, Special
<1>13. balanced(withVirtualIp(l, c), c, k)
  BY <1>12, WithVip
<1>14. InitializeCluster(c) = IF c.internalLB THEN withVirtualIp(l, c) ELSE l
  BY <1>1, <1>2, <1>4, <1>6, <1>7 DEF InitializeCluster
<1> QED
  BY <1>1, <1>12, <1>13, <1>14 DEF based

LEMMA JoinBased ==
    ASSUME NEW c
    PROVE  based(JoinCluster(c), c, <<GenerateKubeadmJoin(c)>>, c.role = "cp" /\ c.internalLB)
<1>1. PICK k : k = <<GenerateKubeadmJoin(c)>>
  OBVIOUS
<1>2. PICK p : p = clusterCommon(c, "join")
  OBVIOUS
<1>3. plain(p)
  BY <1>2, CommonPlain
<1>4. PICK l : l = AddFile(p, "kubeadm.conf", k)
  OBVIOUS
<1>5. isIgnition(l) /\ DOMAIN l.files = DOMAIN p.files \cup {"kubeadm.conf"} /\ l.files["kubeadm.conf"] = k
  BY <1>3, <1>4, NewFile DEF plain, Special
<1>6. "kubeadm.conf" \in DOMAIN l.files /\ "nginx.conf" \notin DOMAIN l.files
  BY <1>3, <1>5 DEF plain, Special
<1>7. balanced(withVirtualIp(l, c), c, k)
  BY <1>5, <1>6, WithVip
<1>8. JoinCluster(c) = IF c.role = "cp" /\ c.internalLB THEN withVirtualIp(l, c) ELSE l
  BY <1>1, <1>2, <1>4 DEF JoinCluster
<1> QED
  BY <1>1, <1>5, <1>6, <1>7, <1>8 DEF based

\* What is merged afterwards leaves that alone.
LEMMA StaysBased ==
    ASSUME NEW i, NEW j, NEW c, NEW k, NEW internal, based(i, c, k, internal), alike(j, i)
    PROVE  based(j, c, k, internal)
  BY DEF based, balanced, alike, Special

\* What the ignition of a node with this role says to others: where it serves
\* the API, and with which secrets it makes or joins a cluster.
bindPort == IF internalLB THEN config.alt ELSE config.port
listens(i) ==
    IF internalLB
    THEN /\ "nginx.conf" \in DOMAIN i.files /\ i.files["nginx.conf"] = <<config.port, config.alt>>
         /\ i.files["check_apiserver.sh"][1] = config.port
    ELSE "nginx.conf" \notin DOMAIN i.files
keepsExtra(i) ==
    config.extra = "good" => /\ i.units["ocne-update.service"].enabled = "no"
                             /\ i.files["registries.conf"] = <<"mine">>
says(i, role, ca, token, key) ==
    LET k == i.files["kubeadm.conf"] IN
    /\ keepsExtra(i)
    /\ role \in {"init", "cp"} => listens(i) /\ k[1].bindPort = bindPort /\ k[1].key = key
    /\ role = "init" => k[2].endpoint = <<getKubeAPIServerIP, config.port>>
    /\ role # "init" => /\ k[1].endpoint = <<getKubeAPIServerIP, config.port>>
                        /\ k[1].hashes = ca /\ k[1].token = token

LEMMA NodeBased ==
    ASSUME NEW role, NEW joins, NEW ca, NEW token,
           NEW i, i = ignitionForNode(role, joins, ca, token), ~i.err,
           NEW base, base = (IF joins THEN JoinCluster(parameters(role, ca, token))
                             ELSE InitializeCluster(parameters(role, ca, token)))
    PROVE  alike(i, base) /\ keepsExtra(i)
<1>1. PICK x : x = Merge(base, Proxy(parameters(role, ca, token).proxy,
                                     {getKubeAPIServerIP, "services", "pods"}))
  OBVIOUS
<1>2. alike(x, base)
  BY <1>1, ProxyPlain, PlainMerged
<1>3. PICK y : y = Merge(x, OcneUser({"key"}, "unset"))
  OBVIOUS
<1>4. alike(y, x)
  BY <1>3, UserPlain, PlainMerged
<1>5. PICK e : e = FromPath(config.extra, extraIgnition)
  OBVIOUS
<1>6. PICK z : z = Merge(y, e)
  OBVIOUS
<1>7. alike(z, y)
  BY <1>5, <1>6, ExtraPlain, PlainMerged
<1>8. failed(NewIgnition).err
  BY DEF failed, NewIgnition
<1>9. i = z
  BY <1>1, <1>3, <1>5, <1>6, <1>8 DEF ignitionForNode
<1>10. alike(z, base)
  BY <1>2, <1>4, <1>7, AlikeTwice
<1>11. keepsExtra(z)
  <2> SUFFICES ASSUME config.extra = "good"
               PROVE  /\ z.units["ocne-update.service"].enabled = "no"
                      /\ z.files["registries.conf"] = <<"mine">>
    BY DEF keepsExtra
  <2>1. e = extraIgnition
    BY <1>5 DEF FromPath
  <2>2. z = Merge(y, extraIgnition)
    BY <1>6, <2>1
  <2>3. z.units["ocne-update.service"].enabled = "no"
    BY <2>2, ExtraSays
  <2>4. isJoined(z.files, e.files, y.files)
    BY <1>6, MergedIs
  <2>5. "registries.conf" \in DOMAIN e.files /\ e.files["registries.conf"] = <<"mine">>
    BY <2>1, ExtraSays
  <2> QED
    BY <2>3, <2>4, <2>5 DEF isJoined
<1> QED
  BY <1>9, <1>10, <1>11

LEMMA BasedListens ==
    ASSUME NEW i, NEW c, NEW k, based(i, c, k, internalLB),
           c.port = config.port, c.alt = config.alt
    PROVE  listens(i)
<1>1. CASE internalLB
  <2>1. /\ "nginx.conf" \in DOMAIN i.files /\ i.files["nginx.conf"] = <<c.port, c.alt>>
        /\ i.files["check_apiserver.sh"] = <<c.port, c.address>>
    BY <1>1 DEF based, balanced
  <2>2. i.files["check_apiserver.sh"][1] = c.port
    BY <2>1
  <2> QED
    BY <1>1, <2>1, <2>2 DEF listens
<1>2. CASE ~internalLB
  BY <1>2 DEF based, listens
<1> QED
  BY <1>1, <1>2

LEMMA FirstSays ==
    ASSUME NEW ca, NEW i, i = ignitionForNode("cp", FALSE, ca, 0), ~i.err
    PROVE  says(i, "init", ca, 0, job.key)
<1>1. PICK c : c = parameters("cp", ca, 0)
  OBVIOUS
<1>2. PICK base : base = InitializeCluster(c)
  OBVIOUS
<1>3. PICK k : k = <<GenerateKubeadmInit(c), GenerateClusterConfiguration(c)>>
  OBVIOUS
<1>4. based(base, c, k, c.internalLB)
  BY <1>2, <1>3, InitBased
<1>5. alike(i, base) /\ keepsExtra(i)
  BY <1>1, <1>2, NodeBased
<1>6. based(i, c, k, internalLB)
  BY <1>1, <1>4, <1>5, StaysBased DEF parameters
<1>7. /\ c.port = config.port /\ c.alt = config.alt /\ c.address = getKubeAPIServerIP
      /\ c.internalLB = internalLB /\ c.key = job.key
  BY <1>1 DEF parameters
<1>8. /\ k[1].bindPort = bindPort /\ k[1].key = job.key
      /\ k[2].endpoint = <<getKubeAPIServerIP, config.port>>
  BY <1>3, <1>7 DEF GenerateKubeadmInit, GenerateClusterConfiguration, getLocalAPIEndpointBindPort, bindPort
<1>9. i.files["kubeadm.conf"] = k
  BY <1>6 DEF based, balanced
<1>10. listens(i)
  BY <1>6, <1>7, BasedListens
<1> QED
  BY <1>5, <1>8, <1>9, <1>10 DEF says

LEMMA JoinSays ==
    ASSUME NEW role \in {"cp", "worker"}, NEW ca, NEW token,
           NEW i, i = ignitionForNode(role, TRUE, ca, token), ~i.err
    PROVE  says(i, role, ca, token, job.key)
<1>1. PICK c : c = parameters(role, ca, token)
  OBVIOUS
<1>2. PICK base : base = JoinCluster(c)
  OBVIOUS
<1>3. PICK k : k = <<GenerateKubeadmJoin(c)>>
  OBVIOUS
<1>4. based(base, c, k, c.role = "cp" /\ c.internalLB)
  BY <1>2, <1>3, JoinBased
<1>5. alike(i, base) /\ keepsExtra(i)
  BY <1>1, <1>2, NodeBased
<1>6. based(i, c, k, c.role = "cp" /\ c.internalLB)
  BY <1>4, <1>5, StaysBased
<1>7. /\ c.port = config.port /\ c.alt = config.alt /\ c.address = getKubeAPIServerIP
      /\ c.internalLB = internalLB /\ c.key = job.key /\ c.role = role
      /\ c.hashes = ca /\ c.token = token
  BY <1>1 DEF parameters
<1>8. /\ role = "cp" => k[1].bindPort = bindPort /\ k[1].key = job.key
      /\ k[1].endpoint = <<getKubeAPIServerIP, config.port>> /\ k[1].hashes = ca /\ k[1].token = token
  BY <1>3, <1>7 DEF GenerateKubeadmJoin, getLocalAPIEndpointBindPort, bindPort
<1>9. i.files["kubeadm.conf"] = k
  BY <1>6 DEF based, balanced
<1>10. role = "cp" => listens(i)
  <2> SUFFICES ASSUME role = "cp" PROVE listens(i)
    OBVIOUS
  <2>1. based(i, c, k, internalLB)
    <3>1. PICK v : v = (c.role = "cp" /\ c.internalLB)
      OBVIOUS
    <3>2. v = internalLB
      BY <1>7, <3>1 DEF internalLB
    <3>3. based(i, c, k, v)
      BY <1>6, <3>1
    <3> QED
      BY <3>2, <3>3
  <2> QED
    BY <1>7, <2>1, BasedListens
<1> QED
  BY <1>5, <1>8, <1>9, <1>10 DEF says

\* The configuration never changes.
LEMMA GivenFixed == ASSUME [ByoNext]_byoVars PROVE given' = given
<1>1. CASE \E kind, role : Ask(kind, role)
  BY <1>1 DEF Ask
<1>2. CASE Start \/ GeneratePKI \/ Prompt
  BY <1>2 DEF Start, GeneratePKI, Prompt, goto
<1>3. CASE ClusterInit
  BY <1>3 DEF ClusterInit, goto, return
<1>4. CASE Install \/ FinishJoin \/ Delete
  BY <1>4 DEF Install, FinishJoin, Delete, return
<1>5. CASE CreateJoinToken \/ JoinIgnition
  BY <1>5 DEF CreateJoinToken, JoinIgnition, goto
<1>6. CASE Refuses \/ Interrupted
  BY <1>6 DEF Refuses, Interrupted, giveUp, return
<1>7. CASE \E m \in Machines, p \in printed : BootFirst(m, p) \/ Boot(m, p)
  BY <1>7 DEF BootFirst, Boot
<1>8. CASE \E t \in toRun : FollowInstructions(t)
  BY <1>8 DEF FollowInstructions
<1>9. CASE UNCHANGED byoVars
  BY <1>9 DEF byoVars
<1> QED
  BY <1>1, <1>2, <1>3, <1>4, <1>5, <1>6, <1>7, <1>8, <1>9, Zenon DEF ByoNext, Command
LEMMA SaysKept ==
    ASSUME given' = given, NEW i, NEW role, NEW ca, NEW token, NEW key
    PROVE  says(i, role, ca, token, key)' <=> says(i, role, ca, token, key)
<1>1. /\ config' = config /\ internalLB' = internalLB /\ getKubeAPIServerIP' = getKubeAPIServerIP
  BY DEF config, internalLB, getKubeAPIServerIP
<1>2. bindPort' = bindPort /\ (listens(i)' <=> listens(i)) /\ (keepsExtra(i)' <=> keepsExtra(i))
  BY <1>1 DEF bindPort, listens, keepsExtra
<1> QED
  BY <1>1, <1>2 DEF says

-----------------------------------------------------------------------------
(* The inductive invariant                                                  *)

\* What there is: a number is never used before it is handed out.
jobType ==
    /\ job = [kind |-> job.kind, role |-> job.role, key |-> job.key, token |-> job.token]
    /\ job.role \in {"none", "cp", "worker"}
    /\ job.key \in 0..count /\ job.token \in 0..count
fileType ==
    /\ kubeFile.ca \in 0..count
    /\ kubeFile # NoFile => kubeFile.ca # 0 /\ kubeFile.endpoint = <<getKubeAPIServerIP, 6443>>
clusterType ==
    /\ cluster = [ca |-> cluster.ca, serves |-> cluster.serves, tokens |-> cluster.tokens, key |-> cluster.key]
    /\ cluster.ca \in 0..count /\ cluster.tokens \subseteq 1..count /\ cluster.key \in 0..count
DataInv ==
    /\ stage \in Stages /\ given \in Worlds /\ count \in Nat /\ commands \in Nat
    /\ node \in [Machines -> {"off", "member", "stray"}]
    /\ followed \in 0..count
    /\ \A t \in toRun : t.token \in 1..count /\ t.key \in 0..count
    /\ jobType /\ fileType /\ clusterType

\* What was printed is the ignition of a node with secrets that were made.
isPrint(p) ==
    /\ ~p.ign.err /\ p.ca \in 1..count /\ p.age \in 0..commands
    /\ \E token, key \in 0..count : says(p.ign, p.role, p.ca, token, key)
PrintInv == \A p \in printed : isPrint(p)

\* A command knows what it needs, and a cluster runs on a first node.
FirstOf(p, ca) == p.role = "init" /\ p.ca = ca
PlanInv ==
    /\ stage # "idle" => outcome = "runs" /\ job.key # 0
    /\ stage = "check" /\ job.kind = "join" => job.role # "none"
    /\ stage \in {"pki", "init", "token", "upload"} => validateClusterConfig
    /\ stage \in {"token", "upload"} => job.role # "none" /\ job.token # 0
    /\ stage = "init" => kubeFile # NoFile
    /\ stage = "pki" => kubeFile = NoFile
    /\ printed # {} => validateClusterConfig
    /\ cluster.ca # 0 =>
           \E p \in printed : FirstOf(p, cluster.ca) /\ cluster.serves = serves(p.ign)
    /\ \A m \in Machines : node[m] = "member" => cluster.ca # 0

\* The ignition of a first node is printed once, before a start succeeds.
FirstInv ==
    /\ stage = "init" => ~ignited
    /\ stage = "prompt" \/ outcome \in {"printed", "installed"} => ignited
    /\ \A p, q \in printed : p.role = "init" /\ q.role = "init" /\ p.ca = q.ca => p = q

\* What the last command printed.
kubeadm(p) == p.ign.files["kubeadm.conf"][1]
latest(p) == p.age = commands
NowInv ==
    \A p \in printed : latest(p) =>
        /\ stage \notin {"check", "pki", "init", "token"}
        /\ stage = "upload" => /\ p.role = job.role
                               /\ says(p.ign, p.role, p.ca, job.token, job.key)
        /\ stage = "upload" \/ outcome = "joined" =>
               p.role \in {"cp", "worker"} /\ p.ca = kubeFile.ca

\* With automatic tokens the cluster that the kubeconfig is for knows them, or
\* another one has taken its place.
replaced == cluster.ca > kubeFile.ca
AutoInv ==
    config.automatic =>
        /\ toRun = {}
        /\ stage \in {"token", "upload"} =>
               replaced \/ (reaches(kubeFile) /\ job.token \in cluster.tokens)
        /\ outcome = "joined" => \A p \in printed : latest(p) => replaced \/ admits(p)

\* Without them no other instructions make what the last ones make.
ManualInv ==
    ~config.automatic =>
        /\ followed # 0 => followed \in cluster.tokens
        /\ stage \in {"token", "upload"} =>
               followed # job.token /\ \A t \in toRun : t.token # job.token
        /\ outcome = "joined" =>
               \A p \in printed : latest(p) =>
                   /\ kubeadm(p).token # 0
                   /\ p.role = "cp" =>
                          /\ kubeadm(p).key # 0
                          /\ \A t \in toRun : t.token = kubeadm(p).token => t.key = kubeadm(p).key
                          /\ followed = kubeadm(p).token => cluster.key = kubeadm(p).key

Facts == DataInv /\ PrintInv /\ PlanInv /\ FirstInv /\ NowInv /\ AutoInv /\ ManualInv

-----------------------------------------------------------------------------
(* Steps                                                                    *)

\* The actions, those together that change the same.
Quiet == Start \/ Prompt
Asks == \E kind, role : /\ role \in {"none", "cp", "worker"} /\ (kind = "join" => role # "none")
                        /\ Ask(kind, role)
Boots == \E m \in Machines, p \in printed : Boot(m, p)
Replaces == \E m \in Machines, p \in printed : BootFirst(m, p)
Follows == \E t \in toRun : FollowInstructions(t)
Stops == Refuses \/ Interrupted
LEMMA Steps ==
    ASSUME [ByoNext]_byoVars
    PROVE  \/ Asks \/ Quiet \/ GeneratePKI \/ ClusterInit \/ Install \/ CreateJoinToken \/ JoinIgnition
           \/ FinishJoin \/ Delete \/ Stops \/ Replaces \/ Boots \/ Follows \/ UNCHANGED byoVars
<1>1. ASSUME NEW kind \in {"start", "delete"}, Ask(kind, "none") PROVE Asks
  BY <1>1 DEF Asks
<1>2. ASSUME NEW role \in {"cp", "worker"}, Ask("join", role) PROVE Asks
  BY <1>2 DEF Asks
<1> QED
  BY <1>1, <1>2 DEF ByoNext, Command, Quiet, Boots, Replaces, Follows, Stops

LEMMA ConfigFixed ==
    ASSUME [ByoNext]_byoVars
    PROVE  /\ config' = config /\ getKubeAPIServerIP' = getKubeAPIServerIP
           /\ validateClusterConfig' <=> validateClusterConfig
  BY GivenFixed DEF config, getKubeAPIServerIP, validateClusterConfig

LEMMA DataStep == ASSUME Facts, [ByoNext]_byoVars PROVE DataInv'
<1>1. given' = given /\ getKubeAPIServerIP' = getKubeAPIServerIP
  BY GivenFixed, ConfigFixed
<1>2. DataInv
  BY DEF Facts
<1>3. ASSUME kubeFile' = kubeFile, count' = count \/ count' = count + 1 PROVE fileType'
  BY <1>1, <1>2, <1>3 DEF DataInv, fileType
<1>4. ASSUME cluster' = cluster, count' = count \/ count' = count + 1 PROVE clusterType'
  BY <1>2, <1>4 DEF DataInv, clusterType
<1>5. ASSUME job' = job \/ job' = NoJob, count' = count \/ count' = count + 1 PROVE jobType'
  BY <1>2, <1>5 DEF DataInv, jobType, NoJob
<1>6. ASSUME count' = count \/ count' = count + 1, followed' = followed \/ followed' = 0,
             toRun' = toRun, node' = node, stage' \in Stages, commands' = commands \/ commands' = commands + 1,
             jobType', fileType', clusterType'
      PROVE  DataInv'
  BY <1>1, <1>2, <1>6 DEF DataInv
<1>7. CASE Asks
  <2>1. PICK kind, role : role \in {"none", "cp", "worker"} /\ Ask(kind, role)
    BY <1>7 DEF Asks
  <2>2. /\ count' = count + 1 /\ commands' = commands + 1 /\ stage' = "check" /\ followed' = followed
        /\ UNCHANGED <<kubeFile, cluster, toRun, node>>
        /\ job' = [kind |-> kind, role |-> role, key |-> count + 1, token |-> 0]
    BY <2>1 DEF Ask, sharedVars
  <2>3. jobType'
    BY <1>2, <2>1, <2>2 DEF jobType, DataInv
  <2>4. stage' \in Stages
    BY <2>2 DEF Stages
  <2> QED
    BY <1>3, <1>4, <1>6, <2>2, <2>3, <2>4
<1>8. CASE Quiet
  <2>1. /\ stage' \in Stages /\ UNCHANGED <<count, commands, kubeFile, cluster, toRun, node, job, followed>>
    BY <1>8 DEF Quiet, Start, Prompt, goto, sharedVars, Stages
  <2> QED
    BY <1>3, <1>4, <1>5, <1>6, <2>1
<1>9. CASE GeneratePKI
  <2>1. /\ stage' \in Stages /\ count' = count + 1 /\ UNCHANGED <<commands, cluster, toRun, node, job, followed>>
        /\ kubeFile' = [ca |-> count + 1, endpoint |-> <<getKubeAPIServerIP, 6443>>]
    BY <1>9 DEF GeneratePKI, goto, Stages
  <2>2. fileType'
    BY <1>1, <1>2, <2>1 DEF fileType, DataInv
  <2> QED
    BY <1>4, <1>5, <1>6, <2>1, <2>2
<1>10. CASE ClusterInit \/ JoinIgnition
  <2>1. /\ stage' \in Stages /\ UNCHANGED <<count, commands, kubeFile, cluster, toRun, node, followed>>
        /\ job' = job \/ job' = NoJob
    BY <1>10 DEF ClusterInit, JoinIgnition, goto, return, Stages
  <2> QED
    BY <1>3, <1>4, <1>5, <1>6, <2>1
<1>11. CASE Install \/ Stops
  <2>1. stage' \in Stages /\ UNCHANGED <<count, commands, kubeFile, cluster, toRun, node, followed>> /\ job' = NoJob
    BY <1>11 DEF Install, Stops, Refuses, Interrupted, giveUp, return, sharedVars, Stages
  <2> QED
    BY <1>3, <1>4, <1>5, <1>6, <2>1
<1>12. CASE CreateJoinToken
  <2>1. /\ stage' \in Stages /\ count' = count + 1 /\ UNCHANGED <<commands, kubeFile, toRun, node, followed>>
        /\ job' = [job EXCEPT !.token = count + 1]
        /\ cluster' = cluster \/ cluster' = [cluster EXCEPT !.tokens = @ \cup {count + 1}]
    BY <1>12 DEF CreateJoinToken, goto, Stages
  <2>2. jobType'
    <3>1. PICK a, b, c, d : job = [kind |-> a, role |-> b, key |-> c, token |-> d]
      BY <1>2 DEF DataInv, jobType
    <3>2. job' = [kind |-> a, role |-> b, key |-> c, token |-> count + 1]
      BY <2>1, <3>1
    <3>3. b \in {"none", "cp", "worker"} /\ c \in 0..count
      BY <1>2, <3>1 DEF DataInv, jobType
    <3> QED
      BY <1>2, <2>1, <3>2, <3>3 DEF DataInv, jobType
  <2>3. clusterType'
    <3>1. CASE cluster' = cluster
      BY <1>4, <2>1, <3>1
    <3>2. CASE cluster' = [cluster EXCEPT !.tokens = @ \cup {count + 1}]
      <4>1. PICK a, b, c, d : cluster = [ca |-> a, serves |-> b, tokens |-> c, key |-> d]
        BY <1>2 DEF DataInv, clusterType
      <4>2. cluster' = [ca |-> a, serves |-> b, tokens |-> c \cup {count + 1}, key |-> d]
        BY <3>2, <4>1
      <4>3. a \in 0..count /\ c \subseteq 1..count /\ d \in 0..count
        BY <1>2, <4>1 DEF DataInv, clusterType
      <4> QED
        BY <1>2, <2>1, <4>2, <4>3 DEF DataInv, clusterType
    <3> QED
      BY <2>1, <3>1, <3>2
  <2> QED
    BY <1>3, <1>6, <2>1, <2>2, <2>3
<1>13. CASE FinishJoin
  <2>1. /\ stage' \in Stages /\ UNCHANGED <<count, commands, kubeFile, node, followed>> /\ job' = NoJob
        /\ cluster' = cluster \/ cluster' = [cluster EXCEPT !.key = job.key]
        /\ \/ toRun' = toRun
           \/ toRun' = toRun \cup {[token |-> job.token, key |-> IF job.role = "cp" THEN job.key ELSE 0]}
    BY <1>13 DEF FinishJoin, return, Stages
  <2>2. clusterType'
    <3>1. CASE cluster' = cluster
      BY <1>4, <2>1, <3>1
    <3>2. CASE cluster' = [cluster EXCEPT !.key = job.key]
      <4>1. PICK a, b, c, d : cluster = [ca |-> a, serves |-> b, tokens |-> c, key |-> d]
        BY <1>2 DEF DataInv, clusterType
      <4>2. cluster' = [ca |-> a, serves |-> b, tokens |-> c, key |-> job.key]
        BY <3>2, <4>1
      <4>3. a \in 0..count /\ c \subseteq 1..count /\ job.key \in 0..count
        BY <1>2, <4>1 DEF DataInv, clusterType, jobType
      <4> QED
        BY <1>2, <2>1, <4>2, <4>3 DEF DataInv, clusterType
    <3> QED
      BY <2>1, <3>1, <3>2
  <2>3. job.token \in 1..count
    <3>1. stage = "upload"
      BY <1>13 DEF FinishJoin
    <3>2. job.token # 0 /\ job.token \in 0..count /\ count \in Nat
      BY <3>1, <1>2 DEF Facts, PlanInv, DataInv, jobType
    <3> QED
      BY <3>2
  <2>4. \A t \in toRun' : t.token \in 1..count' /\ t.key \in 0..count'
    <3>1. PICK x : x = [token |-> job.token, key |-> IF job.role = "cp" THEN job.key ELSE 0]
      OBVIOUS
    <3>2. x.token \in 1..count /\ x.key \in 0..count
      BY <1>2, <2>3, <3>1 DEF DataInv, jobType
    <3>3. toRun' = toRun \/ toRun' = toRun \cup {x}
      BY <2>1, <3>1
    <3> QED
      BY <1>2, <2>1, <3>2, <3>3 DEF DataInv
  <2>5. jobType' /\ fileType'
    BY <1>3, <1>5, <2>1
  <2> QED
    BY <1>1, <1>2, <2>1, <2>2, <2>4, <2>5 DEF DataInv
<1>14. CASE Delete
  <2>1. /\ stage' \in Stages /\ UNCHANGED <<count, commands, cluster, toRun, node, followed>> /\ job' = NoJob
        /\ kubeFile' = NoFile
    BY <1>14 DEF Delete, return, Stages
  <2>2. NoFile.ca = 0
    BY DEF NoFile
  <2>3. fileType'
    BY <1>2, <2>1, <2>2 DEF fileType, DataInv
  <2> QED
    BY <1>4, <1>5, <1>6, <2>1, <2>3
<1>15. CASE Replaces
  <2>1. PICK m \in Machines, p \in printed : BootFirst(m, p)
    BY <1>15 DEF Replaces
  <2>2. /\ UNCHANGED <<count, commands, kubeFile, toRun, stage, job>> /\ followed' = 0
        /\ cluster' = [ca |-> p.ca, serves |-> serves(p.ign), tokens |-> {},
                       key |-> p.ign.files["kubeadm.conf"][1].key]
        /\ node' = [n \in Machines |-> IF n = m THEN "member"
                                       ELSE IF node[n] = "member" THEN "stray" ELSE node[n]]
        /\ p.role = "init"
    BY <2>1 DEF BootFirst
  <2>3. node' \in [Machines -> {"off", "member", "stray"}]
    BY <1>2, <2>2 DEF DataInv
  <2>4. p.ca \in 1..count
    BY DEF Facts, PrintInv, isPrint
  <2>5. p.ign.files["kubeadm.conf"][1].key \in 0..count
    BY <2>2 DEF Facts, PrintInv, isPrint, says
  <2>6. clusterType'
    <3>1. PICK x, y : x = serves(p.ign) /\ y = p.ign.files["kubeadm.conf"][1].key
      OBVIOUS
    <3>2. cluster' = [ca |-> p.ca, serves |-> x, tokens |-> {}, key |-> y]
      BY <2>2, <3>1
    <3> QED
      BY <1>2, <2>2, <2>4, <2>5, <3>1, <3>2 DEF clusterType, DataInv
  <2>7. jobType' /\ fileType'
    BY <1>3, <1>5, <2>2
  <2> QED
    BY <1>1, <1>2, <2>2, <2>3, <2>6, <2>7 DEF DataInv
<1>16. CASE Boots
  <2>1. PICK m \in Machines, p \in printed : Boot(m, p)
    BY <1>16 DEF Boots
  <2>2. /\ UNCHANGED <<count, commands, kubeFile, cluster, toRun, stage, job, followed>>
        /\ \E x \in {"member", "stray"} : node' = [node EXCEPT ![m] = x]
    BY <2>1 DEF Boot
  <2>3. node' \in [Machines -> {"off", "member", "stray"}]
    BY <1>2, <2>2 DEF DataInv
  <2>4. jobType' /\ fileType' /\ clusterType'
    BY <1>3, <1>4, <1>5, <2>2
  <2> QED
    BY <1>1, <1>2, <2>2, <2>3, <2>4 DEF DataInv
<1>17. CASE Follows
  <2>1. PICK t \in toRun : FollowInstructions(t)
    BY <1>17 DEF Follows
  <2>2. /\ UNCHANGED <<count, commands, kubeFile, node, stage, job>> /\ followed' = t.token
        /\ toRun' = toRun \ {t}
        /\ cluster' = [cluster EXCEPT !.tokens = @ \cup {t.token}, !.key = IF t.key = 0 THEN @ ELSE t.key]
    BY <2>1 DEF FollowInstructions
  <2>3. t.token \in 1..count /\ t.key \in 0..count
    BY <1>2 DEF DataInv
  <2>4. clusterType'
    <3>1. PICK a, b, c, d : cluster = [ca |-> a, serves |-> b, tokens |-> c, key |-> d]
      BY <1>2 DEF DataInv, clusterType
    <3>2. PICK k : k = IF t.key = 0 THEN d ELSE t.key
      OBVIOUS
    <3>3. cluster' = [ca |-> a, serves |-> b, tokens |-> c \cup {t.token}, key |-> k]
      BY <2>2, <3>1, <3>2
    <3>4. a \in 0..count /\ c \subseteq 1..count /\ d \in 0..count
      BY <1>2, <3>1 DEF DataInv, clusterType
    <3>5. k \in 0..count /\ c \cup {t.token} \subseteq 1..count
      BY <2>3, <3>2, <3>4
    <3>6. PICK e : e = c \cup {t.token}
      OBVIOUS
    <3>7. cluster' = [ca |-> a, serves |-> b, tokens |-> e, key |-> k] /\ e \subseteq 1..count /\ count' = count
      BY <2>2, <3>3, <3>5, <3>6
    <3> QED
      BY <3>4, <3>5, <3>7 DEF clusterType
  <2>5. jobType' /\ fileType'
    BY <1>3, <1>5, <2>2
  <2>6. followed' \in 0..count' /\ \A u \in toRun' : u.token \in 1..count' /\ u.key \in 0..count'
    BY <1>2, <2>2, <2>3 DEF DataInv
  <2> QED
    BY <1>1, <1>2, <2>2, <2>4, <2>5, <2>6 DEF DataInv
<1>18. CASE UNCHANGED byoVars
  <2>1. UNCHANGED <<count, commands, kubeFile, cluster, toRun, node, followed, job, stage>>
    BY <1>18 DEF byoVars, sharedVars
  <2>2. stage' \in Stages
    BY <1>2, <2>1 DEF DataInv
  <2> QED
    BY <1>3, <1>4, <1>5, <1>6, <2>1, <2>2
<1> QED
  BY <1>7, <1>8, <1>9, <1>10, <1>11, <1>12, <1>13, <1>14, <1>15, <1>16, <1>17, <1>18, Steps

\* What the two commands that print do print.
isNew(x, role, token) ==
    /\ x.role = role /\ x.ca = kubeFile.ca /\ x.age = commands /\ ~x.ign.err
    /\ says(x.ign, role, x.ca, token, job.key)
LEMMA InitPrints == ASSUME ClusterInit PROVE \E x : printed' = printed \cup {x} /\ isNew(x, "init", 0)
<1>1. PICK i : i = ignitionForNode("cp", FALSE, kubeFile.ca, 0)
  OBVIOUS
<1>2. ~i.err /\ emit(i, "init", kubeFile.ca)
  BY <1>1 DEF ClusterInit
<1>3. PICK x : x = [ign |-> i, role |-> "init", ca |-> kubeFile.ca, age |-> commands]
  OBVIOUS
<1>4. printed' = printed \cup {x}
  BY <1>2, <1>3 DEF emit
<1>5. x.ign = i /\ x.role = "init" /\ x.ca = kubeFile.ca /\ x.age = commands
  BY <1>3
<1>6. says(i, "init", kubeFile.ca, 0, job.key)
  BY <1>1, <1>2, FirstSays
<1>7. isNew(x, "init", 0)
  BY <1>2, <1>5, <1>6 DEF isNew
<1> QED
  BY <1>4, <1>7

LEMMA JoinPrints ==
    ASSUME JoinIgnition, job.role \in {"cp", "worker"}
    PROVE  \E x : printed' = printed \cup {x} /\ isNew(x, job.role, job.token)
<1>1. PICK i : i = ignitionForNode(job.role, TRUE, kubeFile.ca, job.token)
  OBVIOUS
<1>2. ~i.err /\ emit(i, job.role, kubeFile.ca)
  BY <1>1 DEF JoinIgnition
<1>3. PICK x : x = [ign |-> i, role |-> job.role, ca |-> kubeFile.ca, age |-> commands]
  OBVIOUS
<1>4. printed' = printed \cup {x}
  BY <1>2, <1>3 DEF emit
<1>5. x.ign = i /\ x.role = job.role /\ x.ca = kubeFile.ca /\ x.age = commands
  BY <1>3
<1>6. says(i, job.role, kubeFile.ca, job.token, job.key)
  BY <1>1, <1>2, JoinSays
<1>7. isNew(x, job.role, job.token)
  BY <1>2, <1>5, <1>6 DEF isNew
<1> QED
  BY <1>4, <1>7

\* The role of a join that has its token.
LEMMA JoinsRole == ASSUME Facts, stage \in {"token", "upload"} PROVE job.role \in {"cp", "worker"}
  BY DEF Facts, PlanInv, DataInv, jobType

\* Only those two print, and the numbers grow.
LEMMA Prints ==
    ASSUME Facts, [ByoNext]_byoVars
    PROVE  \/ printed' = printed
           \/ ClusterInit /\ \E x : printed' = printed \cup {x} /\ isNew(x, "init", 0)
           \/ JoinIgnition /\ \E x : printed' = printed \cup {x} /\ isNew(x, job.role, job.token)
<1>1. CASE ClusterInit
  BY <1>1, InitPrints
<1>2. CASE JoinIgnition
  <2>1. stage = "token"
    BY <1>2 DEF JoinIgnition
  <2> QED
    BY <1>2, <2>1, JoinsRole, JoinPrints
<1>3. CASE Asks \/ Quiet \/ Install \/ Stops
  BY <1>3 DEF Asks, Ask, Quiet, Start, Prompt, Install, Stops, Refuses, Interrupted, giveUp, sharedVars
<1>4. CASE GeneratePKI \/ CreateJoinToken \/ FinishJoin \/ Delete
  BY <1>4 DEF GeneratePKI, CreateJoinToken, FinishJoin, Delete
<1>5. CASE Replaces \/ Boots \/ Follows
  BY <1>5 DEF Replaces, Boots, Follows, BootFirst, Boot, FollowInstructions
<1>6. CASE UNCHANGED byoVars
  BY <1>6 DEF byoVars, sharedVars
<1> QED
  BY <1>1, <1>2, <1>3, <1>4, <1>5, <1>6, Steps

LEMMA NumbersGrow ==
    ASSUME [ByoNext]_byoVars
    PROVE  (count' = count \/ count' = count + 1) /\ (commands' = commands \/ commands' = commands + 1)
<1>1. CASE Asks \/ Quiet \/ Install \/ Stops
  BY <1>1 DEF Asks, Ask, Quiet, Start, Prompt, Install, Stops, Refuses, Interrupted, giveUp, goto, return
<1>2. CASE GeneratePKI \/ CreateJoinToken \/ FinishJoin \/ Delete
  BY <1>2 DEF GeneratePKI, CreateJoinToken, FinishJoin, Delete, goto, return
<1>3. CASE ClusterInit \/ JoinIgnition
  BY <1>3 DEF ClusterInit, JoinIgnition, goto, return
<1>4. CASE Replaces \/ Boots \/ Follows
  BY <1>4 DEF Replaces, Boots, Follows, BootFirst, Boot, FollowInstructions
<1>5. CASE UNCHANGED byoVars
  BY <1>5 DEF byoVars, sharedVars
<1> QED
  BY <1>1, <1>2, <1>3, <1>4, <1>5, Steps

LEMMA PrintStep == ASSUME Facts, [ByoNext]_byoVars PROVE PrintInv'
<1>1. given' = given
  BY GivenFixed
<1>2. count \in Nat /\ commands \in Nat /\ job.key \in 0..count /\ job.token \in 0..count
  BY DEF Facts, DataInv, jobType
<1>3. (count' = count \/ count' = count + 1) /\ (commands' = commands \/ commands' = commands + 1)
  BY NumbersGrow
<1>4. ASSUME NEW p, isPrint(p) PROVE isPrint(p)'
  <2>1. PICK token \in 0..count, key \in 0..count : says(p.ign, p.role, p.ca, token, key)
    BY <1>4 DEF isPrint
  <2>2. says(p.ign, p.role, p.ca, token, key)'
    BY <1>1, <2>1, SaysKept
  <2>3. token \in 0..count' /\ key \in 0..count' /\ p.ca \in 1..count' /\ p.age \in 0..commands'
    BY <1>2, <1>3, <1>4 DEF isPrint
  <2> QED
    BY <1>4, <2>2, <2>3 DEF isPrint
<1>5. ASSUME NEW x, NEW role, NEW token \in 0..count, kubeFile # NoFile, isNew(x, role, token) PROVE isPrint(x)
  <2>1. kubeFile.ca \in 1..count
    BY <1>2, <1>5 DEF Facts, DataInv, fileType
  <2>2. says(x.ign, x.role, x.ca, token, job.key)
    BY <1>5 DEF isNew
  <2> QED
    BY <1>2, <1>5, <2>1, <2>2 DEF isPrint, isNew
<1>6. \A p \in printed : isPrint(p)
  BY DEF Facts, PrintInv
<1>7. CASE printed' = printed
  BY <1>4, <1>6, <1>7 DEF PrintInv
<1>8. CASE ClusterInit /\ \E x : printed' = printed \cup {x} /\ isNew(x, "init", 0)
  <2>1. kubeFile # NoFile
    BY <1>8 DEF ClusterInit, Facts, PlanInv
  <2> QED
    BY <1>2, <1>4, <1>5, <1>6, <1>8, <2>1 DEF PrintInv
<1>9. CASE JoinIgnition /\ \E x : printed' = printed \cup {x} /\ isNew(x, job.role, job.token)
  <2>1. kubeFile # NoFile
    BY <1>9 DEF JoinIgnition
  <2> QED
    BY <1>2, <1>4, <1>5, <1>6, <1>9, <2>1 DEF PrintInv
<1> QED
  BY <1>7, <1>8, <1>9, Prints

\* What a command that goes on, and one that returns, leave.
LEMMA PlanStep == ASSUME Facts, [ByoNext]_byoVars PROVE PlanInv'
<1>1. PlanInv /\ DataInv
  BY DEF Facts
<1>2. validateClusterConfig' <=> validateClusterConfig
  BY ConfigFixed
<1>3. CASE Asks
  <2>1. PICK kind, role : /\ role \in {"none", "cp", "worker"} /\ (kind = "join" => role # "none")
                          /\ Ask(kind, role)
    BY <1>3 DEF Asks
  <2>2. /\ stage' = "check" /\ outcome' = "runs" /\ UNCHANGED <<kubeFile, cluster, printed, node>>
        /\ job' = [kind |-> kind, role |-> role, key |-> count + 1, token |-> 0]
    BY <2>1 DEF Ask, sharedVars
  <2>3. job'.kind = kind /\ job'.role = role /\ job'.key # 0
    BY <1>1, <2>2 DEF DataInv
  <2> QED
    BY <1>1, <1>2, <2>1, <2>2, <2>3 DEF PlanInv
<1>4. CASE Start
  <2>1. /\ stage = "check"
        /\ stage' = "install" \/ (stage' = "pki" /\ validateClusterConfig /\ kubeFile = NoFile)
        /\ UNCHANGED <<kubeFile, cluster, printed, node, job, outcome>>
    BY <1>4 DEF Start, goto, sharedVars
  <2> QED
    BY <1>1, <1>2, <2>1 DEF PlanInv
<1>5. CASE Prompt
  <2>1. stage = "prompt" /\ stage' = "install" /\ UNCHANGED <<kubeFile, cluster, printed, node, job, outcome>>
    BY <1>5 DEF Prompt, goto, sharedVars
  <2> QED
    BY <1>1, <1>2, <2>1 DEF PlanInv
<1>6. CASE GeneratePKI
  <2>1. /\ stage = "pki" /\ stage' = "init" /\ UNCHANGED <<cluster, printed, node, job, outcome>>
        /\ kubeFile' = [ca |-> count + 1, endpoint |-> <<getKubeAPIServerIP, 6443>>]
    BY <1>6 DEF GeneratePKI, goto
  <2>2. kubeFile' # NoFile
    <3>1. kubeFile'.ca # 0
      BY <1>1, <2>1 DEF DataInv
    <3>2. NoFile.ca = 0
      BY DEF NoFile
    <3> QED
      BY <3>1, <3>2
  <2> QED
    BY <1>1, <1>2, <2>1, <2>2 DEF PlanInv
<1>7. CASE ClusterInit
  <2>1. /\ stage = "init" /\ UNCHANGED <<kubeFile, cluster, node>>
        /\ \/ stage' = "prompt" /\ job' = job /\ outcome' = outcome
           \/ stage' = "idle"
    BY <1>7 DEF ClusterInit, goto, return
  <2>2. printed \subseteq printed'
    BY <1>7, InitPrints
  <2> QED
    BY <1>1, <1>2, <2>1, <2>2 DEF PlanInv
<1>8. CASE JoinIgnition
  <2>1. /\ stage = "token" /\ UNCHANGED <<kubeFile, cluster, node, job, outcome>> /\ stage' = "upload"
    BY <1>8 DEF JoinIgnition, goto
  <2>2. printed \subseteq printed'
    BY <1>8, <2>1, JoinsRole, JoinPrints
  <2> QED
    BY <1>1, <1>2, <2>1, <2>2 DEF PlanInv
<1>9. CASE Install \/ Stops \/ Delete
  <2>1. stage' = "idle" /\ UNCHANGED <<cluster, printed, node>>
    BY <1>9 DEF Install, Stops, Refuses, Interrupted, Delete, giveUp, return, sharedVars
  <2> QED
    BY <1>1, <1>2, <2>1 DEF PlanInv
<1>10. CASE CreateJoinToken
  <2>1. /\ stage = "check" /\ job.kind = "join" /\ validateClusterConfig /\ stage' = "token"
        /\ UNCHANGED <<kubeFile, printed, node, outcome>>
        /\ job' = [job EXCEPT !.token = count + 1]
        /\ cluster' = cluster \/ cluster' = [cluster EXCEPT !.tokens = @ \cup {count + 1}]
    BY <1>10 DEF CreateJoinToken, goto
  <2>2. cluster'.ca = cluster.ca /\ cluster'.serves = cluster.serves
    BY <1>1, <2>1 DEF DataInv, clusterType
  <2>3. job'.role = job.role /\ job'.key = job.key /\ job'.token = count + 1
    BY <1>1, <2>1 DEF DataInv, jobType
  <2>4. job'.token # 0
    BY <1>1, <2>3 DEF DataInv
  <2> QED
    BY <1>1, <1>2, <2>1, <2>2, <2>3, <2>4 DEF PlanInv
<1>11. CASE FinishJoin
  <2>1. /\ stage' = "idle" /\ UNCHANGED <<kubeFile, printed, node>>
        /\ cluster' = cluster \/ cluster' = [cluster EXCEPT !.key = job.key]
    BY <1>11 DEF FinishJoin, return
  <2>2. cluster'.ca = cluster.ca /\ cluster'.serves = cluster.serves
    BY <1>1, <2>1 DEF DataInv, clusterType
  <2> QED
    BY <1>1, <1>2, <2>1, <2>2 DEF PlanInv
<1>12. CASE Replaces
  <2>1. PICK m \in Machines, p \in printed : BootFirst(m, p)
    BY <1>12 DEF Replaces
  <2>2. /\ UNCHANGED <<kubeFile, printed, stage, job, outcome>> /\ p.role = "init"
        /\ cluster' = [ca |-> p.ca, serves |-> serves(p.ign), tokens |-> {},
                       key |-> p.ign.files["kubeadm.conf"][1].key]
    BY <2>1 DEF BootFirst
  <2>3. cluster'.ca = p.ca /\ cluster'.serves = serves(p.ign)
    BY <2>2
  <2>4. p.ca # 0
    BY DEF Facts, PrintInv, isPrint
  <2>5. FirstOf(p, cluster'.ca)
    BY <2>2, <2>3 DEF FirstOf
  <2> QED
    BY <1>1, <1>2, <2>2, <2>3, <2>4, <2>5 DEF PlanInv
<1>13. CASE Boots
  <2>1. PICK m \in Machines, p \in printed : Boot(m, p)
    BY <1>13 DEF Boots
  <2>2. /\ UNCHANGED <<kubeFile, cluster, printed, stage, job, outcome>>
        /\ node' = [node EXCEPT ![m] = IF admits(p) THEN "member" ELSE "stray"]
    BY <2>1 DEF Boot
  <2>3. admits(p) => cluster.ca # 0
    BY DEF admits
  <2>4. \A n \in Machines : node'[n] = "member" => cluster'.ca # 0
    BY <1>1, <2>2, <2>3 DEF PlanInv, DataInv
  <2> QED
    BY <1>1, <1>2, <2>2, <2>4 DEF PlanInv
<1>14. CASE Follows
  <2>1. PICK t \in toRun : FollowInstructions(t)
    BY <1>14 DEF Follows
  <2>2. /\ UNCHANGED <<kubeFile, printed, node, stage, job, outcome>>
        /\ cluster' = [cluster EXCEPT !.tokens = @ \cup {t.token}, !.key = IF t.key = 0 THEN @ ELSE t.key]
    BY <2>1 DEF FollowInstructions
  <2>3. cluster'.ca = cluster.ca /\ cluster'.serves = cluster.serves
    BY <1>1, <2>2 DEF DataInv, clusterType
  <2> QED
    BY <1>1, <1>2, <2>2, <2>3 DEF PlanInv
<1>15. CASE UNCHANGED byoVars
  BY <1>1, <1>2, <1>15 DEF PlanInv, byoVars, sharedVars
<1> QED
  BY <1>3, <1>4, <1>5, <1>6, <1>7, <1>8, <1>9, <1>10, <1>11, <1>12, <1>13, <1>14, <1>15, Steps DEF Quiet

\* What the machines and the user do beside the commands.
LEMMA OutsideCommands ==
    ASSUME Replaces \/ Boots \/ Follows \/ UNCHANGED byoVars
    PROVE  UNCHANGED <<kubeFile, printed, job, stage, count, commands, outcome>>
  BY DEF Replaces, Boots, Follows, BootFirst, Boot, FollowInstructions, byoVars, sharedVars

LEMMA FirstStep == ASSUME Facts, [ByoNext]_byoVars PROVE FirstInv'
<1>1. FirstInv /\ PlanInv
  BY DEF Facts
<1>2. ASSUME UNCHANGED <<kubeFile, printed>>, stage' # "init", stage' = "prompt" => stage = "prompt",
             outcome' \in {"printed", "installed"} => outcome' = outcome
      PROVE  FirstInv'
  BY <1>1, <1>2 DEF FirstInv, ignited
<1>3. CASE Asks
  BY <1>2, <1>3 DEF Asks, Ask, sharedVars
<1>4. CASE Quiet
  BY <1>2, <1>4 DEF Quiet, Start, Prompt, goto, sharedVars
<1>5. CASE GeneratePKI
  <2>1. /\ stage = "pki" /\ stage' = "init" /\ printed' = printed /\ outcome' = outcome
        /\ kubeFile' = [ca |-> count + 1, endpoint |-> <<getKubeAPIServerIP, 6443>>]
    BY <1>5 DEF GeneratePKI, goto
  <2>2. outcome = "runs"
    BY <1>1, <2>1 DEF PlanInv
  <2>3. \A p \in printed : p.ca \in 1..count /\ count \in Nat
    BY DEF Facts, PrintInv, isPrint, DataInv
  <2>4. ~ignited'
    BY <2>1, <2>3 DEF ignited
  <2> QED
    BY <1>1, <2>1, <2>2, <2>4 DEF FirstInv
<1>6. CASE ClusterInit
  <2>1. PICK x : printed' = printed \cup {x} /\ isNew(x, "init", 0)
    BY <1>6, InitPrints
  <2>2. kubeFile' = kubeFile /\ stage = "init" /\ stage' # "init"
    BY <1>6 DEF ClusterInit, goto, return
  <2>3. x.role = "init" /\ x.ca = kubeFile.ca
    BY <2>1 DEF isNew
  <2>4. ignited'
    BY <2>1, <2>2, <2>3 DEF ignited
  <2>5. \A p \in printed : p.role = "init" => p.ca # x.ca
    BY <1>1, <2>2, <2>3 DEF FirstInv, ignited
  <2>6. \A p, q \in printed' : p.role = "init" /\ q.role = "init" /\ p.ca = q.ca => p = q
    BY <1>1, <2>1, <2>5 DEF FirstInv
  <2> QED
    BY <2>2, <2>4, <2>6 DEF FirstInv
<1>7. CASE Install
  <2>1. UNCHANGED <<kubeFile, printed>> /\ stage' = "idle" /\ reaches(kubeFile)
    BY <1>7 DEF Install, return, sharedVars
  <2>2. ignited
    BY <1>1, <2>1 DEF PlanInv, reaches, FirstOf, ignited
  <2> QED
    BY <1>1, <2>1, <2>2 DEF FirstInv, ignited
<1>8. CASE CreateJoinToken \/ FinishJoin
  BY <1>2, <1>8 DEF CreateJoinToken, FinishJoin, goto, return
<1>9. CASE JoinIgnition
  <2>1. stage = "token" /\ stage' = "upload" /\ UNCHANGED <<outcome, kubeFile, job>>
    BY <1>9 DEF JoinIgnition, goto
  <2>2. job.role \in {"cp", "worker"}
    BY <2>1, JoinsRole
  <2>3. PICK x : printed' = printed \cup {x} /\ isNew(x, job.role, job.token)
    BY <1>9, <2>2, JoinPrints
  <2>4. x.role # "init"
    BY <2>2, <2>3 DEF isNew
  <2> QED
    BY <1>1, <2>1, <2>3, <2>4 DEF FirstInv, ignited
<1>10. CASE Delete \/ Stops
  <2>1. printed' = printed /\ stage' = "idle" /\ outcome' \notin {"printed", "installed"}
    BY <1>10 DEF Delete, Stops, Refuses, Interrupted, giveUp, return, sharedVars
  <2> QED
    BY <1>1, <2>1 DEF FirstInv
<1>11. CASE Replaces \/ Boots \/ Follows \/ UNCHANGED byoVars
  <2>1. UNCHANGED <<kubeFile, printed, stage, outcome>>
    BY <1>11, OutsideCommands
  <2> QED
    BY <1>1, <2>1 DEF FirstInv, ignited
<1> QED
  BY <1>3, <1>4, <1>5, <1>6, <1>7, <1>8, <1>9, <1>10, <1>11, Steps

\* Only a start that has just written the kubeconfig prints for a first node.
LEMMA StrandedStays ==
    ASSUME Facts, [ByoNext]_byoVars, stranded PROVE stranded' \/ kubeFile' = NoFile
<1>1. kubeFile # NoFile /\ stage # "init" /\ ~ignited /\ PlanInv
  BY DEF stranded, Facts
<1>2. NoFile' = NoFile
  BY DEF NoFile
<1>3. ASSUME UNCHANGED <<kubeFile, printed>>, stage' # "init" PROVE stranded'
  BY <1>1, <1>2, <1>3 DEF stranded, ignited
<1>4. CASE Asks
  BY <1>3, <1>4 DEF Asks, Ask, sharedVars
<1>5. CASE Quiet \/ Install
  BY <1>3, <1>5 DEF Quiet, Start, Prompt, Install, goto, return, sharedVars
<1>6. CASE GeneratePKI
  BY <1>1, <1>6 DEF GeneratePKI, PlanInv
<1>7. CASE ClusterInit
  BY <1>1, <1>7 DEF ClusterInit
<1>8. CASE CreateJoinToken \/ FinishJoin
  BY <1>3, <1>8 DEF CreateJoinToken, FinishJoin, goto, return
<1>9. CASE JoinIgnition
  <2>1. stage = "token" /\ stage' = "upload" /\ UNCHANGED kubeFile
    BY <1>9 DEF JoinIgnition, goto
  <2>2. job.role \in {"cp", "worker"}
    BY <2>1, JoinsRole
  <2>3. PICK x : printed' = printed \cup {x} /\ isNew(x, job.role, job.token)
    BY <1>9, <2>2, JoinPrints
  <2> QED
    BY <1>1, <1>2, <2>1, <2>2, <2>3 DEF stranded, ignited, isNew
<1>10. CASE Delete
  BY <1>10 DEF Delete
<1>11. CASE Stops
  BY <1>3, <1>11 DEF Stops, Refuses, Interrupted, giveUp, return, sharedVars
<1>12. CASE Replaces \/ Boots \/ Follows \/ UNCHANGED byoVars
  <2>1. UNCHANGED <<kubeFile, printed, stage>>
    BY <1>12, OutsideCommands
  <2> QED
    BY <1>1, <1>3, <2>1
<1> QED
  BY <1>4, <1>5, <1>6, <1>7, <1>8, <1>9, <1>10, <1>11, <1>12, Steps

LEMMA NowStep == ASSUME Facts, [ByoNext]_byoVars PROVE NowInv'
<1>1. NowInv /\ PlanInv
  BY DEF Facts
<1>2. given' = given
  BY GivenFixed
<1>3. CASE Asks
  <2>1. printed' = printed /\ commands' = commands + 1
    BY <1>3 DEF Asks, Ask, sharedVars
  <2>2. \A p \in printed : p.age \in 0..commands
    BY DEF Facts, PrintInv, isPrint
  <2>3. commands \in Nat
    BY DEF Facts, DataInv
  <2>4. \A p \in printed' : ~latest(p)'
    BY <2>1, <2>2, <2>3 DEF latest
  <2> QED
    BY <2>4 DEF NowInv
<1>4. CASE Start \/ GeneratePKI \/ CreateJoinToken
  <2>1. printed' = printed /\ commands' = commands /\ stage \in {"check", "pki"}
    BY <1>4 DEF Start, GeneratePKI, CreateJoinToken, goto, sharedVars
  <2>2. \A p \in printed' : ~latest(p)'
    BY <1>1, <2>1 DEF latest, NowInv
  <2> QED
    BY <2>2 DEF NowInv
<1>5. CASE ClusterInit
  <2>1. PICK x : printed' = printed \cup {x} /\ isNew(x, "init", 0)
    BY <1>5, InitPrints
  <2>2. stage = "init" /\ commands' = commands /\ stage' \in {"prompt", "idle"}
        /\ (outcome' = outcome \/ outcome' = "printed")
    BY <1>5 DEF ClusterInit, goto, return
  <2>3. outcome' # "joined"
    BY <1>1, <2>2 DEF PlanInv
  <2> QED
    BY <2>2, <2>3 DEF NowInv
<1>6. CASE JoinIgnition
  <2>1. stage = "token" /\ stage' = "upload" /\ UNCHANGED <<commands, job, outcome, kubeFile>>
    BY <1>6 DEF JoinIgnition, goto
  <2>2. job.role \in {"cp", "worker"}
    BY <2>1, JoinsRole
  <2>3. PICK x : printed' = printed \cup {x} /\ isNew(x, job.role, job.token)
    BY <1>6, <2>2, JoinPrints
  <2>4. \A p \in printed : ~latest(p)'
    BY <1>1, <2>1 DEF NowInv, latest
  <2>5. x.role = job.role /\ x.ca = kubeFile.ca /\ says(x.ign, x.role, x.ca, job.token, job.key)
    BY <2>3 DEF isNew
  <2>6. says(x.ign, x.role, x.ca, job.token, job.key)'
    BY <1>2, <2>1, <2>5, SaysKept DEF isNew
  <2> QED
    BY <2>1, <2>2, <2>3, <2>4, <2>5, <2>6 DEF NowInv
<1>7. CASE Prompt
  <2>1. stage = "prompt" /\ stage' = "install" /\ UNCHANGED outcome
    BY <1>7 DEF Prompt, goto
  <2> QED
    BY <1>1, <2>1 DEF NowInv, PlanInv
<1>8. CASE Install \/ Delete \/ Stops
  <2>1. stage' = "idle" /\ outcome' # "joined"
    BY <1>8 DEF Install, Delete, Stops, Refuses, Interrupted, giveUp, return
  <2> QED
    BY <2>1 DEF NowInv
<1>9. CASE FinishJoin
  <2>1. stage = "upload" /\ stage' = "idle" /\ UNCHANGED <<printed, commands, kubeFile>>
    BY <1>9 DEF FinishJoin, return
  <2> QED
    BY <1>1, <2>1 DEF NowInv, latest
<1>10. CASE Replaces \/ Boots \/ Follows \/ UNCHANGED byoVars
  <2>1. UNCHANGED <<kubeFile, printed, job, stage, commands, outcome>>
    BY <1>10, OutsideCommands
  <2>2. \A p \in printed : stage = "upload" =>
            (says(p.ign, p.role, p.ca, job.token, job.key) => says(p.ign, p.role, p.ca, job.token, job.key)')
    BY <1>2, <2>1, SaysKept
  <2> QED
    BY <1>1, <2>1, <2>2 DEF NowInv, latest
<1> QED
  BY <1>3, <1>4, <1>5, <1>6, <1>7, <1>8, <1>9, <1>10, Steps DEF Quiet

-----------------------------------------------------------------------------
(* What a node serves, and whom the cluster admits                          *)

\* A control plane node listens where the others look, if it listens.
api == <<getKubeAPIServerIP, config.port>>
LEMMA AddressIs ==
    ASSUME given \in Worlds, validateClusterConfig
    PROVE  getKubeAPIServerIP = "address" /\ config.port \in Nat /\ config.alt \in Nat
<1>1. /\ config.virtualIp \in Address /\ config.loadBalancer \in Address
      /\ config.port \in Nat /\ config.alt \in Nat
  <2>1. config \in Files
    BY ByoAssumption DEF config
  <2> QED
    BY <2>1, ByoAssumption
<1> QED
  BY <1>1 DEF validateClusterConfig, getKubeAPIServerIP, Address

LEMMA ServesIs ==
    ASSUME NEW i, NEW role \in {"init", "cp"}, NEW ca, NEW token, NEW key, says(i, role, ca, token, key),
           given \in Worlds, validateClusterConfig
    PROVE  /\ serves(i) \subseteq {api}
           /\ portsDiffer => api \in serves(i)
           /\ "nginx.conf" \in DOMAIN i.files => i.files["check_apiserver.sh"][1] = i.files["nginx.conf"][1]
<1>1. api = <<"address", config.port>>
  BY AddressIs DEF api
<1>2. listens(i) /\ i.files["kubeadm.conf"][1].bindPort = bindPort
  BY DEF says
<1>3. PICK b, n : b = i.files["kubeadm.conf"][1].bindPort /\ n = i.files["nginx.conf"]
  OBVIOUS
<1>4. CASE internalLB
  <2>1. /\ "nginx.conf" \in DOMAIN i.files /\ n = <<config.port, config.alt>>
        /\ i.files["check_apiserver.sh"][1] = config.port /\ b = config.alt
    BY <1>2, <1>3, <1>4 DEF listens, bindPort
  <2>2. n[1] = config.port /\ n[2] = config.alt
    BY <2>1
  <2>3. serves(i) = IF n[2] = b /\ n[1] # b THEN {<<"address", n[1]>>} ELSE {}
    BY <1>3, <2>1 DEF serves
  <2>4. serves(i) = IF config.port # config.alt THEN {<<"address", config.port>>} ELSE {}
    BY <2>1, <2>2, <2>3
  <2> QED
    BY <1>1, <1>3, <1>4, <2>1, <2>2, <2>4 DEF portsDiffer
<1>5. CASE ~internalLB
  <2>1. "nginx.conf" \notin DOMAIN i.files /\ b = config.port
    BY <1>2, <1>3, <1>5 DEF listens, bindPort
  <2>2. serves(i) = {<<"address", b>>}
    BY <1>3, <2>1 DEF serves
  <2> QED
    BY <1>1, <2>1, <2>2
<1> QED
  BY <1>4, <1>5

\* What the cluster serves, if there is one.
LEMMA ClusterServes ==
    ASSUME Facts, cluster.ca # 0
    PROVE  cluster.serves \subseteq {api} /\ (portsDiffer => api \in cluster.serves)
<1>1. PICK p \in printed : p.role = "init" /\ cluster.serves = serves(p.ign)
  BY DEF Facts, PlanInv, FirstOf
<1>2. validateClusterConfig /\ given \in Worlds
  BY <1>1 DEF Facts, PlanInv, DataInv
<1>3. PICK token, key : says(p.ign, p.role, p.ca, token, key)
  BY DEF Facts, PrintInv, isPrint
<1> QED
  BY <1>1, <1>2, <1>3, ServesIs

\* A join that a cluster admits.
LEMMA Admitted ==
    ASSUME Facts, NEW p \in printed, p.role \in {"cp", "worker"}, p.ca = cluster.ca,
           api \in cluster.serves, kubeadm(p).token \in cluster.tokens,
           p.role = "cp" => kubeadm(p).key = cluster.key
    PROVE  admits(p)
<1>1. PICK token, key : says(p.ign, p.role, p.ca, token, key) /\ p.ca # 0
  BY DEF Facts, PrintInv, isPrint
<1>2. kubeadm(p).endpoint = api /\ kubeadm(p).hashes = p.ca
  BY <1>1 DEF says, api, kubeadm
<1> QED
  BY <1>1, <1>2 DEF admits, kubeadm

\* What the join that runs printed.
LEMMA JoinPrinted ==
    ASSUME Facts, stage = "upload", NEW p \in printed, latest(p)
    PROVE  /\ p.role = job.role /\ p.role \in {"cp", "worker"} /\ p.ca = kubeFile.ca
           /\ kubeadm(p).token = job.token /\ (p.role = "cp" => kubeadm(p).key = job.key)
<1>1. /\ p.role = job.role /\ p.role \in {"cp", "worker"} /\ p.ca = kubeFile.ca
      /\ says(p.ign, p.role, p.ca, job.token, job.key)
  BY DEF Facts, NowInv
<1> QED
  BY <1>1 DEF says, kubeadm

\* The cluster grows younger.
LEMMA YoungerCluster ==
    ASSUME Facts, Replaces
    PROVE  /\ cluster'.ca > cluster.ca /\ cluster.ca \in Nat /\ cluster'.ca \in Nat
           /\ followed' = 0 /\ toRun' = toRun
<1>1. PICK m \in Machines, p \in printed : BootFirst(m, p)
  BY DEF Replaces
<1>2. cluster'.ca = p.ca /\ cluster.ca < p.ca /\ followed' = 0 /\ toRun' = toRun
  BY <1>1 DEF BootFirst
<1>3. p.ca \in Nat /\ cluster.ca \in Nat /\ count \in Nat
  <2>1. p.ca \in 1..count /\ cluster.ca \in 0..count /\ count \in Nat
    BY DEF Facts, PrintInv, isPrint, DataInv, clusterType
  <2> QED
    BY <2>1
<1> QED
  BY <1>2, <1>3

\* A step that no join takes, and after which no join has just returned.
LEMMA NoJoin ==
    ASSUME Facts, [ByoNext]_byoVars,
           Asks \/ Start \/ Prompt \/ GeneratePKI \/ ClusterInit \/ Install \/ Delete \/ Stops
    PROVE  stage' \notin {"token", "upload"} /\ outcome' # "joined" /\ toRun' = toRun
           /\ cluster' = cluster /\ followed' = followed
<1>1. PlanInv
  BY DEF Facts
<1>2. CASE Asks
  BY <1>2 DEF Asks, Ask, sharedVars
<1>3. CASE Start \/ Prompt
  BY <1>1, <1>3 DEF Start, Prompt, goto, sharedVars, PlanInv
<1>4. CASE GeneratePKI
  BY <1>1, <1>4 DEF GeneratePKI, goto, PlanInv
<1>5. CASE ClusterInit
  BY <1>1, <1>5 DEF ClusterInit, goto, return, PlanInv
<1>6. CASE Install \/ Delete \/ Stops
  BY <1>6 DEF Install, Delete, Stops, Refuses, Interrupted, giveUp, return, sharedVars
<1> QED
  BY <1>2, <1>3, <1>4, <1>5, <1>6

LEMMA AutoStep == ASSUME Facts, [ByoNext]_byoVars PROVE AutoInv'
<1>1. config' = config
  BY ConfigFixed
<1> SUFFICES ASSUME config.automatic
             PROVE  /\ toRun' = {}
                    /\ stage' \in {"token", "upload"} =>
                           replaced' \/ (reaches(kubeFile)' /\ job'.token \in cluster'.tokens)
                    /\ outcome' = "joined" => \A p \in printed' : latest(p)' => replaced' \/ admits(p)'
  BY <1>1 DEF AutoInv
<1>2. /\ toRun = {}
      /\ stage \in {"token", "upload"} =>
             replaced \/ (reaches(kubeFile) /\ job.token \in cluster.tokens)
      /\ outcome = "joined" => \A p \in printed : latest(p) => replaced \/ admits(p)
  BY DEF Facts, AutoInv
<1>3. CASE Asks \/ Start \/ Prompt \/ GeneratePKI \/ ClusterInit \/ Install \/ Delete \/ Stops
  BY <1>2, <1>3, NoJoin
<1>4. CASE CreateJoinToken
  <2>1. /\ stage = "check" /\ reaches(kubeFile) /\ UNCHANGED <<kubeFile, toRun, outcome>>
        /\ job' = [job EXCEPT !.token = count + 1]
        /\ cluster' = [cluster EXCEPT !.tokens = @ \cup {count + 1}]
    BY <1>4 DEF CreateJoinToken, goto
  <2>2. /\ cluster'.ca = cluster.ca /\ cluster'.serves = cluster.serves
        /\ cluster'.tokens = cluster.tokens \cup {count + 1}
    BY <2>1 DEF Facts, DataInv, clusterType
  <2>3. job'.token = count + 1
    BY <2>1 DEF Facts, DataInv, jobType
  <2>4. reaches(kubeFile)'
    BY <2>1, <2>2 DEF reaches
  <2>5. outcome' # "joined"
    BY <2>1 DEF Facts, PlanInv
  <2> QED
    BY <1>2, <2>1, <2>2, <2>3, <2>4, <2>5
<1>5. CASE JoinIgnition
  <2>1. stage = "token" /\ UNCHANGED <<kubeFile, toRun, outcome, job, cluster>>
    BY <1>5 DEF JoinIgnition, goto
  <2>2. outcome' # "joined"
    BY <2>1 DEF Facts, PlanInv
  <2> QED
    BY <1>2, <2>1, <2>2 DEF reaches, replaced
<1>6. CASE FinishJoin
  <2>1. /\ stage = "upload" /\ stage' = "idle" /\ UNCHANGED <<kubeFile, toRun, printed, commands>>
        /\ cluster' = IF job.role = "cp" THEN [cluster EXCEPT !.key = job.key] ELSE cluster
    BY <1>6 DEF FinishJoin, return
  <2>2. /\ cluster'.ca = cluster.ca /\ cluster'.serves = cluster.serves /\ cluster'.tokens = cluster.tokens
        /\ job.role = "cp" => cluster'.key = job.key
    BY <2>1 DEF Facts, DataInv, clusterType
  <2>3. CASE replaced
    BY <1>2, <2>1, <2>2, <2>3 DEF replaced
  <2>4. CASE reaches(kubeFile) /\ job.token \in cluster.tokens
    <3>1. kubeFile.ca = cluster.ca /\ cluster.ca # 0 /\ kubeFile.endpoint \in cluster.serves
      BY <2>4 DEF reaches
    <3>2. api \in cluster.serves
      BY <3>1, ClusterServes
    <3>3. ASSUME NEW p \in printed, latest(p) PROVE admits(p)'
      <4>1. /\ p.role = job.role /\ p.role \in {"cp", "worker"} /\ p.ca = kubeFile.ca
            /\ kubeadm(p).token = job.token /\ (p.role = "cp" => kubeadm(p).key = job.key)
        BY <2>1, <3>3, JoinPrinted
      <4>2. PICK token, key : says(p.ign, p.role, p.ca, token, key)
        BY DEF Facts, PrintInv, isPrint
      <4>3. kubeadm(p).endpoint = api /\ kubeadm(p).hashes = p.ca
        BY <4>1, <4>2 DEF says, api, kubeadm
      <4> QED
        BY <2>2, <2>4, <3>1, <3>2, <4>1, <4>3 DEF admits, kubeadm
    <3> QED
      BY <1>2, <2>1, <3>3 DEF latest
  <2> QED
    BY <1>2, <2>1, <2>3, <2>4
<1>7. CASE Replaces
  <2>1. /\ cluster'.ca > cluster.ca /\ cluster.ca \in Nat /\ cluster'.ca \in Nat /\ toRun' = toRun
        /\ UNCHANGED <<kubeFile, printed, stage, commands, outcome>>
    BY <1>7, YoungerCluster, OutsideCommands
  <2>2. kubeFile.ca \in Nat
    BY DEF Facts, DataInv, fileType
  <2>3. cluster.ca >= kubeFile.ca => replaced'
    BY <2>1, <2>2 DEF replaced
  <2>4. replaced \/ cluster.ca = kubeFile.ca => replaced'
    BY <2>1, <2>2, <2>3 DEF replaced
  <2>5. stage \in {"token", "upload"} => replaced'
    BY <1>2, <2>4 DEF reaches
  <2>6. ASSUME outcome = "joined", NEW p \in printed, latest(p) PROVE replaced'
    <3>1. p.role # "init" /\ p.ca = kubeFile.ca
      BY <2>6 DEF Facts, NowInv
    <3>2. PICK token, key : says(p.ign, p.role, p.ca, token, key)
      BY DEF Facts, PrintInv, isPrint
    <3>3. admits(p) => cluster.ca = kubeFile.ca
      BY <3>1, <3>2 DEF admits, says
    <3> QED
      BY <1>2, <2>4, <2>6, <3>3
  <2> QED
    BY <1>2, <2>1, <2>5, <2>6 DEF latest
<1>8. CASE Boots \/ UNCHANGED byoVars
  <2>1. UNCHANGED <<kubeFile, cluster, printed, toRun, job, stage, commands, outcome>>
    BY <1>8 DEF Boots, Boot, byoVars, sharedVars
  <2> QED
    BY <1>2, <2>1 DEF reaches, replaced, admits, latest
<1>9. CASE Follows
  BY <1>2, <1>9 DEF Follows
<1> QED
  BY <1>3, <1>4, <1>5, <1>6, <1>7, <1>8, <1>9, Steps DEF Quiet

LEMMA ManualStep == ASSUME Facts, [ByoNext]_byoVars PROVE ManualInv'
<1>1. config' = config
  BY ConfigFixed
<1> DEFINE joins(p) ==
      /\ kubeadm(p).token # 0
      /\ p.role = "cp" =>
             /\ kubeadm(p).key # 0
             /\ \A t \in toRun : t.token = kubeadm(p).token => t.key = kubeadm(p).key
             /\ followed = kubeadm(p).token => cluster.key = kubeadm(p).key
<1> SUFFICES ASSUME ~config.automatic
             PROVE  /\ followed' # 0 => followed' \in cluster'.tokens
                    /\ stage' \in {"token", "upload"} =>
                           followed' # job'.token /\ \A t \in toRun' : t.token # job'.token
                    /\ outcome' = "joined" => \A p \in printed' : latest(p)' => joins(p)'
  BY <1>1 DEF ManualInv
<1>2. /\ followed # 0 => followed \in cluster.tokens
      /\ stage \in {"token", "upload"} => followed # job.token /\ \A t \in toRun : t.token # job.token
      /\ outcome = "joined" => \A p \in printed : latest(p) => joins(p)
  BY DEF Facts, ManualInv
<1> HIDE DEF joins
<1>3. CASE Asks \/ Start \/ Prompt \/ GeneratePKI \/ ClusterInit \/ Install \/ Delete \/ Stops
  BY <1>2, <1>3, NoJoin
<1>4. CASE CreateJoinToken
  <2>1. /\ stage = "check" /\ UNCHANGED <<kubeFile, toRun, outcome, cluster, followed>>
        /\ job' = [job EXCEPT !.token = count + 1]
    BY <1>4 DEF CreateJoinToken, goto
  <2>2. job'.token = count + 1
    BY <2>1 DEF Facts, DataInv, jobType
  <2>3. /\ count \in Nat /\ followed \in 0..count /\ \A t \in toRun : t.token \in 1..count
    BY DEF Facts, DataInv
  <2>4. followed # count + 1 /\ \A t \in toRun : t.token # count + 1
    BY <2>3
  <2>5. outcome' # "joined"
    BY <2>1 DEF Facts, PlanInv
  <2> QED
    BY <1>2, <2>1, <2>2, <2>4, <2>5
<1>5. CASE JoinIgnition
  <2>1. stage = "token" /\ UNCHANGED <<toRun, outcome, job, cluster, followed>>
    BY <1>5 DEF JoinIgnition, goto
  <2>2. outcome' # "joined"
    BY <2>1 DEF Facts, PlanInv
  <2> QED
    BY <1>2, <2>1, <2>2
<1>6. CASE FinishJoin
  <2>1. PICK x : x = [token |-> job.token, key |-> IF job.role = "cp" THEN job.key ELSE 0]
    OBVIOUS
  <2>2. /\ stage = "upload" /\ stage' = "idle" /\ UNCHANGED <<cluster, followed, printed, commands>>
        /\ toRun' = toRun \cup {x}
    BY <1>6, <2>1 DEF FinishJoin, return
  <2>3. job.token # 0 /\ job.key # 0
    BY <2>2 DEF Facts, PlanInv
  <2>4. ASSUME NEW p \in printed, latest(p) PROVE joins(p)'
    <3>1. /\ p.role = job.role /\ kubeadm(p).token = job.token /\ (p.role = "cp" => kubeadm(p).key = job.key)
      BY <2>2, <2>4, JoinPrinted
    <3>2. x.token = job.token /\ (p.role = "cp" => x.key = job.key)
      BY <2>1, <3>1
    <3>3. followed # job.token /\ \A t \in toRun : t.token # job.token
      BY <1>2, <2>2
    <3>4. p.role = "cp" => \A t \in toRun' : t.token = kubeadm(p).token => t.key = kubeadm(p).key
      BY <2>2, <3>1, <3>2, <3>3
    <3>5. followed' # kubeadm(p).token
      BY <2>2, <3>1, <3>3
    <3> QED
      BY <2>3, <3>1, <3>4, <3>5 DEF joins, kubeadm
  <2> QED
    BY <1>2, <2>2, <2>4 DEF latest
<1>7. CASE Replaces
  <2>1. followed' = 0 /\ toRun' = toRun /\ UNCHANGED <<printed, stage, commands, outcome, job>>
    BY <1>7, YoungerCluster, OutsideCommands
  <2>2. ASSUME NEW p \in printed, joins(p) PROVE joins(p)'
    BY <2>1, <2>2 DEF joins, kubeadm
  <2>3. stage \in {"token", "upload"} => job.token # 0
    BY DEF Facts, PlanInv
  <2> QED
    BY <1>2, <2>1, <2>2, <2>3 DEF latest
<1>8. CASE Boots \/ UNCHANGED byoVars
  <2>1. UNCHANGED <<cluster, printed, toRun, job, stage, commands, outcome, followed>>
    BY <1>8 DEF Boots, Boot, byoVars, sharedVars
  <2>2. ASSUME NEW p \in printed, joins(p) PROVE joins(p)'
    BY <2>1, <2>2 DEF joins, kubeadm
  <2> QED
    BY <1>2, <2>1, <2>2 DEF latest
<1>9. CASE Follows
  <2>1. PICK t \in toRun : FollowInstructions(t)
    BY <1>9 DEF Follows
  <2>2. /\ UNCHANGED <<printed, stage, job, commands, outcome>> /\ followed' = t.token /\ toRun' = toRun \ {t}
        /\ cluster' = [cluster EXCEPT !.tokens = @ \cup {t.token}, !.key = IF t.key = 0 THEN @ ELSE t.key]
    BY <2>1 DEF FollowInstructions, sharedVars
  <2>3. /\ cluster'.tokens = cluster.tokens \cup {t.token}
        /\ t.key # 0 => cluster'.key = t.key
    <3>1. PICK a, b, c, d : cluster = [ca |-> a, serves |-> b, tokens |-> c, key |-> d]
      BY DEF Facts, DataInv, clusterType
    <3>2. PICK k : k = IF t.key = 0 THEN d ELSE t.key
      OBVIOUS
    <3>3. cluster' = [ca |-> a, serves |-> b, tokens |-> c \cup {t.token}, key |-> k]
      BY <2>2, <3>1, <3>2
    <3> QED
      BY <3>1, <3>2, <3>3
  <2>4. ASSUME NEW p \in printed, joins(p) PROVE joins(p)'
    <3>1. kubeadm(p).token # 0
      BY <2>4 DEF joins
    <3>2. CASE p.role = "cp"
      <4>1. /\ kubeadm(p).key # 0
            /\ \A u \in toRun : u.token = kubeadm(p).token => u.key = kubeadm(p).key
        BY <2>4, <3>2 DEF joins
      <4>2. t.token = kubeadm(p).token => cluster'.key = kubeadm(p).key
        BY <2>3, <4>1
      <4> QED
        BY <2>2, <3>1, <4>1, <4>2 DEF joins, kubeadm
    <3>3. CASE p.role # "cp"
      BY <3>1, <3>3 DEF joins, kubeadm
    <3> QED
      BY <3>2, <3>3
  <2> QED
    BY <1>2, <2>1, <2>2, <2>3, <2>4 DEF latest
<1> QED
  BY <1>3, <1>4, <1>5, <1>6, <1>7, <1>8, <1>9, Steps DEF Quiet

-----------------------------------------------------------------------------
(* The theorems                                                             *)

LEMMA ByoInitFacts == ByoInit => Facts
<1> SUFFICES ASSUME ByoInit PROVE Facts
  OBVIOUS
<1>1. NoFile.ca = 0 /\ NoCluster.ca = 0 /\ NoCluster.tokens = {} /\ NoCluster.key = 0
  BY DEF NoFile, NoCluster
<1>2. jobType
  BY DEF ByoInit, jobType, NoJob
<1>3. fileType
  BY <1>1 DEF ByoInit, fileType
<1>4. clusterType
  <2>1. cluster = [ca |-> cluster.ca, serves |-> cluster.serves, tokens |-> cluster.tokens, key |-> cluster.key]
    BY DEF ByoInit, NoCluster
  <2> QED
    BY <1>1, <2>1 DEF ByoInit, clusterType
<1>5. DataInv
  BY <1>2, <1>3, <1>4 DEF ByoInit, DataInv, Stages
<1>6. PrintInv /\ NowInv /\ FirstInv
  BY DEF ByoInit, PrintInv, NowInv, FirstInv, ignited
<1>7. PlanInv
  BY <1>1 DEF ByoInit, PlanInv
<1>8. AutoInv /\ ManualInv
  BY DEF ByoInit, AutoInv, ManualInv
<1> QED
  BY <1>5, <1>6, <1>7, <1>8 DEF Facts

LEMMA FactsStep == Facts /\ [ByoNext]_byoVars => Facts'
  BY DataStep, PrintStep, PlanStep, FirstStep, NowStep, AutoStep, ManualStep DEF Facts

LEMMA AllFacts == ByoSpec => []Facts
  BY ByoInitFacts, FactsStep, PTL DEF ByoSpec

\* Start takes a kubeconfig as proof that the cluster runs.  A start that succeeds
\* has ignition for that cluster, though any number of commands failed before, an
\* authority is printed for one first node only, and what failed in between stays
\* without ignition until it is deleted.
THEOREM StartsAlwaysIgnite == ByoSpec => StartsIgnite
<1>1. Facts => (outcome \in {"printed", "installed"} => ignited)
  BY DEF Facts, FirstInv
<1>2. Facts => \A p, q \in printed : p.role = "init" /\ q.role = "init" /\ p.ca = q.ca => p = q
  BY DEF Facts, FirstInv
<1>3. Facts /\ [ByoNext]_byoVars => [stranded => stranded' \/ kubeFile' = NoFile]_byoVars
  BY StrandedStays
<1> QED
  BY <1>1, <1>2, <1>3, AllFacts, PTL DEF ByoSpec, StartsIgnite

\* Every node that is given an ignition serves the API where the others look for
\* it and keeps what the user put into the extra ignition (ignitionForNode).
THEOREM NodesAlwaysAsAsked == ByoSpec => []NodesAsAsked
<1>1. ASSUME Facts, NEW p \in printed PROVE \E token, key : says(p.ign, p.role, p.ca, token, key)
  BY <1>1 DEF Facts, PrintInv, isPrint
<1>2. Facts => ExtraWins
  <2> SUFFICES ASSUME Facts, config.extra = "good", NEW p \in printed
               PROVE  /\ p.ign.units["ocne-update.service"].enabled = "no"
                      /\ p.ign.files["registries.conf"] = <<"mine">>
    BY DEF ExtraWins
  <2> QED
    BY <1>1 DEF says, keepsExtra
<1>3. Facts => EndpointServed
  <2> SUFFICES ASSUME Facts, portsDiffer, NEW p \in printed, NEW q \in printed, p.role \in {"init", "cp"}
               PROVE  LET k == q.ign.files["kubeadm.conf"] IN
                      /\ (IF q.role = "init" THEN k[2].endpoint ELSE k[1].endpoint) \in serves(p.ign)
                      /\ config.port = 6443 /\ kubeFile # NoFile => kubeFile.endpoint \in serves(p.ign)
                      /\ "nginx.conf" \in DOMAIN p.ign.files =>
                             p.ign.files["check_apiserver.sh"][1] = p.ign.files["nginx.conf"][1]
    BY DEF EndpointServed
  <2>1. validateClusterConfig /\ given \in Worlds
    BY DEF Facts, PlanInv, DataInv
  <2>2. api \in serves(p.ign)
        /\ ("nginx.conf" \in DOMAIN p.ign.files =>
                p.ign.files["check_apiserver.sh"][1] = p.ign.files["nginx.conf"][1])
    BY <1>1, <2>1, ServesIs
  <2>3. (IF q.role = "init" THEN q.ign.files["kubeadm.conf"][2].endpoint
         ELSE q.ign.files["kubeadm.conf"][1].endpoint) = api
    BY <1>1 DEF says, api
  <2>4. config.port = 6443 /\ kubeFile # NoFile => kubeFile.endpoint = api
    BY DEF Facts, DataInv, fileType, api
  <2> QED
    BY <2>2, <2>3, <2>4
<1>4. Facts => NodesAsAsked
  BY <1>2, <1>3 DEF NodesAsAsked
<1> QED
  BY <1>4, AllFacts, PTL

\* What a join prints admits a machine to the cluster its kubeconfig is for, with
\* the token that it made or that the user was told to make.
THEOREM JoinsAlwaysAdmit == ByoSpec => []JoinsAdmit
<1>1. Facts => ByoInv
  <2> SUFFICES ASSUME Facts PROVE ByoInv
    OBVIOUS
  <2>1. \A p \in printed : ~p.ign.err /\ p.ca \in 1..count
    BY DEF Facts, PrintInv, isPrint
  <2>2. \A m \in Machines : node[m] = "member" => cluster.ca # 0
    BY DEF Facts, PlanInv
  <2> QED
    BY <2>1, <2>2 DEF Facts, DataInv, fileType, clusterType, ByoInv
<1>2. Facts => JoinAdmits
  <2> SUFFICES ASSUME Facts, outcome = "joined", config.automatic, kubeFile.ca = cluster.ca,
                      NEW p \in printed, p.age = commands
               PROVE  admits(p)
    BY DEF JoinAdmits
  <2>1. replaced \/ admits(p)
    BY DEF Facts, AutoInv, latest
  <2>2. ~replaced
    <3>1. cluster.ca \in 0..count /\ count \in Nat
      BY DEF Facts, DataInv, clusterType
    <3> QED
      BY <3>1 DEF replaced
  <2> QED
    BY <2>1, <2>2
<1>3. Facts => InstructionsAdmit
  <2> SUFFICES ASSUME Facts, outcome = "joined", ~config.automatic, portsDiffer, kubeFile.ca = cluster.ca,
                      NEW p \in printed, p.age = commands, followed = kubeadm(p).token
               PROVE  admits(p)
    BY DEF InstructionsAdmit, kubeadm
  <2>1. p.role \in {"cp", "worker"} /\ p.ca = kubeFile.ca
    BY DEF Facts, NowInv, latest
  <2>2. kubeadm(p).token # 0 /\ (p.role = "cp" => cluster.key = kubeadm(p).key)
    BY DEF Facts, ManualInv, latest
  <2>3. followed \in cluster.tokens
    BY <2>2 DEF Facts, ManualInv
  <2>4. cluster.ca # 0
    BY <2>1 DEF Facts, PrintInv, isPrint
  <2>5. api \in cluster.serves
    BY <2>4, ClusterServes
  <2> QED
    BY <2>1, <2>2, <2>3, <2>5, Admitted
<1>4. Facts => JoinsAdmit
  BY <1>1, <1>2, <1>3 DEF JoinsAdmit
<1> QED
  BY <1>4, AllFacts, PTL
=============================================================================
