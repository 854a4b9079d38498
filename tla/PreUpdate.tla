------------------------------ MODULE PreUpdate ------------------------------
(***************************************************************************)
(* What stage and node update do to a cluster before they touch a node:    *)
(* images get a "current" tag on every node, kube-proxy, CoreDNS, Flannel  *)
(* and the UI are moved to that tag, and a virtual IP that the nodes       *)
(* manage is handed over to the monitor in the cluster.                    *)
(***************************************************************************)
EXTENDS RunScript

CONSTANTS
    Worlds,         \* the circumstances that are considered, see world
    MaxCommands,    \* bound on the number of commands
    MaxErrors       \* bound on the number of errors of the API

Apps == {"kubeProxy", "coreDNS", "flannel", "ui"}

ASSUME PreUpdateAssumption ==
    /\ {"tag-images", "check-ips", "upgrade-vips"} \subseteq Actions
    /\ Scripts = SUBSET Apps    \* tag-images is told what to tag
    /\ Envs = {""}
    /\ MaxCommands \in Nat /\ MaxErrors \in Nat
    /\ Worlds \subseteq
           [cps : SUBSET Nodes,                 \* the control plane
            old : SUBSET Nodes,                 \* kubelets before 1.31
            images : [Nodes -> SUBSET Apps],    \* images on the nodes, under some tag
            workload : [Apps -> {"absent", "foreign", "old"}],
            release : [Apps -> {"none", "untagged", "old"}],
            vip : {"onNode", "capi", "none", "vip"},    \* what the endpoint is
            faults : SUBSET {"api", "helm", "list", "kill"},
            serial : BOOLEAN]

VARIABLES
    workload,       \* [app]: the tag its daemon set or deployment runs
    release,        \* [app]: the tag in the values of its helm release; "pending"
                    \* when that is the current one, not or not yet applied
    phase, nodes,   \* [p]: the step of Update, and the nodes it still has to do
    seen,           \* [p]: the current tags of the nodes, as listed at first
    tags,           \* [p]: the apps whose image has a tag of the registry
    good, bad,      \* [p]: haveSuccess, haveError
    clean,          \* observer [p]: nothing went wrong or got in the way
    result,         \* observer [p]
    commands, errors, world

updateVars == <<phase, nodes, seen, tags, good, bad, clean, result>>
clusterVars == <<workload, release>>
vars == <<scriptVars, updateVars, clusterVars, commands, errors, world>>

Phases == {"idle", "tags", "tag", "kubeProxy", "coreDNS", "flannel", "ui",
           "applyKubeProxy", "applyCoreDNS", "applyFlannel", "applyUI",
           "vip", "check", "upgrade", "monitor"}
Monitor == "ha"

Init ==
    /\ ScriptInit
    /\ world \in Worlds
    /\ workload = world.workload
    /\ release = [a \in Apps \cup {Monitor} |-> IF a = Monitor THEN "none" ELSE world.release[a]]
    /\ phase = [p \in Procs |-> "idle"]
    /\ nodes = [p \in Procs |-> {}]
    /\ seen = [p \in Procs |-> [n \in Nodes |-> {}]]
    /\ tags = [p \in Procs |-> {}]
    /\ good = [p \in Procs |-> FALSE]
    /\ bad = [p \in Procs |-> FALSE]
    /\ clean = [p \in Procs |-> TRUE]
    /\ result = [p \in Procs |-> "new"]
    /\ commands = 0
    /\ errors = 0

\* The current tags of a node.
current(n) == UNION {e.script : e \in {f \in applied[n] : f.action = "tag-images"}}

\* The node follows the monitor.
handedOver(n) == \E e \in applied[n] : e.action = "upgrade-vips"

moveTo(p, from, to) == phase[p] = from /\ phase' = [phase EXCEPT ![p] = to]

\* Update returns.
end(p, r) ==
    /\ phase' = [phase EXCEPT ![p] = "idle"]
    /\ result' = [result EXCEPT ![p] = r]
    /\ nodes' = [nodes EXCEPT ![p] = {}]
    /\ seen' = [seen EXCEPT ![p] = [n \in Nodes |-> {}]]
    /\ tags' = [tags EXCEPT ![p] = {}]
    /\ good' = [good EXCEPT ![p] = FALSE]
    /\ bad' = [bad EXCEPT ![p] = FALSE]

\* A command lists the nodes.  oneThirtyAndLower has nothing to do when all
\* of them are newer.
Begin(p) ==
    /\ phase[p] = "idle" /\ commands < MaxCommands
    /\ world.serial => \A q \in Procs \ {p} : result[q] = "new"
    /\ commands' = commands + 1
    /\ phase' = [phase EXCEPT ![p] = IF world.old = {} THEN "vip" ELSE "tags"]
    /\ seen' = [seen EXCEPT ![p] = [n \in Nodes |-> current(n)]]
    /\ clean' = [clean EXCEPT ![p] = TRUE]
    /\ result' = [result EXCEPT ![p] = "runs"]
    /\ UNCHANGED <<scriptVars, clusterVars, nodes, tags, good, bad, errors, world>>

\* getDaemonSetTag and getDeploymentTag: no tag if there is no such workload
\* or its image is of another registry.
GetTags(p) ==
    /\ moveTo(p, "tags", "tag")
    /\ tags' = [tags EXCEPT ![p] = {a \in Apps : workload[a] \in {"old", "current"}}]
    /\ nodes' = [nodes EXCEPT ![p] = Nodes]
    /\ UNCHANGED <<scriptVars, clusterVars, seen, good, bad, clean, result, commands, errors, world>>

\* GetImageCandidate and tagOnNode: what is to be tagged on a node.
MutantToTag(p, n) == {a \in Apps : a \in tags[p] /\ a \in world.images[n] /\ a # "coreDNS"}

toTag(p, n) == {a \in Apps : a \notin seen[p][n] /\ a \in tags[p] /\ a \in world.images[n]}

allCurrent(p, n) == seen[p][n] = Apps

\* The nodes are taken in the order of the list.
first(S) == CHOOSE n \in S : TRUE

TagOnNode(p) ==
    /\ phase[p] = "tag" /\ at[p] = "idle" /\ nodes[p] # {}
    /\ LET n == first(nodes[p]) IN
        IF allCurrent(p, n)
        THEN /\ nodes' = [nodes EXCEPT ![p] = @ \ {n}]
             /\ good' = [good EXCEPT ![p] = TRUE]
             /\ UNCHANGED scriptVars
        ELSE /\ Call(p, [action |-> "tag-images", node |-> n, script |-> toTag(p, n), env |-> ""])
             /\ UNCHANGED <<nodes, good>>
    /\ UNCHANGED <<clusterVars, phase, seen, tags, bad, clean, result, commands, errors, world>>

\* A node that failed is logged and left out.
TaggedOnNode(p) ==
    /\ phase[p] = "tag"
    /\ Return(p)
    /\ clean' = [clean EXCEPT ![p] = @ /\ ~met[p]]
    /\ nodes' = [nodes EXCEPT ![p] = @ \ {call[p].node}]
    /\ good' = [good EXCEPT ![p] = @ \/ ok[p]]
    /\ bad' = [bad EXCEPT ![p] = @ \/ ~ok[p]]
    /\ UNCHANGED <<clusterVars, phase, seen, tags, result, commands, errors, world>>

TagDone(p) ==
    /\ phase[p] = "tag" /\ nodes[p] = {} /\ at[p] = "idle"
    /\ IF ~good[p] /\ bad[p]
       THEN end(p, "failed")
       ELSE moveTo(p, "tag", "kubeProxy") /\ UNCHANGED <<nodes, seen, tags, good, bad, result>>
    /\ UNCHANGED <<scriptVars, clusterVars, clean, commands, errors, world>>

-----------------------------------------------------------------------------
(* The applications                                                         *)

\* getRelease: what List returns, which is nothing when it fails.
getReleases(a) == {release[a]} \cup IF "list" \in world.faults THEN {"none"} ELSE {}

\* What is to be done with a release that was found or not: nothing, an
\* installation, or an update of its tag.
updateKubeProxy(r) ==
    IF workload["kubeProxy"] = "absent" THEN "nothing"
    ELSE IF r = "none" THEN "install"
    ELSE IF r = "old" THEN "update" ELSE "nothing"

updateCoreDNS(r) ==
    IF workload["coreDNS"] = "absent" THEN "nothing"
    ELSE IF r = "none" THEN "install"
    ELSE IF r = "old" THEN "update" ELSE "nothing"

updateFlannel(r) == IF r = "old" THEN "update" ELSE "nothing"

MutantUpdateUI(r) == IF r = "untagged" THEN "update" ELSE "nothing"

updateUI(r) == IF r \in {"old", "untagged"} THEN "update" ELSE "nothing"

plan(a, r) ==
    CASE a = "kubeProxy" -> updateKubeProxy(r)
      [] a = "coreDNS" -> updateCoreDNS(r)
      [] a = "flannel" -> updateFlannel(r)
      [] a = "ui" -> updateUI(r)

\* InstallApplications does nothing if the release is there after all;
\* UpdateApplications does not ask.
helmDoes(todo, r) == todo = "update" \/ (todo = "install" /\ r = "none")

\* Errors of kube-proxy end the command.  An error of one of the others only
\* skips the ones after it.
after(a) ==
    CASE a = "kubeProxy" -> "coreDNS" [] a = "coreDNS" -> "flannel"
      [] a = "flannel" -> "ui" [] a = "ui" -> "vip"

onError(p, a) ==
    IF a = "kubeProxy" THEN end(p, "failed")
    ELSE phase' = [phase EXCEPT ![p] = "vip"] /\ UNCHANGED <<nodes, seen, tags, good, bad, result>>

\* Helm is at work on the application.
applyOf(a) ==
    CASE a = "kubeProxy" -> "applyKubeProxy" [] a = "coreDNS" -> "applyCoreDNS"
      [] a = "flannel" -> "applyFlannel" [] a = "ui" -> "applyUI"

applying(a) == \E p \in Procs : phase[p] = applyOf(a)

\* helm records a pending release with the new tag,
UpdateApp(p, a) ==
    /\ phase[p] = a
    /\ \E r \in getReleases(a), s \in getReleases(a) :
        /\ IF helmDoes(plan(a, r), s)
           THEN /\ release' = [release EXCEPT ![a] = "pending"]
                /\ phase' = [phase EXCEPT ![p] = applyOf(a)]
           ELSE /\ phase' = [phase EXCEPT ![p] = after(a)]
                /\ UNCHANGED release
        /\ clean' = [clean EXCEPT ![p] = @ /\ r = release[a] /\ s = release[a]]
    /\ UNCHANGED <<scriptVars, workload, nodes, seen, tags, good, bad, result, commands, errors, world>>

\* applies it and records that it did.
ApplyApp(p, a) ==
    /\ phase[p] = applyOf(a)
    /\ release' = [release EXCEPT ![a] = "current"]
    /\ workload' = [workload EXCEPT ![a] = "current"]
    /\ phase' = [phase EXCEPT ![p] = after(a)]
    /\ UNCHANGED <<scriptVars, nodes, seen, tags, good, bad, clean, result, commands, errors, world>>

\* It fails before that, or refuses since a release is pending, which the caller
\* read before that or was not told of.
UpdateAppRefused(p, a) ==
    /\ phase[p] = a
    /\ \E r \in getReleases(a), s \in getReleases(a) :
        \/ helmDoes(plan(a, r), s) /\ ("helm" \in world.faults \/ release[a] = "pending")
        \/ applying(a)
    /\ onError(p, a)
    /\ clean' = [clean EXCEPT ![p] = FALSE]
    /\ UNCHANGED <<scriptVars, clusterVars, commands, errors, world>>

\* helm is killed or fails half way: the release stays, the workload may be
\* changed.
halfApplied(p) ==
    \/ UNCHANGED workload
    \/ \E a \in Apps : phase[p] = applyOf(a) /\ workload' = [workload EXCEPT ![a] = "current"]

ApplyAppFails(p, a) ==
    /\ phase[p] = applyOf(a)
    /\ \/ "helm" \in world.faults /\ UNCHANGED errors
       \/ "api" \in world.faults /\ errors < MaxErrors /\ errors' = errors + 1
    /\ halfApplied(p)
    /\ onError(p, a)
    /\ clean' = [clean EXCEPT ![p] = FALSE]
    /\ UNCHANGED <<scriptVars, release, commands, world>>

-----------------------------------------------------------------------------
(* The virtual IP                                                           *)

\* The endpoint is not the address of a node, and the provider may have one.
isVipableProvider == world.vip \notin {"onNode", "capi"}

\* Nothing is done if the monitor is there or there can be no virtual IP.
VirtualIp(p) ==
    /\ phase[p] = "vip"
    /\ \E r \in getReleases(Monitor) :
        /\ IF r # "none" \/ ~isVipableProvider
           THEN end(p, "ok")
           ELSE /\ moveTo(p, "vip", "check")
                /\ nodes' = [nodes EXCEPT ![p] = world.cps]
                /\ UNCHANGED <<seen, tags, good, bad, result>>
        /\ clean' = [clean EXCEPT ![p] = @ /\ r = release[Monitor]]
    /\ UNCHANGED <<scriptVars, clusterVars, commands, errors, world>>

vipScript(p) == IF phase[p] = "check" THEN "check-ips" ELSE "upgrade-vips"

OnControlPlaneNode(p) ==
    /\ phase[p] \in {"check", "upgrade"}
    /\ nodes[p] # {}
    /\ Call(p, [action |-> vipScript(p), node |-> first(nodes[p]), script |-> {}, env |-> ""])
    /\ UNCHANGED <<updateVars, clusterVars, commands, errors, world>>

\* The first node without the endpoint in its keepalived.conf ends it.
Checked(p) ==
    /\ phase[p] = "check"
    /\ Return(p)
    /\ clean' = [clean EXCEPT ![p] = @ /\ ~met[p]]
    /\ IF ~ok[p] THEN end(p, "failed")
       ELSE IF world.vip = "none" THEN end(p, "ok")
       ELSE /\ nodes' = [nodes EXCEPT ![p] = @ \ {call[p].node}]
            /\ UNCHANGED <<phase, seen, tags, good, bad, result>>
    /\ UNCHANGED <<clusterVars, commands, errors, world>>

CheckDone(p) ==
    /\ moveTo(p, "check", "upgrade")
    /\ nodes[p] = {} /\ at[p] = "idle"
    /\ nodes' = [nodes EXCEPT ![p] = world.cps]
    /\ UNCHANGED <<scriptVars, clusterVars, seen, tags, good, bad, clean, result, commands, errors, world>>

Upgraded(p) ==
    /\ phase[p] = "upgrade"
    /\ Return(p)
    /\ clean' = [clean EXCEPT ![p] = @ /\ ~met[p]]
    /\ IF ~ok[p] THEN end(p, "failed")
       ELSE /\ nodes' = [nodes EXCEPT ![p] = @ \ {call[p].node}]
            /\ UNCHANGED <<phase, seen, tags, good, bad, result>>
    /\ UNCHANGED <<clusterVars, commands, errors, world>>

UpgradeDone(p) ==
    /\ moveTo(p, "upgrade", "monitor")
    /\ nodes[p] = {} /\ at[p] = "idle"
    /\ UNCHANGED <<scriptVars, clusterVars, nodes, seen, tags, good, bad, clean, result, commands, errors, world>>

\* The error of the installation is dropped.
InstallMonitor(p) ==
    /\ phase[p] = "monitor"
    /\ \E done \in {TRUE} \cup IF "helm" \in world.faults THEN {FALSE} ELSE {} :
        /\ release' = IF done THEN [release EXCEPT ![Monitor] = "current"] ELSE release
        /\ clean' = [clean EXCEPT ![p] = @ /\ done]
    /\ end(p, "ok")
    /\ UNCHANGED <<scriptVars, workload, commands, errors, world>>

-----------------------------------------------------------------------------

\* One step of RunScript.
InScript(p) == ScriptStep(p) /\ UNCHANGED <<updateVars, clusterVars, commands, errors, world>>

apiError ==
    /\ "api" \in world.faults
    /\ errors < MaxErrors
    /\ errors' = errors + 1

ScriptGoesWrong(p) ==
    /\ apiError
    /\ ScriptFails(p) \/ Exec(p, FALSE)
    /\ clean' = [clean EXCEPT ![p] = FALSE]
    /\ UNCHANGED <<phase, nodes, seen, tags, good, bad, result, clusterVars, commands, world>>

\* A call of the API fails between two scripts.
Fails(p) ==
    /\ apiError
    /\ phase[p] # "idle" /\ at[p] = "idle"
    /\ \/ phase[p] \in {"coreDNS", "flannel", "ui"} /\ onError(p, phase[p])
       \/ phase[p] \in {"tags", "kubeProxy", "vip", "check", "upgrade"} /\ end(p, "failed")
    /\ clean' = [clean EXCEPT ![p] = FALSE]
    /\ UNCHANGED <<scriptVars, clusterVars, commands, world>>

Kill(p) ==
    /\ "kill" \in world.faults
    /\ phase[p] # "idle"
    /\ ScriptKill(p)
    /\ halfApplied(p)
    /\ end(p, "killed")
    /\ clean' = [clean EXCEPT ![p] = FALSE]
    /\ UNCHANGED <<release, commands, errors, world>>

Kubelet == (\E n \in Names : Mount(n)) /\ UNCHANGED <<updateVars, clusterVars, commands, errors, world>>

Command(p) ==
    \/ GetTags(p) \/ TagOnNode(p) \/ TaggedOnNode(p) \/ TagDone(p)
    \/ \E a \in Apps : \/ UpdateApp(p, a) \/ ApplyApp(p, a)
                       \/ UpdateAppRefused(p, a) \/ ApplyAppFails(p, a)
    \/ VirtualIp(p) \/ OnControlPlaneNode(p) \/ Checked(p) \/ CheckDone(p)
    \/ Upgraded(p) \/ UpgradeDone(p) \/ InstallMonitor(p)
    \/ InScript(p)

Next ==
    \/ \E p \in Procs :
        \/ Begin(p) \/ Command(p)
        \/ ScriptGoesWrong(p) \/ Fails(p) \/ Kill(p)
    \/ Kubelet

\* Commands go on and kubelets start pods.
Fairness == WF_vars(Kubelet) /\ \A p \in Procs : WF_vars(Command(p))

Spec == Init /\ [][Next]_vars /\ Fairness
-----------------------------------------------------------------------------
(* Properties                                                               *)

\* State of the cluster, of Update and of RunScript.
UpdateInv ==
    /\ ScriptInv
    /\ workload \in [Apps -> {"absent", "foreign", "old", "current"}]
    /\ release \in [Apps \cup {Monitor} -> {"none", "untagged", "old", "pending", "current"}]
    /\ phase \in [Procs -> Phases]
    /\ \A p \in Procs : nodes[p] \subseteq Nodes /\ (phase[p] = "idle" => at[p] = "idle" /\ nodes[p] = {})
    /\ \A p \in Procs : at[p] # "idle" => phase[p] \in {"tag", "check", "upgrade"} /\ call[p].node \in nodes[p]

\* RunScript: without errors of the API a script only fails if another
\* caller uses its names, even if pods and config maps of a command that was
\* killed are still there.
ScriptsSucceed ==
    \A p \in Procs : (at[p] = "done" /\ ~met[p] /\ "api" \notin world.faults) => ok[p]

\* RunScript: no pod and no config map outlives the calls, however they
\* overlapped, unless a call of the API failed or a process died.
LeavesNothing ==
    ({"api", "kill"} \cap world.faults = {} /\ \A p \in Procs : at[p] \notin Inside) =>
        \A n \in Names : pods[n] = None /\ cms[n] = None

present(a) == \A n \in Nodes : a \in world.images[n]

\* oneThirtyAndLower: an application of ours only runs the current tag once
\* the nodes have it: all of them if nothing failed, and at least one of them
\* in any case.  Its image is on the nodes and was of our registry.
CurrentBeforeUse ==
    \A a \in Apps : (workload[a] = "current" /\ present(a) /\ world.workload[a] = "old") =>
        /\ \E n \in Nodes : a \in current(n)
        /\ (world.serial /\ "api" \notin world.faults) => \A n \in Nodes : a \in current(n)

\* "If the tag is already 'current', assume this is already correctly configured
\* and return": an upgrade that helm has recorded and not finished, because it
\* failed or was killed or another command is at it, is never taken up again.
interrupted(a) ==
    /\ release[a] = "pending"
    /\ applying(a) \/ {"helm", "api", "kill"} \cap world.faults # {}

\* No release that sets a tag, no workload to move.
notOurs(a) ==
    \/ a \in {"flannel", "ui"} /\ release[a] = "none"
    \/ a # "ui" /\ release[a] = "untagged"
    \/ a \in {"kubeProxy", "coreDNS"} /\ workload[a] = "absent"

\* Update: whatever failed or was killed before and beside it, a command that
\* meets no error leaves every application running the current tag, except
\* those whose upgrade was interrupted, and a virtual IP with the monitor.
CleanUpdateSettles ==
    \A p \in Procs : (result[p] = "ok" /\ clean[p]) =>
        /\ world.old # {} =>
               \A a \in Apps : workload[a] = "current" \/ interrupted(a) \/ notOurs(a)
        /\ world.vip = "vip" => release[Monitor] = "current"

\* virtualIp: the monitor is only there when every control plane node obeys it.
MonitorLast == release[Monitor] # "none" => \A n \in world.cps : handedOver(n)

\* Update returns, if its process is not killed.
CommandsEnd == \A p \in Procs : phase[p] # "idle" ~> phase[p] = "idle"

\* RunScript as Update calls it: it runs what its caller meant, succeeds when
\* the API answers, and cleans up behind it.
ScriptsTidy == RunsOwnScript /\ ScriptsSucceed /\ LeavesNothing

\* Update: images come before the workloads that use them, and the virtual IP
\* is handed over on every node before the monitor takes it.
ChangesInOrder == UpdateInv /\ CurrentBeforeUse /\ MonitorLast
=============================================================================
