------------------------------ MODULE NodeJoin ------------------------------
(***************************************************************************)
(* joinNodeToCluster moves a node from one cluster, the source, to         *)
(* another: it makes a join token there, for a control plane node it also  *)
(* uploads the certificates under a fresh key and copies the configuration *)
(* of the virtual IP, runs a script on the node that makes it reset itself *)
(* and join, and deletes the node from the source.                         *)
(*                                                                         *)
(* Files are copied through admin pods, named by a prefix and the node.    *)
(***************************************************************************)
EXTENDS RunScript

CONSTANTS
    Dest,           \* the first control plane node of the destination
    Worlds,         \* the circumstances that are considered, see world
    MaxCommands,    \* bound on the number of commands
    MaxErrors       \* bound on the number of errors of the API

joinConfigs == [token : 0..MaxCommands, key : 0..MaxCommands, cp : BOOLEAN, ha : BOOLEAN]

ASSUME NodeJoinAssumption ==
    /\ Actions = {"join-node"} /\ Scripts = {"updateNodeScript"} /\ Envs = joinConfigs
    /\ Dest \notin Nodes
    /\ None \notin joinConfigs \cup {"source", "dest"}
    /\ MaxCommands \in Nat /\ MaxErrors \in Nat
    /\ Worlds \subseteq
           [vip : BOOLEAN,          \* the destination has a virtual IP
            given : BOOLEAN,        \* the user names it
            faults : SUBSET {"api", "kill"},
            serial : BOOLEAN,       \* one command at a time
            patient : BOOLEAN]      \* the next one when the node has arrived

VARIABLES
    home,           \* [node]: the cluster its kubelet belongs to, or None
    conf,           \* [node]: the kubeadm.conf of the migration
    handled,        \* [node]: the scripts whose effect has begun
    listed,         \* the nodes that the source lists
    tokens, certs,  \* of the destination: join tokens, key of the uploaded certificates
    adminPods,      \* pairs of prefix and node
    phase, adm,     \* [p]: the step of the command, the step with an admin pod
    job,            \* [p]: node, role, token, key and services
    clean, result,  \* observers [p]: no error and nobody in the way; how it ended
    commands, errors, world

clusterVars == <<home, conf, handled, listed, tokens, certs>>
joinVars == <<phase, adm, job, clean, result>>
vars == <<scriptVars, clusterVars, adminPods, joinVars, commands, errors, world>>

Phases == {"idle", "token", "exec", "dest", "conf", "files", "script", "remove"}
Jobs == [node : Nodes \cup {None}, cp : BOOLEAN, token : 0..MaxCommands, key : 0..MaxCommands, ha : BOOLEAN]
NoJob == [node |-> None, cp |-> FALSE, token |-> 0, key |-> 0, ha |-> FALSE]

Init ==
    /\ ScriptInit
    /\ world \in Worlds
    /\ home = [n \in Nodes |-> "source"]
    /\ conf = [n \in Nodes |-> None]
    /\ handled = [n \in Nodes |-> {}]
    /\ listed = Nodes
    /\ tokens = {} /\ certs = 0
    /\ adminPods = {}
    /\ phase = [p \in Procs |-> "idle"]
    /\ adm = [p \in Procs |-> "delete"]
    /\ job = [p \in Procs |-> NoJob]
    /\ clean = [p \in Procs |-> TRUE]
    /\ result = [p \in Procs |-> "new"]
    /\ commands = 0
    /\ errors = 0

moveTo(p, from, to) ==
    /\ phase[p] = from
    /\ phase' = [phase EXCEPT ![p] = to]
    /\ adm' = [adm EXCEPT ![p] = IF to = "exec" THEN "create" ELSE "delete"]
    /\ UNCHANGED result

end(p, r) ==
    /\ phase' = [phase EXCEPT ![p] = "idle"]
    /\ adm' = [adm EXCEPT ![p] = "delete"]
    /\ job' = [job EXCEPT ![p] = NoJob]
    /\ result' = [result EXCEPT ![p] = r]

\* The node is still on its way.
moving(n) == home[n] = None \/ \E e \in applied[n] : e \notin handled[n]

Begin(p, n, cp) ==
    /\ phase[p] = "idle" /\ commands < MaxCommands
    /\ world.serial => \A q \in Procs \ {p} : result[q] = "new"
    /\ world.patient => \A m \in Nodes : ~moving(m)
    /\ commands' = commands + 1
    /\ phase' = [phase EXCEPT ![p] = "token"]
    /\ job' = [job EXCEPT ![p] = [NoJob EXCEPT !.node = n, !.cp = cp]]
    /\ clean' = [clean EXCEPT ![p] = TRUE]
    /\ result' = [result EXCEPT ![p] = "runs"]
    /\ UNCHANGED <<scriptVars, clusterVars, adminPods, adm, errors, world>>

\* The node has to be one of the source.  CreateJoin puts a token into the
\* destination.
CreateJoin(p) ==
    /\ phase[p] = "token"
    /\ IF job[p].node \in listed
       THEN /\ moveTo(p, "token", IF job[p].cp THEN "exec" ELSE "script")
            /\ tokens' = tokens \cup {commands}
            /\ job' = [job EXCEPT ![p].token = commands]
       ELSE end(p, "refused") /\ UNCHANGED tokens
    /\ UNCHANGED <<scriptVars, home, conf, handled, listed, certs, adminPods, clean, commands, errors, world>>

-----------------------------------------------------------------------------
(* Admin pods                                                               *)

prefix(p) == IF phase[p] = "exec" THEN "exec" ELSE "copy-files"
where(p) == IF phase[p] \in {"exec", "dest"} THEN Dest ELSE job[p].node
pod(p) == <<prefix(p), where(p)>>
InAdmin(p) == phase[p] \in {"exec", "dest", "conf", "files"}

\* startAdminPod: an old pod is deleted.  UploadCertificates does not do so.
DeleteAdminPod(p) ==
    /\ InAdmin(p) /\ adm[p] = "delete"
    /\ adminPods' = adminPods \ {pod(p)}
    /\ adm' = [adm EXCEPT ![p] = "create"]
    /\ UNCHANGED <<scriptVars, clusterVars, phase, job, clean, result, commands, errors, world>>

\* StartAdminPodOnNode creates the pod and waits for it.
StartAdminPodOnNode(p) ==
    /\ InAdmin(p) /\ adm[p] = "create"
    /\ pod(p) \notin adminPods
    /\ where(p) \in Nodes => home[where(p)] = "source"
    /\ adminPods' = adminPods \cup {pod(p)}
    /\ adm' = [adm EXCEPT ![p] = "use"]
    /\ UNCHANGED <<scriptVars, clusterVars, phase, job, clean, result, commands, errors, world>>

\* It is there already, or its node does not answer; then it stays.
AdminPodFails(p) ==
    /\ InAdmin(p) /\ adm[p] = "create"
    /\ \/ pod(p) \in adminPods /\ UNCHANGED adminPods
       \/ /\ where(p) \in Nodes /\ home[where(p)] # "source"
          /\ adminPods' = adminPods \cup {pod(p)}
    /\ clean' = [clean EXCEPT ![p] = @ /\ (where(p) \in Nodes => home[where(p)] = "source")]
    /\ end(p, "failed")
    /\ UNCHANGED <<scriptVars, clusterVars, commands, errors, world>>

\* With the pod: kubeadm uploads the certificates under a new key; the
\* keepalived.conf of the destination and the bootstrap.conf of the node are
\* read; the files of the virtual IP are written.  The pod is deleted.
useful(p) == InAdmin(p) /\ adm[p] = "use" /\ pod(p) \in adminPods

afterUpload == IF world.given THEN "conf" ELSE "dest"

\* The key goes into the configuration of the node.
withKey(p) == [job EXCEPT ![p].key = commands]

MutantUploadCertificates(p) ==
    /\ useful(p)
    /\ moveTo(p, "exec", afterUpload)
    /\ certs' = commands
    /\ job' = withKey(p)
    /\ UNCHANGED <<scriptVars, adminPods, home, conf, handled, listed, tokens, clean, commands, errors, world>>

UploadCertificates(p) ==
    /\ useful(p)
    /\ moveTo(p, "exec", afterUpload)
    /\ certs' = commands
    /\ job' = withKey(p)
    /\ adminPods' = adminPods \ {pod(p)}
    /\ UNCHANGED <<scriptVars, home, conf, handled, listed, tokens, clean, commands, errors, world>>

GetFilesFromDestCluster(p) ==
    /\ useful(p)
    /\ moveTo(p, "dest", IF world.vip THEN "conf" ELSE "script")
    /\ adminPods' = adminPods \ {pod(p)}
    /\ UNCHANGED <<scriptVars, clusterVars, job, clean, commands, errors, world>>

GetFilesFromMigratingNode(p) ==
    /\ useful(p)
    /\ moveTo(p, "conf", "files")
    /\ adminPods' = adminPods \ {pod(p)}
    /\ UNCHANGED <<scriptVars, clusterVars, job, clean, commands, errors, world>>

CopyHAFilesToNode(p) ==
    /\ useful(p)
    /\ moveTo(p, "files", "script")
    /\ job' = [job EXCEPT ![p].ha = TRUE]
    /\ adminPods' = adminPods \ {pod(p)}
    /\ UNCHANGED <<scriptVars, clusterVars, clean, commands, errors, world>>

\* Another command has deleted the pod.
AdminPodGone(p) ==
    /\ InAdmin(p) /\ adm[p] = "use" /\ pod(p) \notin adminPods
    /\ end(p, "failed")
    /\ clean' = [clean EXCEPT ![p] = FALSE]
    /\ UNCHANGED <<scriptVars, clusterVars, adminPods, commands, errors, world>>

-----------------------------------------------------------------------------
(* The script and the node                                                  *)

\* GenerateKubeadmJoin; ENABLE_SERVICES.
MutantJoinConfig(p) == [token |-> job[p].token, key |-> 0, cp |-> job[p].cp, ha |-> job[p].ha]

joinConfig(p) == [token |-> job[p].token, key |-> job[p].key, cp |-> job[p].cp, ha |-> job[p].ha]

UpdateNode(p) ==
    /\ phase[p] = "script"
    /\ Call(p, [action |-> "join-node", node |-> job[p].node, script |-> "updateNodeScript", env |-> joinConfig(p)])
    /\ UNCHANGED <<clusterVars, adminPods, joinVars, commands, errors, world>>

MutantUpdated(p) ==
    /\ phase[p] = "script"
    /\ Return(p)
    /\ clean' = [clean EXCEPT ![p] = @ /\ ~met[p]]
    /\ moveTo(p, "script", "remove") /\ UNCHANGED job
    /\ UNCHANGED <<clusterVars, adminPods, commands, errors, world>>

\* A failure ends the command.
Updated(p) ==
    /\ phase[p] = "script"
    /\ Return(p)
    /\ clean' = [clean EXCEPT ![p] = @ /\ ~met[p]]
    /\ IF ok[p] THEN moveTo(p, "script", "remove") /\ UNCHANGED job
       ELSE end(p, "failed")
    /\ UNCHANGED <<clusterVars, adminPods, commands, errors, world>>

\* The error of the deletion is dropped.
RemoveFromSource(p) ==
    /\ phase[p] = "remove"
    /\ \/ listed' = listed \ {job[p].node}
       \/ UNCHANGED listed
    /\ end(p, "done")
    /\ UNCHANGED <<scriptVars, home, conf, handled, tokens, certs, adminPods, clean, commands, errors, world>>

\* ocne.sh on the node: kubeadm reset, ...
Reset(n) ==
    /\ \E e \in applied[n] \ handled[n] :
        /\ conf' = [conf EXCEPT ![n] = e.env]
        /\ handled' = [handled EXCEPT ![n] = @ \cup {e}]
    /\ home' = [home EXCEPT ![n] = None]
    /\ UNCHANGED <<scriptVars, listed, tokens, certs, adminPods, joinVars, commands, errors, world>>

\* ... and kubeadm join, which for a control plane node needs the
\* certificates under the key it was given.
accepts(c) == c.token \in tokens /\ (c.cp => certs = c.key)

KubeadmJoin(n) ==
    /\ home[n] = None
    /\ accepts(conf[n])
    /\ home' = [home EXCEPT ![n] = "dest"]
    /\ UNCHANGED <<scriptVars, conf, handled, listed, tokens, certs, adminPods, joinVars, commands, errors, world>>

-----------------------------------------------------------------------------

InScript(p) ==
    /\ ScriptStep(p)
    /\ UNCHANGED <<clusterVars, adminPods, joinVars, commands, errors, world>>

apiError ==
    /\ "api" \in world.faults
    /\ errors < MaxErrors
    /\ errors' = errors + 1

ScriptGoesWrong(p) ==
    /\ apiError
    /\ ScriptFails(p) \/ Exec(p, FALSE)
    /\ clean' = [clean EXCEPT ![p] = FALSE]
    /\ UNCHANGED <<clusterVars, adminPods, phase, adm, job, result, commands, world>>

\* The pod on a node that has left never starts, and the wait for it ends.
PodNeverReady(p) ==
    /\ at[p] = "ready" /\ home[call[p].node] # "source"
    /\ ScriptFails(p)
    /\ clean' = [clean EXCEPT ![p] = FALSE]
    /\ UNCHANGED <<clusterVars, adminPods, phase, adm, job, result, commands, errors, world>>

\* An error return outside of RunScript.  The pod is deleted if it was ready
\* and stays if the wait for it failed.
Fails(p) ==
    /\ apiError
    /\ phase[p] \notin {"idle", "remove"} /\ at[p] = "idle"
    /\ IF InAdmin(p) /\ adm[p] = "use"
       THEN adminPods' = adminPods \ {pod(p)}
       ELSE IF InAdmin(p) /\ adm[p] = "create"
       THEN adminPods' \in {adminPods, adminPods \cup {pod(p)}}
       ELSE UNCHANGED adminPods
    /\ end(p, "failed")
    /\ clean' = [clean EXCEPT ![p] = FALSE]
    /\ UNCHANGED <<scriptVars, clusterVars, commands, world>>

Kill(p) ==
    /\ "kill" \in world.faults
    /\ phase[p] # "idle"
    /\ ScriptKill(p)
    /\ end(p, "killed")
    /\ clean' = [clean EXCEPT ![p] = FALSE]
    /\ UNCHANGED <<clusterVars, adminPods, commands, errors, world>>

\* A kubelet only starts pods of the cluster it belongs to.
Kubelet ==
    /\ \E n \in Names : home[n[2]] = "source" /\ Mount(n)
    /\ UNCHANGED <<clusterVars, adminPods, joinVars, commands, errors, world>>

Machine == \E n \in Nodes : Reset(n) \/ KubeadmJoin(n)

Command(p) ==
    \/ CreateJoin(p)
    \/ DeleteAdminPod(p) \/ StartAdminPodOnNode(p) \/ AdminPodFails(p) \/ AdminPodGone(p)
    \/ UploadCertificates(p) \/ GetFilesFromDestCluster(p)
    \/ GetFilesFromMigratingNode(p) \/ CopyHAFilesToNode(p)
    \/ UpdateNode(p) \/ Updated(p) \/ RemoveFromSource(p)
    \/ InScript(p) \/ PodNeverReady(p)

Next ==
    \/ \E p \in Procs, n \in Nodes, cp \in BOOLEAN : Begin(p, n, cp)
    \/ \E p \in Procs : Command(p) \/ ScriptGoesWrong(p) \/ Fails(p) \/ Kill(p)
    \/ Kubelet
    \/ Machine

\* Commands go on, kubelets start pods, nodes run their service.
Fairness ==
    /\ WF_vars(Kubelet)
    /\ \A n \in Nodes : WF_vars(Reset(n)) /\ WF_vars(KubeadmJoin(n))
    /\ \A p \in Procs : WF_vars(Command(p))

Spec == Init /\ [][Next]_vars /\ Fairness
-----------------------------------------------------------------------------
(* Properties                                                               *)

\* A command whose script succeeded has told its node.
jobInv(p) ==
    /\ phase[p] # "idle" => job[p].node \in Nodes
    /\ at[p] # "idle" => phase[p] = "script" /\ call[p].node = job[p].node
    /\ phase[p] = "remove" => applied[job[p].node] # {}

\* joinNodeToCluster: state of the clusters and the commands; a command runs
\* a script only for its own node, and a node that has left the source has a
\* configuration.
JoinInv ==
    /\ ScriptInv
    /\ home \in [Nodes -> {"source", "dest", None}]
    /\ conf \in [Nodes -> joinConfigs \cup {None}]
    /\ \A n \in Nodes : home[n] # "source" <=> conf[n] # None
    /\ commands \in 0..MaxCommands
    /\ listed \subseteq Nodes
    /\ certs \in 0..MaxCommands /\ tokens \subseteq 0..MaxCommands
    /\ adminPods \subseteq {"exec", "copy-files"} \X (Nodes \cup {Dest})
    /\ phase \in [Procs -> Phases]
    /\ job \in [Procs -> Jobs]
    /\ \A p \in Procs : jobInv(p)

\* joinNodeToCluster: a node only disappears from the source after the
\* script that makes it join the other cluster ran on it, whatever failed.
RemovedWasTold == \A n \in Nodes \ listed : applied[n] # {}

\* joinNodeToCluster: without errors the migration of a node that is in the
\* source succeeds, whatever admin pods, config maps and script pods a killed
\* command has left, except that an "exec" pod that is left refuses every
\* control plane node after it.
JoinSucceeds ==
    \A p \in Procs :
        (result[p] = "failed" /\ clean[p] /\ world.serial) => <<"exec", Dest>> \in adminPods

\* startAdminPod, UploadCertificates: no admin pod outlives the commands when nothing fails and nothing is
\* killed, and none is started on a node that has left.
AdminPodsRemoved ==
    (world.faults = {} /\ world.patient /\ \A p \in Procs : phase[p] = "idle") =>
        \A x \in adminPods : x[2] \in Nodes /\ home[x[2]] # "source"

\* ocne.sh and joinNodeToCluster: a node that has left its cluster arrives in the other one, if nobody
\* begins another migration before it has; whatever failed or was killed.
NodesArrive ==
    \A n \in Nodes : (home[n] = None /\ world.patient /\ world.serial) ~> home[n] = "dest"

\* joinNodeToCluster returns, if it is not killed.
CommandsEnd == \A p \in Procs : phase[p] # "idle" ~> phase[p] = "idle"

\* What makes these two inductive.  A command that runs alone finds every name
\* free that it has freed, so only the "exec" pod, which it does not free, can
\* stop it ...
aloneInv(p) ==
    /\ ~met[p]
    /\ clean[p] =>
           /\ at[p] = "createCm" => cms[name(p)] = None
           /\ at[p] \in {"ready", "exec"} => pods[name(p)] # None
           /\ at[p] \in {"dropPod", "dropCm", "done"} => ok[p]
    /\ phase[p] \in {"dest", "conf", "files"} /\ adm[p] = "create" => pod(p) \notin adminPods
    /\ result[p] = "failed" /\ clean[p] => <<"exec", Dest>> \in adminPods

onlyOne == \A p, q \in Procs : result[p] # "new" /\ result[q] # "new" => p = q

\* ... and an admin pod has a command that will delete it, or is on a node
\* that has left; however many commands run.
podsUsed ==
    \A x \in adminPods :
        \/ \E p \in Procs : InAdmin(p) /\ adm[p] = "use" /\ pod(p) = x
        \/ x[2] \in Nodes /\ home[x[2]] # "source"

CleanInv ==
    /\ adm \in [Procs -> {"delete", "create", "use"}] /\ clean \in [Procs -> BOOLEAN]
    /\ result \in [Procs -> {"new", "runs", "refused", "failed", "done", "killed"}]
    /\ \A p \in Procs : phase[p] # "idle" <=> result[p] = "runs"
    /\ world.serial => onlyOne /\ \A p \in Procs : aloneInv(p)
    /\ world.faults = {} => podsUsed

\* joinNodeToCluster without faults: it succeeds and leaves no admin pod.
JoinsCleanly == JoinSucceeds /\ AdminPodsRemoved

\* joinNodeToCluster, whatever fails: it returns, and no node is lost between
\* the two clusters.
Arrives == NodesArrive /\ CommandsEnd
=============================================================================
