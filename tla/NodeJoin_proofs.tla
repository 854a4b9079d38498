-------------------------- MODULE NodeJoin_proofs --------------------------
(***************************************************************************)
(* RunScript executes the caller's own script for whoever is alone with a  *)
(* name, and a node leaves the source only after it was told to join: for  *)
(* any number of processes and nodes, through errors and kills.  Without   *)
(* faults migrations succeed and leave no admin pod.                       *)
(***************************************************************************)
EXTENDS NodeJoin, RunScript_proofs, TLAPS

-----------------------------------------------------------------------------
(* joinNodeToCluster                                                        *)

clustersInv ==
    /\ home \in [Nodes -> {"source", "dest", None}]
    /\ conf \in [Nodes -> joinConfigs \cup {None}]
    /\ \A n \in Nodes : home[n] # "source" <=> conf[n] # None
    /\ listed \subseteq Nodes
    /\ certs \in 0..MaxCommands /\ tokens \subseteq 0..MaxCommands

procsInv ==
    /\ phase \in [Procs -> Phases]
    /\ job \in [Procs -> Jobs]
    /\ \A p \in Procs : jobInv(p)

podsInv == adminPods \subseteq {"exec", "copy-files"} \X (Nodes \cup {Dest})

Inductive ==
    Told /\ clustersInv /\ procsInv /\ podsInv /\ commands \in 0..MaxCommands /\ RemovedWasTold

LEMMA InductiveIs == Inductive <=> JoinInv /\ RunsOwnScript /\ RemovedWasTold
BY DEF Inductive, JoinInv, Told, clustersInv, procsInv, podsInv

\* One command goes on, the others stay where they are.
LEMMA ProcStep ==
    ASSUME Inductive, NEW p \in Procs, NEW f \in Phases, NEW j \in Jobs,
           phase' = [phase EXCEPT ![p] = f], job' = [job EXCEPT ![p] = j],
           f # "idle" => j.node \in Nodes,
           f = "remove" => applied'[j.node] # {},
           at'[p] # "idle" => f = "script" /\ call'[p].node = j.node,
           \A q \in Procs : q # p => at'[q] = at[q] /\ call'[q] = call[q],
           \A n \in Nodes : applied[n] \subseteq applied'[n]
    PROVE  procsInv'
<1>1. phase' \in [Procs -> Phases] /\ job' \in [Procs -> Jobs] /\ phase'[p] = f /\ job'[p] = j
  BY DEF Inductive, procsInv
<1>2. \A q \in Procs : q # p => phase'[q] = phase[q] /\ job'[q] = job[q]
  BY DEF Inductive, procsInv
<1>3. jobInv(p)'
  BY <1>1 DEF jobInv
<1>4. ASSUME NEW q \in Procs, q # p PROVE jobInv(q)'
  <2>1. jobInv(q)
    BY DEF Inductive, procsInv
  <2>2. phase[q] = "remove" => applied'[job[q].node] # {}
    BY <2>1 DEF jobInv
  <2> QED
    BY <2>1, <2>2, <1>2, <1>4 DEF jobInv
<1> QED
  BY <1>1, <1>3, <1>4 DEF procsInv

\* The command of p ends.
LEMMA EndKeeps ==
    ASSUME Inductive, NEW p \in Procs, NEW r, end(p, r),
           at'[p] = "idle",
           \A q \in Procs : q # p => at'[q] = at[q] /\ call'[q] = call[q],
           UNCHANGED applied
    PROVE  procsInv'
<1>1. NoJob \in Jobs /\ "idle" \in Phases
  BY NodeJoinAssumption DEF NoJob, Jobs, Phases
<1>2. phase' = [phase EXCEPT ![p] = "idle"] /\ job' = [job EXCEPT ![p] = NoJob]
  BY DEF end
<1> QED
  BY <1>1, <1>2, ProcStep

\* The command of p goes on outside of RunScript.
LEMMA MoveKeeps ==
    ASSUME Inductive, NEW p \in Procs, NEW f \in Phases \ {"idle", "remove"}, NEW j \in Jobs,
           phase' = [phase EXCEPT ![p] = f], job' = [job EXCEPT ![p] = j],
           phase[p] # "idle", j.node = job[p].node, at[p] = "idle", UNCHANGED scriptVars
    PROVE  procsInv'
<1>1. j.node \in Nodes
  BY DEF Inductive, procsInv, jobInv
<1>2. UNCHANGED <<at, call, applied>>
  BY DEF scriptVars
<1> QED
  BY <1>1, <1>2, ProcStep

LEMMA PodType ==
    ASSUME Inductive, NEW p \in Procs, InAdmin(p)
    PROVE  /\ pod(p) \in {"exec", "copy-files"} \X (Nodes \cup {Dest})
           /\ at[p] = "idle" /\ phase[p] # "idle" /\ job[p] \in Jobs /\ job[p].node \in Nodes
BY DEF Inductive, procsInv, jobInv, InAdmin, pod, prefix, where

\* What is left to show when the source lists the same nodes.
LEMMA Frame ==
    ASSUME Inductive, Told', procsInv', podsInv', clustersInv', commands' \in 0..MaxCommands,
           listed' = listed, \A n \in Nodes : applied[n] \subseteq applied'[n]
    PROVE  Inductive'
<1>1. RemovedWasTold'
  BY DEF Inductive, RemovedWasTold
<1> QED
  BY <1>1 DEF Inductive

LEMMA Outside ==
    ASSUME Inductive, UNCHANGED scriptVars
    PROVE  Told' /\ UNCHANGED <<at, call, applied>> /\ \A n \in Nodes : applied[n] \subseteq applied'[n]
<1>1. UNCHANGED <<at, call, applied>>
  BY DEF scriptVars
<1> QED
  BY <1>1, ScriptStutter DEF Inductive

LEMMA SameClusters ==
    ASSUME Inductive, UNCHANGED clusterVars PROVE clustersInv' /\ listed' = listed
BY DEF Inductive, clustersInv, clusterVars

LEMMA SameProcs ==
    ASSUME Inductive, UNCHANGED <<phase, job, at, call>>, \A n \in Nodes : applied[n] \subseteq applied'[n]
    PROVE  procsInv'
<1>1. ASSUME NEW q \in Procs PROVE jobInv(q)'
  <2>1. jobInv(q)
    BY DEF Inductive, procsInv
  <2>2. phase[q] = "remove" => applied'[job[q].node] # {}
    BY <2>1 DEF jobInv
  <2> QED BY <2>1, <2>2 DEF jobInv
<1> QED BY <1>1 DEF Inductive, procsInv

LEMMA JobFor ==
    ASSUME NEW j \in Jobs, NEW n \in Nodes, NEW b \in BOOLEAN
    PROVE  [j EXCEPT !.node = n, !.cp = b] \in Jobs /\ [j EXCEPT !.node = n, !.cp = b].node = n
BY DEF Jobs

LEMMA JobWithServices ==
    ASSUME NEW j \in Jobs
    PROVE  [j EXCEPT !.ha = TRUE] \in Jobs /\ [j EXCEPT !.ha = TRUE].node = j.node
<1>1. ASSUME NEW b \in BOOLEAN
      PROVE  [j EXCEPT !.ha = b] \in Jobs /\ [j EXCEPT !.ha = b].node = j.node
  BY <1>1 DEF Jobs
<1> QED BY <1>1

LEMMA BeginKeeps ==
    ASSUME Inductive, NEW p \in Procs, NEW n \in Nodes, NEW cp \in BOOLEAN, Begin(p, n, cp)
    PROVE  Inductive'
<1> DEFINE j == [NoJob EXCEPT !.node = n, !.cp = cp]
<1>1. phase[p] = "idle" /\ phase' = [phase EXCEPT ![p] = "token"] /\ job' = [job EXCEPT ![p] = j]
  BY DEF Begin
<1>2. j \in Jobs /\ j.node = n
  <2>1. NoJob \in Jobs
    BY NodeJoinAssumption DEF NoJob, Jobs
  <2> QED BY <2>1, JobFor
<1>3. UNCHANGED <<scriptVars, clusterVars, adminPods>> /\ commands' \in 0..MaxCommands
  BY NodeJoinAssumption DEF Begin, Inductive
<1>4. at[p] = "idle" /\ "token" \in Phases
  BY <1>1 DEF Inductive, procsInv, jobInv, Phases
<1> HIDE DEF j
<1>5. procsInv'
  BY <1>1, <1>2, <1>3, <1>4, Outside, ProcStep
<1>6. podsInv'
  BY <1>3 DEF Inductive, podsInv
<1> QED
  BY <1>3, <1>5, <1>6, Outside, SameClusters, Frame

LEMMA CreateJoinKeeps ==
    ASSUME Inductive, NEW p \in Procs, CreateJoin(p) PROVE Inductive'
<1>1. phase[p] = "token" /\ at[p] = "idle" /\ job[p] \in Jobs
  BY DEF CreateJoin, Inductive, procsInv, jobInv
<1>2. UNCHANGED <<scriptVars, home, conf, handled, listed, certs, adminPods, commands>>
  BY DEF CreateJoin
<1>3. podsInv' /\ commands' \in 0..MaxCommands /\ commands \in 0..MaxCommands
  BY <1>2 DEF Inductive, podsInv
<1>4. CASE moveTo(p, "token", IF job[p].cp THEN "exec" ELSE "script")
           /\ tokens' = tokens \cup {commands} /\ job' = [job EXCEPT ![p].token = commands]
  <2> DEFINE f == IF job[p].cp THEN "exec" ELSE "script"
             j == [job[p] EXCEPT !.token = commands]
  <2>1. f \in Phases \ {"idle", "remove"} /\ phase' = [phase EXCEPT ![p] = f]
    BY <1>4 DEF moveTo, Phases
  <2>2. j \in Jobs /\ j.node = job[p].node
    BY <1>1, <1>3 DEF Jobs
  <2>3. job' = [job EXCEPT ![p] = j]
    BY <1>4
  <2> HIDE DEF f, j
  <2>4. procsInv'
    BY <1>1, <1>2, <2>1, <2>2, <2>3, MoveKeeps
  <2>5. clustersInv'
    BY <1>2, <1>3, <1>4 DEF Inductive, clustersInv
  <2> QED
    BY <1>2, <1>3, <2>4, <2>5, Outside, Frame
<1>5. CASE end(p, "refused") /\ UNCHANGED tokens
  <2>1. procsInv'
    BY <1>1, <1>2, <1>5, Outside, EndKeeps
  <2>2. clustersInv'
    BY <1>2, <1>5 DEF Inductive, clustersInv
  <2> QED
    BY <1>2, <1>3, <2>1, <2>2, Outside, Frame
<1> QED
  BY <1>4, <1>5 DEF CreateJoin

LEMMA DeleteAdminPodKeeps ==
    ASSUME Inductive, NEW p \in Procs, DeleteAdminPod(p) PROVE Inductive'
<1>1. UNCHANGED <<scriptVars, clusterVars, phase, job, commands>>
  BY DEF DeleteAdminPod
<1>2. podsInv' /\ commands' \in 0..MaxCommands
  BY <1>1 DEF DeleteAdminPod, Inductive, podsInv
<1> QED
  BY <1>1, <1>2, Outside, SameClusters, SameProcs, Frame

LEMMA StartAdminPodKeeps ==
    ASSUME Inductive, NEW p \in Procs, StartAdminPodOnNode(p) PROVE Inductive'
<1>1. UNCHANGED <<scriptVars, clusterVars, phase, job, commands>> /\ InAdmin(p)
  BY DEF StartAdminPodOnNode
<1>2. podsInv' /\ commands' \in 0..MaxCommands
  BY <1>1, PodType DEF StartAdminPodOnNode, Inductive, podsInv
<1> QED
  BY <1>1, <1>2, Outside, SameClusters, SameProcs, Frame

LEMMA AdminPodFailsKeeps ==
    ASSUME Inductive, NEW p \in Procs, AdminPodFails(p) PROVE Inductive'
<1>1. UNCHANGED <<scriptVars, clusterVars, commands>> /\ InAdmin(p) /\ end(p, "failed")
  BY DEF AdminPodFails
<1>2. podsInv' /\ commands' \in 0..MaxCommands
  BY <1>1, PodType DEF AdminPodFails, Inductive, podsInv
<1>3. procsInv'
  BY <1>1, PodType, Outside, EndKeeps
<1> QED
  BY <1>1, <1>2, <1>3, Outside, SameClusters, Frame

LEMMA AdminPodGoneKeeps ==
    ASSUME Inductive, NEW p \in Procs, AdminPodGone(p) PROVE Inductive'
<1>1. UNCHANGED <<scriptVars, clusterVars, commands, adminPods>> /\ InAdmin(p) /\ end(p, "failed")
  BY DEF AdminPodGone
<1>2. podsInv' /\ commands' \in 0..MaxCommands
  BY <1>1 DEF Inductive, podsInv
<1>3. procsInv'
  BY <1>1, PodType, Outside, EndKeeps
<1> QED
  BY <1>1, <1>2, <1>3, Outside, SameClusters, Frame

LEMMA UploadCertificatesKeeps ==
    ASSUME Inductive, NEW p \in Procs, UploadCertificates(p) PROVE Inductive'
<1> DEFINE j == [job[p] EXCEPT !.key = commands]
<1>1. /\ UNCHANGED <<scriptVars, home, conf, handled, listed, tokens, commands>>
      /\ InAdmin(p) /\ certs' = commands /\ job' = [job EXCEPT ![p] = j]
      /\ phase' = [phase EXCEPT ![p] = afterUpload]
  BY DEF UploadCertificates, useful, moveTo, withKey
<1>2. podsInv' /\ commands' \in 0..MaxCommands /\ commands \in 0..MaxCommands
  BY <1>1 DEF UploadCertificates, Inductive, podsInv
<1>3. j \in Jobs /\ j.node = job[p].node
  BY <1>1, <1>2, PodType DEF Jobs
<1>4. afterUpload \in Phases \ {"idle", "remove"}
  BY DEF afterUpload, Phases
<1> HIDE DEF j
<1>5. procsInv'
  BY <1>1, <1>3, <1>4, PodType, MoveKeeps
<1>6. clustersInv'
  BY <1>1, <1>2 DEF Inductive, clustersInv
<1> QED
  BY <1>1, <1>2, <1>5, <1>6, Outside, Frame

\* Files are read through an admin pod.
LEMMA GetFilesKeeps ==
    ASSUME Inductive, NEW p \in Procs, GetFilesFromDestCluster(p) \/ GetFilesFromMigratingNode(p)
    PROVE  Inductive'
<1>1. UNCHANGED <<scriptVars, clusterVars, job, commands>> /\ InAdmin(p)
  BY DEF GetFilesFromDestCluster, GetFilesFromMigratingNode, useful
<1>2. podsInv' /\ commands' \in 0..MaxCommands
  BY <1>1 DEF GetFilesFromDestCluster, GetFilesFromMigratingNode, Inductive, podsInv
<1>3. PICK f \in Phases \ {"idle", "remove"} : phase' = [phase EXCEPT ![p] = f]
  <2>1. {"conf", "files", "script"} \subseteq Phases \ {"idle", "remove"}
    BY DEF Phases
  <2>2. CASE GetFilesFromDestCluster(p)
    BY <2>1, <2>2 DEF GetFilesFromDestCluster, moveTo
  <2>3. CASE GetFilesFromMigratingNode(p)
    BY <2>1, <2>3 DEF GetFilesFromMigratingNode, moveTo
  <2> QED BY <2>2, <2>3
<1>4. job' = [job EXCEPT ![p] = job[p]]
  BY <1>1 DEF Inductive, procsInv
<1>5. procsInv'
  BY <1>1, <1>3, <1>4, PodType, MoveKeeps
<1> QED
  BY <1>1, <1>2, <1>5, Outside, SameClusters, Frame

LEMMA CopyHAFilesKeeps ==
    ASSUME Inductive, NEW p \in Procs, CopyHAFilesToNode(p) PROVE Inductive'
<1> DEFINE j == [job[p] EXCEPT !.ha = TRUE]
<1>1. /\ UNCHANGED <<scriptVars, clusterVars, commands>> /\ InAdmin(p)
      /\ job' = [job EXCEPT ![p] = j] /\ phase' = [phase EXCEPT ![p] = "script"]
  BY DEF CopyHAFilesToNode, useful, moveTo
<1>2. podsInv' /\ commands' \in 0..MaxCommands
  BY <1>1 DEF CopyHAFilesToNode, Inductive, podsInv
<1>3. j \in Jobs /\ j.node = job[p].node
  BY <1>1, PodType, JobWithServices
<1> HIDE DEF j
<1>4. "script" \in Phases \ {"idle", "remove"}
  BY DEF Phases
<1>5. procsInv'
  BY <1>1, <1>3, <1>4, PodType, MoveKeeps
<1> QED
  BY <1>1, <1>2, <1>5, Outside, SameClusters, Frame

LEMMA UpdateNodeKeeps ==
    ASSUME Inductive, NEW p \in Procs, UpdateNode(p) PROVE Inductive'
<1> DEFINE c == [action |-> "join-node", node |-> job[p].node, script |-> "updateNodeScript", env |-> joinConfig(p)]
<1>1. phase[p] = "script" /\ Call(p, c) /\ UNCHANGED <<clusterVars, adminPods, phase, job, commands>>
  BY DEF UpdateNode, joinVars
<1>2. job[p] \in Jobs /\ job[p].node \in Nodes
  BY <1>1 DEF Inductive, procsInv, jobInv
<1>3. joinConfig(p) \in joinConfigs
  BY <1>2 DEF joinConfig, joinConfigs, Jobs
<1>4. c \in Requests /\ c.node = job[p].node
  BY <1>2, <1>3, NodeJoinAssumption DEF Requests
<1> HIDE DEF c
<1>5. Told'
  BY <1>1, <1>4, CallKeeps DEF Inductive
<1>6. UNCHANGED applied /\ at' = [at EXCEPT ![p] = "cm"] /\ call' = [call EXCEPT ![p] = c]
  BY <1>1 DEF Call, goto
<1>7. call'[p] = c /\ \A q \in Procs : q # p => at'[q] = at[q] /\ call'[q] = call[q]
  BY <1>6 DEF Inductive, Told, ScriptInv
<1>8. /\ phase' = [phase EXCEPT ![p] = "script"] /\ job' = [job EXCEPT ![p] = job[p]]
      /\ "script" \in Phases
  BY <1>1 DEF Inductive, procsInv, Phases
<1>9. procsInv'
  BY <1>2, <1>4, <1>6, <1>7, <1>8, ProcStep
<1>10. podsInv' /\ commands' \in 0..MaxCommands
  BY <1>1 DEF Inductive, podsInv
<1> QED
  BY <1>1, <1>5, <1>6, <1>9, <1>10, SameClusters, Frame

\* The result of the script decides whether the node is removed.
LEMMA UpdatedKeeps ==
    ASSUME Inductive, NEW p \in Procs, Updated(p) PROVE Inductive'
<1>1. /\ phase[p] = "script" /\ at[p] = "done" /\ at' = [at EXCEPT ![p] = "idle"] /\ forget(p)
      /\ UNCHANGED <<cms, pods, applied>> /\ UNCHANGED <<clusterVars, adminPods, commands>>
  BY DEF Updated, Return, goto
<1>2. Told'
  BY <1>1, ForgetKeeps DEF Inductive
<1>3. at'[p] = "idle" /\ \A q \in Procs : q # p => at'[q] = at[q] /\ call'[q] = call[q]
  BY <1>1 DEF Inductive, Told, ScriptInv, forget
<1>4. podsInv' /\ commands' \in 0..MaxCommands
  BY <1>1 DEF Inductive, podsInv
<1>5. CASE ok[p] /\ moveTo(p, "script", "remove") /\ UNCHANGED job
  <2>1. phase' = [phase EXCEPT ![p] = "remove"] /\ job' = [job EXCEPT ![p] = job[p]] /\ "remove" \in Phases
    BY <1>5 DEF moveTo, Inductive, procsInv, Phases
  <2>2. job[p] \in Jobs /\ job[p].node \in Nodes /\ call[p].node = job[p].node
    BY <1>1 DEF Inductive, procsInv, jobInv
  <2>3. applied[job[p].node] # {}
    BY <1>5, <2>2 DEF Inductive, Told, ScriptInv, ranInv
  <2>4. procsInv'
    BY <1>1, <1>3, <2>1, <2>2, <2>3, ProcStep
  <2> QED
    BY <1>1, <1>2, <1>4, <2>4, SameClusters, Frame
<1>6. CASE end(p, "failed")
  <2>1. procsInv'
    BY <1>1, <1>3, <1>6, EndKeeps
  <2> QED
    BY <1>1, <1>2, <1>4, <2>1, SameClusters, Frame
<1> QED
  BY <1>5, <1>6 DEF Updated

LEMMA RemoveFromSourceKeeps ==
    ASSUME Inductive, NEW p \in Procs, RemoveFromSource(p) PROVE Inductive'
<1>1. /\ phase[p] = "remove" /\ end(p, "done")
      /\ UNCHANGED <<scriptVars, home, conf, handled, tokens, certs, adminPods, commands>>
      /\ listed' = listed \ {job[p].node} \/ listed' = listed
  BY DEF RemoveFromSource
<1>2. at[p] = "idle" /\ job[p].node \in Nodes /\ applied[job[p].node] # {}
  BY <1>1 DEF Inductive, procsInv, jobInv
<1>3. procsInv'
  BY <1>1, <1>2, Outside, EndKeeps
<1>4. podsInv' /\ commands' \in 0..MaxCommands /\ clustersInv'
  BY <1>1 DEF Inductive, podsInv, clustersInv
<1>5. RemovedWasTold'
  BY <1>1, <1>2, Outside DEF Inductive, RemovedWasTold
<1> QED
  BY <1>1, <1>3, <1>4, <1>5, Outside DEF Inductive

LEMMA InScriptKeeps ==
    ASSUME Inductive, NEW p \in Procs, InScript(p) PROVE Inductive'
<1>1. ScriptStep(p) /\ UNCHANGED <<clusterVars, adminPods, phase, job, commands>>
  BY DEF InScript, joinVars
<1>2. Told' /\ \A n \in Nodes : applied[n] \subseteq applied'[n]
  BY <1>1, ScriptStepKeeps DEF Inductive
<1>3. at[p] # "idle" /\ call' = call /\ \A q \in Procs : q # p => at'[q] = at[q]
  BY <1>1, ScriptStepCall DEF Inductive
<1>4. /\ phase[p] = "script" /\ call[p].node = job[p].node /\ job[p] \in Jobs /\ job[p].node \in Nodes
      /\ phase' = [phase EXCEPT ![p] = "script"] /\ job' = [job EXCEPT ![p] = job[p]] /\ "script" \in Phases
  BY <1>1, <1>3 DEF Inductive, procsInv, jobInv, Phases
<1>5. procsInv'
  BY <1>2, <1>3, <1>4, ProcStep
<1>6. podsInv' /\ commands' \in 0..MaxCommands
  BY <1>1 DEF Inductive, podsInv
<1> QED
  BY <1>1, <1>2, <1>5, <1>6, SameClusters, Frame

LEMMA ScriptGoesWrongKeeps ==
    ASSUME Inductive, NEW p \in Procs, ScriptGoesWrong(p) \/ PodNeverReady(p) PROVE Inductive'
<1>1. /\ ScriptFails(p) \/ Exec(p, FALSE)
      /\ UNCHANGED <<clusterVars, adminPods, phase, job, commands>>
  BY DEF ScriptGoesWrong, PodNeverReady
<1>2. Told' /\ \A n \in Nodes : applied[n] \subseteq applied'[n]
  <2>1. CASE Exec(p, FALSE)
    BY <2>1, ExecKeeps DEF Inductive
  <2>2. CASE ScriptFails(p)
    BY <2>2, ScriptFailsKeeps DEF Inductive, ScriptFails
  <2> QED BY <1>1, <2>1, <2>2
<1>3. at[p] # "idle" /\ call' = call /\ \A q \in Procs : q # p => at'[q] = at[q]
  BY <1>1, ScriptStepCall DEF Inductive
<1>4. /\ phase[p] = "script" /\ call[p].node = job[p].node /\ job[p] \in Jobs /\ job[p].node \in Nodes
      /\ phase' = [phase EXCEPT ![p] = "script"] /\ job' = [job EXCEPT ![p] = job[p]] /\ "script" \in Phases
  BY <1>1, <1>3 DEF Inductive, procsInv, jobInv, Phases
<1>5. procsInv'
  BY <1>2, <1>3, <1>4, ProcStep
<1>6. podsInv' /\ commands' \in 0..MaxCommands
  BY <1>1 DEF Inductive, podsInv
<1> QED
  BY <1>1, <1>2, <1>5, <1>6, SameClusters, Frame

LEMMA FailsKeeps ==
    ASSUME Inductive, NEW p \in Procs, Fails(p) PROVE Inductive'
<1>1. UNCHANGED <<scriptVars, clusterVars, commands>> /\ at[p] = "idle" /\ end(p, "failed")
  BY DEF Fails
<1>2. podsInv' /\ commands' \in 0..MaxCommands
  BY <1>1, PodType DEF Fails, Inductive, podsInv
<1>3. procsInv'
  BY <1>1, Outside, EndKeeps
<1> QED
  BY <1>1, <1>2, <1>3, Outside, SameClusters, Frame

LEMMA KillKeeps ==
    ASSUME Inductive, NEW p \in Procs, Kill(p) PROVE Inductive'
<1>1. /\ at' = [at EXCEPT ![p] = "idle"] /\ forget(p) /\ UNCHANGED <<cms, pods, applied>>
      /\ end(p, "killed") /\ UNCHANGED <<clusterVars, adminPods, commands>>
  BY DEF Kill, ScriptKill
<1>2. Told'
  BY <1>1, ForgetKeeps DEF Inductive
<1>3. at'[p] = "idle" /\ \A q \in Procs : q # p => at'[q] = at[q] /\ call'[q] = call[q]
  BY <1>1 DEF Inductive, Told, ScriptInv, forget
<1>4. podsInv' /\ commands' \in 0..MaxCommands
  BY <1>1 DEF Inductive, podsInv
<1>5. procsInv'
  BY <1>1, <1>3, EndKeeps
<1> QED
  BY <1>1, <1>2, <1>4, <1>5, SameClusters, Frame

LEMMA KubeletKeeps ==
    ASSUME Inductive, Kubelet PROVE Inductive'
<1>1. PICK n \in Names : Mount(n)
  BY DEF Kubelet
<1>2. UNCHANGED <<clusterVars, adminPods, phase, job, commands>> /\ UNCHANGED <<at, call, applied>>
  BY <1>1 DEF Kubelet, joinVars, Mount
<1>3. Told'
  BY <1>1, MountKeeps DEF Inductive
<1>4. podsInv' /\ commands' \in 0..MaxCommands
  BY <1>2 DEF Inductive, podsInv
<1> QED
  BY <1>2, <1>3, <1>4, SameClusters, SameProcs, Frame

LEMMA ResetKeeps ==
    ASSUME Inductive, NEW n \in Nodes, Reset(n) PROVE Inductive'
<1>1. PICK e \in applied[n] : conf' = [conf EXCEPT ![n] = e.env]
  BY DEF Reset
<1>2. e.env \in joinConfigs /\ e.env # None
  BY <1>1, NodeJoinAssumption DEF Inductive, Told, ScriptInv
<1>3. UNCHANGED <<scriptVars, listed, tokens, certs, adminPods, phase, job, commands>>
      /\ home' = [home EXCEPT ![n] = None]
  BY DEF Reset, joinVars
<1>4. None # "source"
  BY NodeJoinAssumption
<1>5. clustersInv'
  BY <1>1, <1>2, <1>3, <1>4 DEF Inductive, clustersInv
<1>6. podsInv' /\ commands' \in 0..MaxCommands
  BY <1>3 DEF Inductive, podsInv
<1> QED
  BY <1>3, <1>5, <1>6, Outside, SameProcs, Frame

LEMMA KubeadmJoinKeeps ==
    ASSUME Inductive, NEW n \in Nodes, KubeadmJoin(n) PROVE Inductive'
<1>1. /\ UNCHANGED <<scriptVars, conf, listed, tokens, certs, adminPods, phase, job, commands>>
      /\ home[n] = None /\ home' = [home EXCEPT ![n] = "dest"]
  BY DEF KubeadmJoin, joinVars
<1>2. None # "source"
  BY NodeJoinAssumption
<1>3. clustersInv'
  BY <1>1, <1>2 DEF Inductive, clustersInv
<1>4. podsInv' /\ commands' \in 0..MaxCommands
  BY <1>1 DEF Inductive, podsInv
<1> QED
  BY <1>1, <1>3, <1>4, Outside, SameProcs, Frame

LEMMA InitInductive == Init => Inductive
<1> SUFFICES ASSUME Init PROVE Inductive
  OBVIOUS
<1>1. ScriptInit
  BY DEF Init
<1>2. Told
  BY <1>1 DEF ScriptInit, Told, ScriptInv, RunsOwnScript, ranInv, ownScript, meetKnown, Places, Inside
<1>3. clustersInv /\ podsInv /\ commands \in 0..MaxCommands /\ RemovedWasTold
  BY NodeJoinAssumption DEF Init, clustersInv, podsInv, RemovedWasTold
<1>4. NoJob \in Jobs /\ "idle" \in Phases
  BY NodeJoinAssumption DEF NoJob, Jobs, Phases
<1>5. procsInv
  BY <1>1, <1>4 DEF Init, ScriptInit, procsInv, jobInv
<1> QED
  BY <1>2, <1>3, <1>5 DEF Inductive

LEMMA CommandKeeps ==
    ASSUME Inductive, NEW p \in Procs, Command(p) PROVE Inductive'
BY CreateJoinKeeps, DeleteAdminPodKeeps, StartAdminPodKeeps, AdminPodFailsKeeps, AdminPodGoneKeeps,
   UploadCertificatesKeeps, GetFilesKeeps, CopyHAFilesKeeps, UpdateNodeKeeps, UpdatedKeeps,
   RemoveFromSourceKeeps, InScriptKeeps, ScriptGoesWrongKeeps DEF Command

LEMMA NextInductive == Inductive /\ [Next]_vars => Inductive'
<1> SUFFICES ASSUME Inductive, [Next]_vars PROVE Inductive'
  OBVIOUS
<1>1. CASE Next
  BY <1>1, BeginKeeps, CommandKeeps, ScriptGoesWrongKeeps, FailsKeeps, KillKeeps, KubeletKeeps, ResetKeeps, KubeadmJoinKeeps
     DEF Next, Machine
<1>2. CASE UNCHANGED vars
  <2>1. UNCHANGED <<scriptVars, clusterVars, adminPods, phase, job, commands>>
    BY <1>2 DEF vars, joinVars
  <2>2. podsInv' /\ commands' \in 0..MaxCommands
    BY <2>1 DEF Inductive, podsInv
  <2> QED
    BY <2>1, <2>2, Outside, SameClusters, SameProcs, Frame
<1> QED
  BY <1>1, <1>2

LEMMA InductiveHolds == Spec => []Inductive
BY InitInductive, NextInductive, PTL DEF Spec

\* joinNodeToCluster and RunScript keep the state of both clusters, the
\* commands and the pods in agreement, whatever fails and whoever is killed.
THEOREM JoinInvHolds == Spec => []JoinInv
<1>1. Inductive => JoinInv
  BY InductiveIs
<1> QED BY <1>1, InductiveHolds, PTL

\* RunScript: whoever uses a name alone executes its own script in its own
\* environment on its own node, whatever a killed caller has left behind.
THEOREM AloneRunsOwnScript == Spec => []RunsOwnScript
<1>1. Inductive => RunsOwnScript
  BY InductiveIs
<1> QED BY <1>1, InductiveHolds, PTL

\* joinNodeToCluster: no node is deleted from the source before the script
\* that makes it join the other cluster ran on it.
THEOREM RemovedNodesWereTold == Spec => []RemovedWasTold
<1>1. Inductive => RemovedWasTold
  BY InductiveIs
<1> QED BY <1>1, InductiveHolds, PTL

-----------------------------------------------------------------------------
(* Migrations without faults: they succeed and leave no admin pods.          *)

\* p has the admin pod x and will delete it.
used(p, x) == InAdmin(p) /\ adm[p] = "use" /\ pod(p) = x

\* Where one command runs at a time, the others have never begun.
LEMMA OthersAreNew ==
    ASSUME Inductive, CleanInv, world.serial, NEW p \in Procs, result[p] # "new",
           NEW q \in Procs, q # p
    PROVE  result[q] = "new" /\ phase[q] = "idle" /\ at[q] = "idle"
<1>1. result[q] = "new"
  BY DEF CleanInv, onlyOne
<1>2. phase[q] = "idle"
  BY <1>1 DEF CleanInv
<1> QED
  BY <1>1, <1>2 DEF Inductive, procsInv, jobInv

\* A step of one command keeps the invariant, if it keeps what the invariant
\* says of this command and of the admin pods.
LEMMA OneCleanly ==
    ASSUME Inductive, CleanInv, NEW p \in Procs,
           result[p] = "runs" \/ (world.serial => \A q \in Procs \ {p} : result[q] = "new"),
           UNCHANGED world,
           \A q \in Procs \ {p} : UNCHANGED <<result[q], at[q], phase[q]>>,
           world.serial => \A q \in Procs \ {p} : met'[q] = met[q],
           adm' \in [Procs -> {"delete", "create", "use"}], clean' \in [Procs -> BOOLEAN],
           result' \in [Procs -> {"new", "runs", "refused", "failed", "done", "killed"}],
           phase'[p] # "idle" <=> result'[p] = "runs",
           world.serial => aloneInv(p)',
           world.faults = {} => podsUsed'
    PROVE  CleanInv'
<1>1. ASSUME world.serial, NEW q \in Procs \ {p}
      PROVE  result[q] = "new" /\ phase[q] = "idle" /\ at[q] = "idle"
  <2>1. result[q] = "new"
    BY <1>1, OthersAreNew
  <2>2. phase[q] = "idle"
    BY <2>1 DEF CleanInv
  <2> QED BY <2>1, <2>2 DEF Inductive, procsInv, jobInv
<1>2. ASSUME world.serial PROVE onlyOne'
  BY <1>1, <1>2 DEF onlyOne
<1>3. ASSUME world.serial, NEW q \in Procs PROVE aloneInv(q)'
  <2>1. CASE q = p
    BY <1>3, <2>1
  <2>2. CASE q # p
    <3>1. ~met'[q] /\ at'[q] = "idle" /\ phase'[q] = "idle" /\ result'[q] = "new"
      BY <1>1, <1>3, <2>2 DEF CleanInv, aloneInv
    <3> QED BY <3>1 DEF aloneInv
  <2> QED BY <2>1, <2>2
<1>4. \A q \in Procs : phase'[q] # "idle" <=> result'[q] = "runs"
  BY DEF CleanInv
<1> QED BY <1>2, <1>3, <1>4 DEF CleanInv

\* No command loses sight of its admin pod.
LEMMA PodsStayUsed ==
    ASSUME podsUsed, NEW p \in Procs,
           \A q \in Procs \ {p} : UNCHANGED <<adm[q], phase[q], job[q]>>,
           UNCHANGED home,
           \A x \in adminPods' :
               \/ used(p, x)'
               \/ x \in adminPods /\ ~used(p, x)
               \/ x[2] \in Nodes /\ home[x[2]] # "source"
    PROVE  podsUsed'
<1> SUFFICES ASSUME NEW x \in adminPods'
             PROVE  \/ \E q \in Procs : used(q, x)'
                    \/ x[2] \in Nodes /\ home[x[2]] # "source"
  BY DEF podsUsed, used
<1>1. CASE x \in adminPods /\ ~used(p, x)
  <2>1. CASE \E q \in Procs : used(q, x)
    <3>1. PICK q \in Procs : used(q, x)
      BY <2>1
    <3>2. used(q, x)'
      BY <1>1, <3>1 DEF used, InAdmin, pod, prefix, where
    <3> QED BY <3>2
  <2> QED BY <1>1, <2>1 DEF podsUsed, used
<1> QED BY <1>1

\* A command outside of RunScript that goes on or ends, without a fault.
LEMMA GoesCleanly ==
    ASSUME Inductive, CleanInv, NEW p \in Procs, result[p] = "runs",
           UNCHANGED <<scriptVars, home, world>>,
           NEW f \in Phases, phase' = [phase EXCEPT ![p] = f],
           NEW a \in {"delete", "create", "use"}, adm' = [adm EXCEPT ![p] = a],
           NEW j, job' = [job EXCEPT ![p] = j],
           NEW b \in BOOLEAN, clean' = [clean EXCEPT ![p] = b], b => clean[p],
           NEW r \in {"runs", "refused", "failed", "done", "killed"},
           result' = [result EXCEPT ![p] = r],
           f # "idle" <=> r = "runs",
           world.serial /\ f \in {"dest", "conf", "files"} /\ a = "create" => pod(p)' \notin adminPods',
           world.serial /\ r = "failed" /\ b => <<"exec", Dest>> \in adminPods',
           world.faults = {} => podsUsed'
    PROVE  CleanInv'
<1>1. /\ adm' \in [Procs -> {"delete", "create", "use"}] /\ clean' \in [Procs -> BOOLEAN]
      /\ result' \in [Procs -> {"new", "runs", "refused", "failed", "done", "killed"}]
      /\ phase'[p] = f /\ result'[p] = r /\ adm'[p] = a /\ clean'[p] = b
  BY DEF CleanInv, Inductive, procsInv
<1>2. \A q \in Procs \ {p} : UNCHANGED <<result[q], at[q], phase[q], met[q]>>
  BY DEF scriptVars, CleanInv, Inductive, procsInv
<1>3. ASSUME world.serial PROVE aloneInv(p)'
  <2>1. aloneInv(p)
    BY <1>3 DEF CleanInv
  <2>2. UNCHANGED <<at, cms, pods, ok, met, call>>
    BY DEF scriptVars
  <2> QED BY <1>1, <1>3, <2>1, <2>2 DEF aloneInv, name
<1> QED BY <1>1, <1>2, <1>3, OneCleanly

\* A command that is under way runs.
LEMMA UnderWay ==
    ASSUME Inductive, CleanInv, NEW p \in Procs
    PROVE  /\ phase[p] # "idle" => result[p] = "runs"
           /\ phase[p] \in Phases /\ adm[p] \in {"delete", "create", "use"} /\ clean[p] \in BOOLEAN
           /\ phase = [phase EXCEPT ![p] = phase[p]] /\ adm = [adm EXCEPT ![p] = adm[p]]
           /\ job = [job EXCEPT ![p] = job[p]] /\ clean = [clean EXCEPT ![p] = clean[p]]
           /\ result = [result EXCEPT ![p] = result[p]]
BY DEF Inductive, procsInv, CleanInv

\* Other commands keep their places.
LEMMA OthersStay ==
    ASSUME Inductive, CleanInv, NEW p \in Procs, NEW f, NEW a, NEW j,
           phase' = [phase EXCEPT ![p] = f], adm' = [adm EXCEPT ![p] = a],
           job' = [job EXCEPT ![p] = j]
    PROVE  /\ \A q \in Procs \ {p} : UNCHANGED <<adm[q], phase[q], job[q]>>
           /\ phase'[p] = f /\ adm'[p] = a /\ job'[p] = j
BY DEF Inductive, procsInv, CleanInv

LEMMA BeginCleanly ==
    ASSUME Inductive, CleanInv, NEW p \in Procs, NEW n \in Nodes, NEW cp \in BOOLEAN, Begin(p, n, cp)
    PROVE  CleanInv'
<1> DEFINE j == [NoJob EXCEPT !.node = n, !.cp = cp]
<1>1. /\ phase[p] = "idle" /\ phase' = [phase EXCEPT ![p] = "token"]
      /\ job' = [job EXCEPT ![p] = j] /\ clean' = [clean EXCEPT ![p] = TRUE]
      /\ result' = [result EXCEPT ![p] = "runs"]
      /\ UNCHANGED <<scriptVars, home, adminPods, adm, world>>
  BY DEF Begin, clusterVars
<1>2. world.serial => \A q \in Procs \ {p} : result[q] = "new"
  BY DEF Begin
<1> HIDE DEF j
<1>3. UNCHANGED <<at, met>> /\ at[p] = "idle"
  BY <1>1 DEF scriptVars, Inductive, procsInv, jobInv
<1>4. /\ phase'[p] = "token" /\ result'[p] = "runs" /\ adm' = [adm EXCEPT ![p] = adm[p]]
      /\ \A q \in Procs \ {p} : UNCHANGED <<result[q], at[q], phase[q]>>
      /\ adm' \in [Procs -> {"delete", "create", "use"}] /\ clean' \in [Procs -> BOOLEAN]
      /\ result' \in [Procs -> {"new", "runs", "refused", "failed", "done", "killed"}]
  BY <1>1, <1>3 DEF CleanInv, Inductive, procsInv
<1>5. world.serial => aloneInv(p)'
  BY <1>3, <1>4 DEF aloneInv, CleanInv
<1>6. ASSUME world.faults = {} PROVE podsUsed'
  <2>1. podsUsed /\ \A x \in adminPods' : x \in adminPods /\ ~used(p, x)
    BY <1>1, <1>6 DEF CleanInv, used, InAdmin
  <2> QED BY <1>1, <1>4, <2>1, OthersStay, PodsStayUsed
<1> QED BY <1>1, <1>2, <1>3, <1>4, <1>5, <1>6, OneCleanly

LEMMA CreateJoinCleanly ==
    ASSUME Inductive, CleanInv, NEW p \in Procs, CreateJoin(p) PROVE CleanInv'
<1>1. phase[p] = "token" /\ result[p] = "runs" /\ UNCHANGED <<scriptVars, home, adminPods, clean, world>>
  BY UnderWay DEF CreateJoin
<1>2. ASSUME world.faults = {}
      PROVE  podsUsed /\ \A x \in adminPods' : x \in adminPods /\ ~used(p, x)
  BY <1>1, <1>2 DEF CleanInv, used, InAdmin
<1>3. CASE job[p].node \in listed
  <2> DEFINE f == IF job[p].cp THEN "exec" ELSE "script"
             a == IF f = "exec" THEN "create" ELSE "delete"
             j == [job[p] EXCEPT !.token = commands]
  <2>1. /\ phase' = [phase EXCEPT ![p] = f] /\ adm' = [adm EXCEPT ![p] = a]
        /\ job' = [job EXCEPT ![p] = j] /\ UNCHANGED result
        /\ f \in Phases \ {"idle", "dest", "conf", "files"} /\ a \in {"delete", "create", "use"}
    BY <1>3 DEF CreateJoin, moveTo, Phases
  <2> HIDE DEF f, a, j
  <2>2. world.faults = {} => podsUsed'
    BY <1>1, <1>2, <2>1, OthersStay, PodsStayUsed
  <2>9. /\ result[p] = "runs" /\ clean[p] \in BOOLEAN
        /\ clean' = [clean EXCEPT ![p] = clean[p]] /\ result' = [result EXCEPT ![p] = result[p]]
    BY <1>1, <2>1, <2>2, UnderWay
  <2> QED BY <1>1, <2>1, <2>2, <2>9, GoesCleanly
<1>4. CASE job[p].node \notin listed
  <2>1. /\ phase' = [phase EXCEPT ![p] = "idle"] /\ adm' = [adm EXCEPT ![p] = "delete"]
        /\ job' = [job EXCEPT ![p] = NoJob] /\ result' = [result EXCEPT ![p] = "refused"]
        /\ "idle" \in Phases
    BY <1>4 DEF CreateJoin, end, Phases
  <2>2. world.faults = {} => podsUsed'
    BY <1>1, <1>2, <2>1, OthersStay, PodsStayUsed
  <2> QED BY <1>1, <2>1, <2>2, UnderWay, GoesCleanly
<1> QED BY <1>3, <1>4

\* A command that goes on with its admin pod.
LEMMA StaysCleanly ==
    ASSUME Inductive, CleanInv, NEW p \in Procs, result[p] = "runs",
           UNCHANGED <<scriptVars, phase, clean, result, world>>,
           NEW a \in {"delete", "create", "use"}, adm' = [adm EXCEPT ![p] = a],
           world.serial /\ a = "create" => pod(p)' \notin adminPods',
           world.faults = {} => podsUsed'
    PROVE  CleanInv'
<1>1. /\ adm' \in [Procs -> {"delete", "create", "use"}] /\ clean' \in [Procs -> BOOLEAN]
      /\ result' \in [Procs -> {"new", "runs", "refused", "failed", "done", "killed"}]
      /\ adm'[p] = a /\ (phase'[p] # "idle" <=> result'[p] = "runs")
  BY DEF CleanInv
<1>2. \A q \in Procs \ {p} : UNCHANGED <<result[q], at[q], phase[q], met[q]>>
  BY DEF scriptVars
<1>3. ASSUME world.serial PROVE aloneInv(p)'
  <2>1. aloneInv(p)
    BY <1>3 DEF CleanInv
  <2>2. UNCHANGED <<at, cms, pods, ok, met, call>>
    BY DEF scriptVars
  <2> QED BY <1>1, <1>3, <2>1, <2>2 DEF aloneInv, name
<1> QED BY <1>1, <1>2, <1>3, OneCleanly

LEMMA DeleteAdminPodCleanly ==
    ASSUME Inductive, CleanInv, NEW p \in Procs, DeleteAdminPod(p) PROVE CleanInv'
<1>1. /\ InAdmin(p) /\ adm[p] = "delete" /\ phase[p] # "idle" /\ adm' = [adm EXCEPT ![p] = "create"]
      /\ adminPods' = adminPods \ {pod(p)}
      /\ UNCHANGED <<scriptVars, home, phase, job, clean, result, world>>
  BY DEF DeleteAdminPod, InAdmin, clusterVars
<1>2. pod(p)' = pod(p)
  BY <1>1 DEF pod, prefix, where
<1>3. ASSUME world.faults = {} PROVE podsUsed'
  <2>1. podsUsed /\ \A x \in adminPods' : x \in adminPods /\ ~used(p, x)
    BY <1>1, <1>3 DEF CleanInv, used
  <2> QED BY <1>1, <2>1, UnderWay, OthersStay, PodsStayUsed
<1>9. result[p] = "runs"
  BY <1>1, UnderWay
<1> QED BY <1>1, <1>2, <1>3, <1>9, StaysCleanly

LEMMA StartAdminPodCleanly ==
    ASSUME Inductive, CleanInv, NEW p \in Procs, StartAdminPodOnNode(p) PROVE CleanInv'
<1>1. /\ InAdmin(p) /\ adm[p] = "create" /\ phase[p] # "idle" /\ adm' = [adm EXCEPT ![p] = "use"]
      /\ adminPods' = adminPods \cup {pod(p)}
      /\ UNCHANGED <<scriptVars, home, phase, job, clean, result, world>>
  BY DEF StartAdminPodOnNode, InAdmin, clusterVars
<1>2. adm'[p] = "use" /\ used(p, pod(p))'
  BY <1>1 DEF pod, prefix, where, used, InAdmin, CleanInv
<1>3. ASSUME world.faults = {} PROVE podsUsed'
  <2>1. podsUsed
    BY <1>3 DEF CleanInv
  <2>2. \A x \in adminPods : ~used(p, x)
    BY <1>1 DEF used
  <2>3. \A x : x = pod(p) => used(p, x)'
    BY <1>1, <1>2 DEF pod, prefix, where, used, InAdmin
  <2> QED BY <1>1, <2>1, <2>2, <2>3, UnderWay, OthersStay, PodsStayUsed
<1>9. result[p] = "runs"
  BY <1>1, UnderWay
<1> QED BY <1>1, <1>3, <1>9, StaysCleanly

\* The one pod that a command does not free first is the "exec" pod.
LEMMA AdminPodFailsCleanly ==
    ASSUME Inductive, CleanInv, NEW p \in Procs, AdminPodFails(p) PROVE CleanInv'
<1> DEFINE b == clean[p] /\ (where(p) \in Nodes => home[where(p)] = "source")
<1>1. /\ InAdmin(p) /\ adm[p] = "create" /\ phase[p] # "idle" /\ adm' = [adm EXCEPT ![p] = "delete"]
      /\ phase' = [phase EXCEPT ![p] = "idle"] /\ job' = [job EXCEPT ![p] = NoJob]
      /\ result' = [result EXCEPT ![p] = "failed"] /\ clean' = [clean EXCEPT ![p] = b]
      /\ UNCHANGED <<scriptVars, home, world>> /\ "idle" \in Phases
  BY DEF AdminPodFails, InAdmin, end, clusterVars, Phases
<1>2. \/ pod(p) \in adminPods /\ UNCHANGED adminPods
      \/ /\ where(p) \in Nodes /\ home[where(p)] # "source"
         /\ adminPods' = adminPods \cup {pod(p)}
  BY DEF AdminPodFails
<1>3. b \in BOOLEAN /\ (b => clean[p])
  BY UnderWay
<1>4. ASSUME world.serial, b PROVE <<"exec", Dest>> \in adminPods'
  <2>1. pod(p) \in adminPods /\ UNCHANGED adminPods
    BY <1>2, <1>4
  <2>2. phase[p] = "exec"
    BY <1>1, <1>4, <2>1 DEF CleanInv, aloneInv, InAdmin
  <2> QED BY <2>1, <2>2 DEF pod, prefix, where
<1>5. ASSUME world.faults = {} PROVE podsUsed'
  <2>1. podsUsed /\ \A x \in adminPods : ~used(p, x)
    BY <1>1, <1>5 DEF CleanInv, used
  <2>2. pod(p)[2] = where(p)
    BY DEF pod
  <2>3. \A x \in adminPods' :
            \/ x \in adminPods /\ ~used(p, x)
            \/ x[2] \in Nodes /\ home[x[2]] # "source"
    BY <1>2, <2>1, <2>2
  <2> QED BY <1>1, <2>1, <2>3, OthersStay, PodsStayUsed
<1> HIDE DEF b
<1> QED BY <1>1, <1>3, <1>4, <1>5, UnderWay, GoesCleanly

LEMMA AdminPodGoneCleanly ==
    ASSUME Inductive, CleanInv, NEW p \in Procs, AdminPodGone(p) PROVE CleanInv'
<1>1. /\ InAdmin(p) /\ pod(p) \notin adminPods /\ phase[p] # "idle" /\ adm' = [adm EXCEPT ![p] = "delete"]
      /\ phase' = [phase EXCEPT ![p] = "idle"] /\ job' = [job EXCEPT ![p] = NoJob]
      /\ result' = [result EXCEPT ![p] = "failed"] /\ clean' = [clean EXCEPT ![p] = FALSE]
      /\ UNCHANGED <<scriptVars, home, world, adminPods>> /\ "idle" \in Phases
  BY DEF AdminPodGone, InAdmin, end, clusterVars, Phases
<1>2. ASSUME world.faults = {} PROVE podsUsed'
  <2>1. podsUsed /\ \A x \in adminPods : ~used(p, x)
    BY <1>1, <1>2 DEF CleanInv, used
  <2> QED BY <1>1, <2>1, OthersStay, PodsStayUsed
<1> QED BY <1>1, <1>2, UnderWay, GoesCleanly

\* A pod that was used is deleted.
LEMMA UseCleanly ==
    ASSUME Inductive, CleanInv, NEW p \in Procs, useful(p),
           NEW f \in Phases \ {"idle", "exec"}, phase' = [phase EXCEPT ![p] = f],
           adm' = [adm EXCEPT ![p] = "delete"], NEW j, job' = [job EXCEPT ![p] = j],
           adminPods' = adminPods \ {pod(p)},
           UNCHANGED <<scriptVars, home, clean, result, world>>
    PROVE  CleanInv'
<1>1. phase[p] # "idle"
  BY DEF useful, InAdmin
<1>2. ASSUME world.faults = {} PROVE podsUsed'
  <2>1. podsUsed /\ \A x \in adminPods' : x \in adminPods /\ ~used(p, x)
    BY <1>2 DEF CleanInv, used
  <2> QED BY <2>1, OthersStay, PodsStayUsed
<1>9. /\ result[p] = "runs" /\ clean[p] \in BOOLEAN
      /\ clean' = [clean EXCEPT ![p] = clean[p]] /\ result' = [result EXCEPT ![p] = result[p]]
  BY <1>1, <1>2, UnderWay
<1> QED BY <1>1, <1>2, <1>9, GoesCleanly

LEMMA FilesCleanly ==
    ASSUME Inductive, CleanInv, NEW p \in Procs,
           UploadCertificates(p) \/ GetFilesFromDestCluster(p) \/ GetFilesFromMigratingNode(p)
             \/ CopyHAFilesToNode(p)
    PROVE  CleanInv'
<1>0. {"dest", "conf", "files", "script"} \subseteq Phases \ {"idle", "exec"}
  BY DEF Phases
<1>1. CASE UploadCertificates(p)
  <2> DEFINE j == [job[p] EXCEPT !.key = commands]
  <2>1. /\ useful(p) /\ phase' = [phase EXCEPT ![p] = afterUpload] /\ afterUpload \in {"conf", "dest"}
        /\ adm' = [adm EXCEPT ![p] = "delete"] /\ job' = [job EXCEPT ![p] = j]
        /\ adminPods' = adminPods \ {pod(p)} /\ UNCHANGED <<scriptVars, home, clean, result, world>>
    BY <1>1 DEF UploadCertificates, moveTo, withKey, afterUpload
  <2> HIDE DEF j
  <2> QED BY <1>0, <2>1, UseCleanly
<1>2. CASE GetFilesFromDestCluster(p) \/ GetFilesFromMigratingNode(p)
  <2>1. PICK f \in {"conf", "files", "script"} :
           /\ phase' = [phase EXCEPT ![p] = f] /\ adm' = [adm EXCEPT ![p] = "delete"]
    BY <1>2 DEF GetFilesFromDestCluster, GetFilesFromMigratingNode, moveTo
  <2>2. /\ useful(p) /\ adminPods' = adminPods \ {pod(p)} /\ UNCHANGED job
        /\ UNCHANGED <<scriptVars, home, clean, result, world>>
    BY <1>2 DEF GetFilesFromDestCluster, GetFilesFromMigratingNode, moveTo, clusterVars
  <2> QED BY <1>0, <2>1, <2>2, UnderWay, UseCleanly
<1>3. CASE CopyHAFilesToNode(p)
  <2> DEFINE j == [job[p] EXCEPT !.ha = TRUE]
  <2>1. /\ useful(p) /\ phase' = [phase EXCEPT ![p] = "script"]
        /\ adm' = [adm EXCEPT ![p] = "delete"] /\ job' = [job EXCEPT ![p] = j]
        /\ adminPods' = adminPods \ {pod(p)} /\ UNCHANGED <<scriptVars, home, clean, result, world>>
    BY <1>3 DEF CopyHAFilesToNode, moveTo, clusterVars
  <2> HIDE DEF j
  <2> QED BY <1>0, <2>1, UseCleanly
<1> QED BY <1>1, <1>2, <1>3

LEMMA RemoveCleanly ==
    ASSUME Inductive, CleanInv, NEW p \in Procs, RemoveFromSource(p) PROVE CleanInv'
<1>1. /\ phase[p] = "remove" /\ adm' = [adm EXCEPT ![p] = "delete"]
      /\ phase' = [phase EXCEPT ![p] = "idle"] /\ job' = [job EXCEPT ![p] = NoJob]
      /\ result' = [result EXCEPT ![p] = "done"]
      /\ UNCHANGED <<scriptVars, home, clean, world, adminPods>> /\ "idle" \in Phases
  BY DEF RemoveFromSource, end, Phases
<1>2. ASSUME world.faults = {} PROVE podsUsed'
  <2>1. podsUsed /\ \A x \in adminPods : ~used(p, x)
    BY <1>1, <1>2 DEF CleanInv, used, InAdmin
  <2> QED BY <1>1, <2>1, OthersStay, PodsStayUsed
<1> QED BY <1>1, <1>2, UnderWay, GoesCleanly

LEMMA FailsCleanly ==
    ASSUME Inductive, CleanInv, NEW p \in Procs, Fails(p) PROVE CleanInv'
<1>1. /\ phase[p] # "idle" /\ adm' = [adm EXCEPT ![p] = "delete"] /\ world.faults # {}
      /\ phase' = [phase EXCEPT ![p] = "idle"] /\ job' = [job EXCEPT ![p] = NoJob]
      /\ result' = [result EXCEPT ![p] = "failed"] /\ clean' = [clean EXCEPT ![p] = FALSE]
      /\ UNCHANGED <<scriptVars, home, world>> /\ "idle" \in Phases
  BY DEF Fails, apiError, end, clusterVars, Phases
<1> QED BY <1>1, UnderWay, GoesCleanly

\* Steps that have nothing to do with admin pods.
LEMMA SamePods ==
    ASSUME CleanInv, UNCHANGED <<adm, phase, job, home, adminPods, world>>
    PROVE  world.faults = {} => podsUsed'
BY DEF CleanInv, podsUsed, InAdmin, pod, prefix, where

\* RunScript, for a caller that is alone: what it has deleted is gone and what
\* it has made is there, so it executes its script.
LEMMA AloneInScript ==
    ASSUME Inductive, NEW p \in Procs, aloneInv(p), phase[p] = "script", result[p] = "runs",
           ScriptStep(p), UNCHANGED joinVars
    PROVE  aloneInv(p)' /\ met' = met
<1> USE DEF joinVars
<1>1. at[p] # "idle" /\ call' = call
  BY ScriptStepCall DEF Inductive
<1>2. /\ name(p) \in Names /\ call[p] \in Requests /\ name(p)' = name(p)
      /\ at \in [Procs -> Places] /\ cms \in [Names -> Scripts \cup {None}]
      /\ pods \in [Names -> Pods \cup {None}] /\ ok \in [Procs -> BOOLEAN]
  BY <1>1, NameType DEF Inductive, Told, ScriptInv, name
<1>3. phase'[p] = "script" /\ result'[p] = "runs" /\ clean' = clean
  OBVIOUS
<1>4. ownScript(p) /\ call[p].script # None
  BY <1>2, RunScriptAssumption DEF aloneInv, Inductive, Told, ScriptInv, Requests
<1>5. CASE DeleteConfigmap(p) \/ DropCm(p) \/ DropPod(p)
  BY <1>2, <1>3, <1>5 DEF DeleteConfigmap, DropCm, DropPod, goto, aloneInv
<1>6. CASE CreateConfigMapWithData(p)
  BY <1>2, <1>3, <1>6 DEF CreateConfigMapWithData, goto, aloneInv
<1>7. CASE DeletePod(p)
  BY <1>2, <1>3, <1>7 DEF DeletePod, goto, aloneInv
<1>8. CASE CreateScriptsPod(p)
  <2>1. [env |-> call[p].env, script |-> None, ready |-> FALSE] # None
    <3>1. [env |-> call[p].env, script |-> None, ready |-> FALSE] \in Pods
      BY <1>2 DEF Pods, Requests
    <3> QED BY <3>1, RunScriptAssumption
  <2>2. /\ at' = [at EXCEPT ![p] = "ready"] /\ UNCHANGED <<met, ok>>
        /\ pods' = [pods EXCEPT ![name(p)] = [env |-> call[p].env, script |-> None, ready |-> FALSE]]
    BY <1>4, <1>8 DEF CreateScriptsPod, goto, ownScript
  <2> QED BY <1>2, <1>3, <2>1, <2>2 DEF aloneInv
<1>9. CASE WaitUntilPodReady(p)
  BY <1>2, <1>3, <1>9 DEF WaitUntilPodReady, goto, aloneInv
<1>10. CASE PodGone(p)
  <2>1. pods[name(p)] = None
    BY <1>4, <1>10 DEF PodGone, ownScript
  <2>2. ~clean[p]
    BY <1>10, <2>1 DEF PodGone, aloneInv
  <2> QED BY <1>3, <1>10, <2>2 DEF PodGone, aloneInv
<1>11. CASE Exec(p, TRUE)
  <2>1. ok'[p] = TRUE /\ at'[p] = "dropPod" /\ UNCHANGED met
    BY <1>2, <1>11 DEF Exec, goto
  <2> QED BY <1>3, <2>1 DEF aloneInv
<1> QED BY <1>5, <1>6, <1>7, <1>8, <1>9, <1>10, <1>11 DEF ScriptStep

\* A command that is in RunScript is under way.
LEMMA InScriptRuns ==
    ASSUME Inductive, CleanInv, NEW p \in Procs, at[p] # "idle"
    PROVE  phase[p] = "script" /\ result[p] = "runs"
BY DEF Inductive, procsInv, jobInv, CleanInv

LEMMA InScriptCleanly ==
    ASSUME Inductive, CleanInv, NEW p \in Procs, InScript(p) PROVE CleanInv'
<1>1. ScriptStep(p) /\ UNCHANGED <<adm, phase, job, home, adminPods, world, result, clean>>
  BY DEF InScript, joinVars, clusterVars
<1>2. at[p] # "idle" /\ \A q \in Procs : q # p => at'[q] = at[q]
  BY <1>1, ScriptStepCall DEF Inductive
<1>3. phase[p] = "script" /\ result[p] = "runs"
  BY <1>2, InScriptRuns
<1>4. world.serial => aloneInv(p)' /\ met' = met
  BY <1>1, <1>3, AloneInScript DEF CleanInv, joinVars
<1>5. /\ adm' \in [Procs -> {"delete", "create", "use"}] /\ clean' \in [Procs -> BOOLEAN]
      /\ result' \in [Procs -> {"new", "runs", "refused", "failed", "done", "killed"}]
      /\ (phase'[p] # "idle" <=> result'[p] = "runs")
  BY <1>1 DEF CleanInv
<1> QED BY <1>1, <1>2, <1>3, <1>4, <1>5, SamePods, OneCleanly

\* An error inside RunScript is remembered.
LEMMA ScriptErrorCleanly ==
    ASSUME Inductive, CleanInv, NEW p \in Procs, ScriptGoesWrong(p) \/ PodNeverReady(p) PROVE CleanInv'
<1>1. /\ (ScriptFails(p) \/ Exec(p, FALSE)) /\ clean' = [clean EXCEPT ![p] = FALSE]
      /\ UNCHANGED <<adm, phase, job, home, adminPods, world, result>>
  BY DEF ScriptGoesWrong, PodNeverReady, clusterVars
<1>2. at[p] # "idle" /\ \A q \in Procs : q # p => at'[q] = at[q]
  BY <1>1, ScriptStepCall DEF Inductive
<1>3. phase[p] = "script" /\ result[p] = "runs"
  BY <1>2, InScriptRuns
<1>4. met' = met /\ clean'[p] = FALSE
  BY <1>1 DEF ScriptFails, Exec, ScriptGoesWrong, PodNeverReady, CleanInv
<1>5. world.serial => aloneInv(p)'
  BY <1>1, <1>3, <1>4 DEF CleanInv, aloneInv
<1>6. /\ adm' \in [Procs -> {"delete", "create", "use"}] /\ clean' \in [Procs -> BOOLEAN]
      /\ result' \in [Procs -> {"new", "runs", "refused", "failed", "done", "killed"}]
      /\ (phase'[p] # "idle" <=> result'[p] = "runs")
  BY <1>1, <1>3, <1>4 DEF ScriptGoesWrong, PodNeverReady, CleanInv
<1> QED BY <1>1, <1>2, <1>3, <1>4, <1>5, <1>6, SamePods, OneCleanly

\* Nobody else uses the name that RunScript is called with.
LEMMA UpdateNodeCleanly ==
    ASSUME Inductive, CleanInv, NEW p \in Procs, UpdateNode(p) PROVE CleanInv'
<1>1. /\ phase[p] = "script" /\ at[p] = "idle" /\ at' = [at EXCEPT ![p] = "cm"]
      /\ UNCHANGED <<adm, phase, job, home, adminPods, world, result, clean>>
  BY DEF UpdateNode, joinVars, clusterVars, Call, goto
<1>2. result[p] = "runs"
  BY <1>1, UnderWay
<1>3. ASSUME world.serial PROVE \A q \in Procs : met'[q] = FALSE
  <2>1. \A q \in Procs : q # p => at[q] \notin Inside
    BY <1>2, <1>3, OthersAreNew DEF Inside
  <2>2. \A q \in Procs : ~met[q]
    BY <1>3 DEF CleanInv, aloneInv
  <2> QED BY <2>1, <2>2 DEF UpdateNode, Call
<1>4. at'[p] = "cm" /\ \A q \in Procs : q # p => at'[q] = at[q]
  BY <1>1 DEF Inductive, Told, ScriptInv
<1>5. world.serial => aloneInv(p)'
  BY <1>1, <1>2, <1>3, <1>4 DEF CleanInv, aloneInv
<1>6. /\ adm' \in [Procs -> {"delete", "create", "use"}] /\ clean' \in [Procs -> BOOLEAN]
      /\ result' \in [Procs -> {"new", "runs", "refused", "failed", "done", "killed"}]
      /\ (phase'[p] # "idle" <=> result'[p] = "runs")
  BY <1>1 DEF CleanInv
<1>7. world.serial => \A q \in Procs \ {p} : met'[q] = met[q]
  BY <1>3 DEF CleanInv, aloneInv, Inductive, Told, ScriptInv
<1> QED BY <1>1, <1>2, <1>4, <1>5, <1>6, <1>7, SamePods, OneCleanly

\* When RunScript returns to a caller that was alone and had no error, the
\* script ran.
LEMMA ReturnCleanly ==
    ASSUME Inductive, CleanInv, NEW p \in Procs, Updated(p),
           NEW f \in {"remove", "idle"}, phase' = [phase EXCEPT ![p] = f],
           adm' = [adm EXCEPT ![p] = "delete"], NEW j, job' = [job EXCEPT ![p] = j],
           NEW r \in {"runs", "failed"}, result' = [result EXCEPT ![p] = r],
           f # "idle" <=> r = "runs", r = "failed" => ~ok[p]
    PROVE  CleanInv'
<1>1. /\ phase[p] = "script" /\ at[p] = "done" /\ at' = [at EXCEPT ![p] = "idle"]
      /\ met' = [met EXCEPT ![p] = FALSE] /\ clean' = [clean EXCEPT ![p] = clean[p] /\ ~met[p]]
      /\ UNCHANGED <<home, adminPods, world>>
  BY DEF Updated, Return, goto, forget, clusterVars
<1>2. result[p] = "runs"
  BY <1>1, UnderWay
<1>3. /\ at'[p] = "idle" /\ met'[p] = FALSE /\ (clean'[p] => clean[p])
      /\ \A q \in Procs : q # p => at'[q] = at[q] /\ met'[q] = met[q]
      /\ clean' \in [Procs -> BOOLEAN]
  BY <1>1 DEF Inductive, Told, ScriptInv, CleanInv
<1>4. /\ phase'[p] = f /\ result'[p] = r
      /\ \A q \in Procs \ {p} : UNCHANGED <<result[q], phase[q]>>
      /\ adm' \in [Procs -> {"delete", "create", "use"}]
      /\ result' \in [Procs -> {"new", "runs", "refused", "failed", "done", "killed"}]
  BY DEF CleanInv, Inductive, procsInv
<1>5. world.serial => aloneInv(p)'
  BY <1>1, <1>3, <1>4 DEF CleanInv, aloneInv
<1>6. ASSUME world.faults = {} PROVE podsUsed'
  <2>1. podsUsed /\ \A x \in adminPods : ~used(p, x)
    BY <1>1, <1>6 DEF CleanInv, used, InAdmin
  <2> QED BY <1>1, <2>1, OthersStay, PodsStayUsed
<1>7. phase'[p] # "idle" <=> result'[p] = "runs"
  BY <1>4
<1>8. \A q \in Procs \ {p} : UNCHANGED <<result[q], at[q], phase[q], met[q]>>
  BY <1>3, <1>4
<1>9. UNCHANGED world
  BY <1>1
<1> QED BY <1>2, <1>3, <1>4, <1>5, <1>6, <1>7, <1>8, <1>9, OneCleanly

LEMMA UpdatedCleanly ==
    ASSUME Inductive, CleanInv, NEW p \in Procs, Updated(p) PROVE CleanInv'
<1>1. CASE ok[p]
  <2>1. /\ phase' = [phase EXCEPT ![p] = "remove"] /\ adm' = [adm EXCEPT ![p] = "delete"]
        /\ UNCHANGED <<job, result>> /\ phase[p] = "script"
    BY <1>1 DEF Updated, moveTo
  <2>2. result[p] = "runs"
    BY <2>1, UnderWay
  <2>3. job' = [job EXCEPT ![p] = job[p]] /\ result' = [result EXCEPT ![p] = "runs"]
    BY <2>1, <2>2, UnderWay
  <2> QED BY <1>1, <2>1, <2>3, ReturnCleanly
<1>2. CASE ~ok[p]
  <2>1. /\ phase' = [phase EXCEPT ![p] = "idle"] /\ adm' = [adm EXCEPT ![p] = "delete"]
        /\ job' = [job EXCEPT ![p] = NoJob] /\ result' = [result EXCEPT ![p] = "failed"]
    BY <1>2 DEF Updated, end
  <2> QED BY <1>2, <2>1, ReturnCleanly
<1> QED BY <1>1, <1>2

LEMMA KillCleanly ==
    ASSUME Inductive, CleanInv, NEW p \in Procs, Kill(p) PROVE CleanInv'
<1>1. /\ at' = [at EXCEPT ![p] = "idle"] /\ met' = [met EXCEPT ![p] = FALSE]
      /\ phase' = [phase EXCEPT ![p] = "idle"] /\ adm' = [adm EXCEPT ![p] = "delete"]
      /\ result' = [result EXCEPT ![p] = "killed"] /\ clean' = [clean EXCEPT ![p] = FALSE]
      /\ UNCHANGED world /\ world.faults # {} /\ phase[p] # "idle"
  BY DEF Kill, ScriptKill, forget, end
<1>2. result[p] = "runs"
  BY <1>1, UnderWay
<1>3. /\ phase'[p] = "idle" /\ result'[p] = "killed" /\ at'[p] = "idle" /\ ~met'[p] /\ ~clean'[p]
      /\ \A q \in Procs \ {p} : UNCHANGED <<result[q], phase[q], at[q], met[q]>>
      /\ adm' \in [Procs -> {"delete", "create", "use"}] /\ clean' \in [Procs -> BOOLEAN]
      /\ result' \in [Procs -> {"new", "runs", "refused", "failed", "done", "killed"}]
  BY <1>1 DEF CleanInv, Inductive, procsInv, Told, ScriptInv
<1>4. aloneInv(p)'
  BY <1>3 DEF aloneInv
<1> QED BY <1>1, <1>2, <1>3, <1>4, OneCleanly

\* The kubelets and the nodes do not touch what commands have made.
LEMMA MachinesCleanly ==
    ASSUME Inductive, CleanInv, Kubelet \/ Machine \/ UNCHANGED vars PROVE CleanInv'
<1>1. UNCHANGED <<at, call, met, ok, cms, adminPods, joinVars, world>>
  BY DEF Kubelet, Machine, Mount, Reset, KubeadmJoin, vars, scriptVars
<1>2. \A n \in Names : pods[n] # None => pods'[n] # None
  <2>1. CASE Kubelet
    <3>1. PICK m \in Names : Mount(m)
      BY <2>1 DEF Kubelet
    <3>2. Told'
      BY <3>1, MountKeeps DEF Inductive
    <3>3. pods[m] \in Pods /\ cms[m] \in Scripts /\ pods \in [Names -> Pods \cup {None}]
      BY <3>1 DEF Mount, Inductive, Told, ScriptInv
    <3>4. [pods[m] EXCEPT !.script = cms[m], !.ready = TRUE] \in Pods
      BY <3>3 DEF Pods
    <3>5. [pods[m] EXCEPT !.script = cms[m], !.ready = TRUE] # None
      BY <3>4, RunScriptAssumption
    <3> QED BY <3>1, <3>3, <3>5 DEF Mount
  <2>2. CASE Machine \/ UNCHANGED vars
    BY <2>2 DEF Machine, Reset, KubeadmJoin, vars, scriptVars
  <2> QED BY <2>1, <2>2
<1>3. ASSUME world.serial, NEW p \in Procs PROVE aloneInv(p)'
  <2>1. aloneInv(p)
    BY <1>3 DEF CleanInv
  <2>2. at[p] # "idle" => name(p) \in Names
    BY NameType DEF Inductive, Told
  <2> QED BY <1>1, <1>2, <2>1, <2>2 DEF aloneInv, name, joinVars, pod, prefix, where
<1>4. \A n \in Nodes : home[n] # "source" => home'[n] # "source"
  BY NodeJoinAssumption DEF Kubelet, Machine, Reset, KubeadmJoin, vars, clusterVars, Inductive, clustersInv
<1>5. world.faults = {} => podsUsed'
  BY <1>1, <1>4 DEF CleanInv, podsUsed, InAdmin, pod, prefix, where, joinVars
<1> QED BY <1>1, <1>3, <1>5 DEF CleanInv, joinVars, onlyOne

LEMMA InitCleanly == Init => CleanInv
BY DEF Init, ScriptInit, CleanInv, aloneInv, onlyOne, podsUsed

LEMMA NextCleanly == Inductive /\ CleanInv /\ [Next]_vars => CleanInv'
<1> SUFFICES ASSUME Inductive, CleanInv, [Next]_vars PROVE CleanInv'
  OBVIOUS
<1>1. ASSUME NEW p \in Procs, Command(p) PROVE CleanInv'
  BY <1>1, CreateJoinCleanly, DeleteAdminPodCleanly, StartAdminPodCleanly, AdminPodFailsCleanly,
     AdminPodGoneCleanly, FilesCleanly, UpdateNodeCleanly, UpdatedCleanly, RemoveCleanly,
     InScriptCleanly, ScriptErrorCleanly DEF Command
<1> QED
  BY <1>1, BeginCleanly, ScriptErrorCleanly, FailsCleanly, KillCleanly, MachinesCleanly DEF Next

\* joinNodeToCluster: a command finds free what it has freed, and every admin
\* pod has a command that deletes it, for any number of processes and nodes.
THEOREM CleanInvHolds == Spec => []CleanInv
BY InitCleanly, NextCleanly, InductiveHolds, PTL DEF Spec

\* joinNodeToCluster: one at a time and without errors, migrations succeed,
\* except for the "exec" pod that UploadCertificates leaves when it is killed;
\* and without faults no admin pod is left, however many commands run.
THEOREM MigrationsAreClean == Spec => []JoinsCleanly
<1>1. Inductive /\ CleanInv => JoinsCleanly
  <2> SUFFICES ASSUME Inductive, CleanInv PROVE JoinsCleanly
    OBVIOUS
  <2>1. JoinSucceeds
    BY DEF CleanInv, aloneInv, JoinSucceeds
  <2>2. AdminPodsRemoved
    BY DEF CleanInv, podsUsed, AdminPodsRemoved, InAdmin
  <2> QED BY <2>1, <2>2 DEF JoinsCleanly
<1> QED BY <1>1, InductiveHolds, CleanInvHolds, PTL
=============================================================================
