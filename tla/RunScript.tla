------------------------------ MODULE RunScript ------------------------------
(***************************************************************************)
(* RunScript puts a script into a config map, starts a privileged pod that *)
(* mounts it on a node, waits for the pod, executes the script in it and   *)
(* removes both.  The names of the config map and the pod are made of the  *)
(* action and the node, whoever calls: that is the only thing that keeps   *)
(* two callers apart.                                                      *)
(*                                                                         *)
(* A module that extends this one says what a script does to a node.       *)
(***************************************************************************)
EXTENDS Integers, FiniteSets

CONSTANTS
    Procs,          \* ocne processes
    Nodes,
    Actions,        \* the action names of the callers
    Scripts, Envs,  \* the scripts and their environments
    None

VARIABLES
    cms,            \* [name]: the script in the config map, or None
    pods,           \* [name]: the pod, or None
    applied,        \* [node]: what was executed on it
    at,             \* [p]: where p is in RunScript
    call,           \* [p]: its parameters
    ok,             \* [p]: whether RunScript returned nil
    met,            \* observer: another caller used the name meanwhile
    ran             \* observer: what p executed, and where

scriptVars == <<cms, pods, applied, at, call, ok, met, ran>>

Names == Actions \X Nodes
Requests == [action : Actions, node : Nodes, script : Scripts, env : Envs]
Pods == [env : Envs, script : Scripts \cup {None}, ready : BOOLEAN]
Runs == [node : Nodes, script : Scripts, env : Envs]

ASSUME RunScriptAssumption == None \notin Scripts \cup Requests \cup Pods \cup Runs

Places == {"idle", "cm", "createCm", "pod", "createPod", "ready", "exec", "dropPod", "dropCm", "done"}
Inside == Places \ {"idle", "done"}

ScriptInit ==
    /\ cms = [n \in Names |-> None]
    /\ pods = [n \in Names |-> None]
    /\ applied = [n \in Nodes |-> {}]
    /\ at = [p \in Procs |-> "idle"]
    /\ call = [p \in Procs |-> None]
    /\ ok = [p \in Procs |-> FALSE]
    /\ met = [p \in Procs |-> FALSE]
    /\ ran = [p \in Procs |-> None]

MutantName(p) == <<call[p].action, CHOOSE n \in Nodes : TRUE>>

name(p) == <<call[p].action, call[p].node>>

goto(p, from, to) == at[p] = from /\ at' = [at EXCEPT ![p] = to]

\* The parameters: action, node, script and environment.
Call(p, c) ==
    LET others == {q \in Procs : q # p /\ at[q] \in Inside
                                 /\ call[q].action = c.action /\ call[q].node = c.node} IN
    /\ goto(p, "idle", "cm")
    /\ call' = [call EXCEPT ![p] = c]
    /\ met' = [q \in Procs |-> IF q = p THEN others # {} ELSE met[q] \/ q \in others]
    /\ UNCHANGED <<cms, pods, applied, ok, ran>>

DeleteConfigmap(p) ==
    /\ goto(p, "cm", "createCm")
    /\ cms' = [cms EXCEPT ![name(p)] = None]
    /\ UNCHANGED <<pods, applied, call, ok, met, ran>>

\* The config map is removed on return even if it could not be created.
CreateConfigMapWithData(p) ==
    /\ at[p] = "createCm"
    /\ IF cms[name(p)] = None
       THEN goto(p, "createCm", "pod") /\ cms' = [cms EXCEPT ![name(p)] = call[p].script]
       ELSE goto(p, "createCm", "dropCm") /\ UNCHANGED cms
    /\ UNCHANGED <<pods, applied, call, ok, met, ran>>

DeletePod(p) ==
    /\ goto(p, "pod", "createPod")
    /\ pods' = [pods EXCEPT ![name(p)] = None]
    /\ UNCHANGED <<cms, applied, call, ok, met, ran>>

CreateScriptsPod(p) ==
    /\ at[p] = "createPod"
    /\ IF pods[name(p)] = None
       THEN /\ goto(p, "createPod", "ready")
            /\ pods' = [pods EXCEPT ![name(p)] = [env |-> call[p].env, script |-> None, ready |-> FALSE]]
       ELSE goto(p, "createPod", "dropPod") /\ UNCHANGED pods
    /\ UNCHANGED <<cms, applied, call, ok, met, ran>>

\* The kubelet mounts the config map, which has to exist, and starts the pod.
Mount(n) ==
    /\ pods[n] # None /\ cms[n] # None
    /\ ~pods[n].ready
    /\ pods' = [pods EXCEPT ![n].script = cms[n], ![n].ready = TRUE]
    /\ UNCHANGED <<cms, applied, at, call, ok, met, ran>>

\* Any pod of that name that is ready ends the wait.
WaitUntilPodReady(p) ==
    /\ goto(p, "ready", "exec")
    /\ pods[name(p)] # None /\ pods[name(p)].ready
    /\ UNCHANGED <<cms, pods, applied, call, ok, met, ran>>

MutantNoTimeout(p) ==
    /\ at[p] = "exec"
    /\ pods[name(p)] = None
    /\ at' = [at EXCEPT ![p] = "dropPod"]
    /\ UNCHANGED <<cms, pods, applied, call, ok, met, ran>>

\* The wait has an end when the pod is gone or cannot start.
PodGone(p) ==
    /\ at[p] \in {"ready", "exec"}
    /\ \/ pods[name(p)] = None
       \/ cms[name(p)] = None /\ pods[name(p)] # None /\ ~pods[name(p)].ready
    /\ at' = [at EXCEPT ![p] = "dropPod"]
    /\ UNCHANGED <<cms, pods, applied, call, ok, met, ran>>

\* kubectl exec of the script that is mounted, in the environment of the pod.
Exec(p, good) ==
    /\ goto(p, "exec", "dropPod")
    /\ pods[name(p)] # None /\ pods[name(p)].ready
    /\ LET it == [action |-> call[p].action, script |-> pods[name(p)].script, env |-> pods[name(p)].env]
           where == name(p)[2] IN
       /\ applied' = [applied EXCEPT ![where] = @ \cup {it}]
       /\ ran' = [ran EXCEPT ![p] = [node |-> where, script |-> it.script, env |-> it.env]]
    /\ ok' = [ok EXCEPT ![p] = good]
    /\ UNCHANGED <<cms, pods, call, met>>

MutantDropPod(p) ==
    /\ goto(p, "dropPod", "dropCm")
    /\ UNCHANGED <<cms, pods, applied, call, ok, met, ran>>

\* The deferred calls; their errors are dropped.
DropPod(p) ==
    /\ goto(p, "dropPod", "dropCm")
    /\ pods' = [pods EXCEPT ![name(p)] = None]
    /\ UNCHANGED <<cms, applied, call, ok, met, ran>>

DropCm(p) ==
    /\ goto(p, "dropCm", "done")
    /\ cms' = [cms EXCEPT ![name(p)] = None]
    /\ UNCHANGED <<pods, applied, call, ok, met, ran>>

\* A call of the API fails, or 48 tries of five seconds were not enough.
ScriptFails(p) ==
    /\ \/ at[p] \in {"cm", "dropCm"} /\ goto(p, at[p], "done")
       \/ at[p] \in {"createCm", "pod", "dropPod"} /\ goto(p, at[p], "dropCm")
       \/ at[p] \in {"createPod", "ready", "exec"} /\ goto(p, at[p], "dropPod")
    /\ UNCHANGED <<cms, pods, applied, call, ok, met, ran>>

forget(p) ==
    /\ call' = [call EXCEPT ![p] = None]
    /\ ok' = [ok EXCEPT ![p] = FALSE]
    /\ met' = [met EXCEPT ![p] = FALSE]
    /\ ran' = [ran EXCEPT ![p] = None]

\* The caller goes on.
Return(p) ==
    /\ goto(p, "done", "idle")
    /\ forget(p)
    /\ UNCHANGED <<cms, pods, applied>>

\* The process dies.  What it made stays.
ScriptKill(p) ==
    /\ at' = [at EXCEPT ![p] = "idle"]
    /\ forget(p)
    /\ UNCHANGED <<cms, pods, applied>>

ScriptStep(p) ==
    \/ DeleteConfigmap(p) \/ CreateConfigMapWithData(p)
    \/ DeletePod(p) \/ CreateScriptsPod(p)
    \/ WaitUntilPodReady(p) \/ PodGone(p)
    \/ Exec(p, TRUE)
    \/ DropPod(p) \/ DropCm(p)

-----------------------------------------------------------------------------
(* Properties                                                               *)

meetKnown(p, q) == at[p] \in Inside /\ at[q] \in Inside /\ name(p) = name(q) => met[p] /\ met[q]

\* What nobody else has touched.
ownScript(p) ==
    /\ at[p] \in {"pod", "createPod", "ready", "exec"} => cms[name(p)] = call[p].script
    /\ at[p] = "createPod" => pods[name(p)] = None
    /\ at[p] \in {"ready", "exec"} /\ pods[name(p)] # None =>
           pods[name(p)].env = call[p].env /\ pods[name(p)].script \in {None, call[p].script}

ranInv(p) ==
    /\ at[p] # "idle" => call[p] # None
    /\ ok[p] => ran[p] # None
    /\ ran[p] # None => at[p] \in {"dropPod", "dropCm", "done"} /\ applied[call[p].node] # {}

\* RunScript: a pod that is ready has a script; two callers that use one name
\* know of it, and whoever is alone finds its own config map and pod.
ScriptInv ==
    /\ cms \in [Names -> Scripts \cup {None}] /\ pods \in [Names -> Pods \cup {None}]
    /\ at \in [Procs -> Places] /\ call \in [Procs -> Requests \cup {None}]
    /\ ok \in [Procs -> BOOLEAN] /\ met \in [Procs -> BOOLEAN] /\ ran \in [Procs -> Runs \cup {None}]
    /\ applied \in [Nodes -> SUBSET [action : Actions, script : Scripts, env : Envs]]
    /\ \A n \in Names : pods[n] # None => (pods[n].ready <=> pods[n].script # None)
    /\ \A p \in Procs : ranInv(p) /\ (met[p] \/ ownScript(p))
    /\ \A p, q \in Procs : p = q \/ meetKnown(p, q)

\* RunScript: unless another caller uses the same action and node meanwhile,
\* what is executed is the caller's script, in its environment, on its node,
\* whatever pods and config maps a caller that died has left.
RunsOwnScript ==
    \A p \in Procs : (~met[p] /\ ran[p] # None) =>
        ran[p] = [node |-> call[p].node, script |-> call[p].script, env |-> call[p].env]
=============================================================================
