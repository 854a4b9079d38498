--------------------------- MODULE RunScript_proofs ---------------------------
(***************************************************************************)
(* Lemmas about RunScript, for whoever calls it: a caller that is alone    *)
(* with a name runs its own script, whatever processes that died have      *)
(* left; and what is left over when every call of the API succeeds.        *)
(***************************************************************************)
EXTENDS RunScript, TLAPS
Told == ScriptInv /\ RunsOwnScript

LEMMA NameType ==
    ASSUME ScriptInv, NEW p \in Procs, at[p] # "idle"
    PROVE  call[p] \in Requests /\ name(p) \in Names /\ name(p)[2] = call[p].node
BY DEF ScriptInv, ranInv, name, Names, Requests

\* Only the place of p changes, and not to one that promises more.
LEMMA PlaceOnly ==
    ASSUME Told, NEW p \in Procs, NEW to \in Places \ {"idle"}, at[p] \in Inside,
           at' = [at EXCEPT ![p] = to],
           ran[p] # None => to \in {"dropPod", "dropCm", "done"},
           UNCHANGED <<cms, pods, applied, call, ok, met, ran>>,
           ~met[p] => ownScript(p)'
    PROVE  Told'
<1>1. \A q \in Procs : name(q)' = name(q)
  BY DEF name
<1>2. \A q \in Procs : q # p => at'[q] = at[q]
  BY DEF Told, ScriptInv
<1>3. at'[p] = to
  BY DEF Told, ScriptInv
<1>4. at' \in [Procs -> Places]
  BY DEF Told, ScriptInv
<1>5. \A q \in Procs : ranInv(q)'
  BY <1>2, <1>3 DEF Told, ScriptInv, ranInv, Inside, Places
<1>6. \A q \in Procs : met'[q] \/ ownScript(q)'
  BY <1>1, <1>2 DEF Told, ScriptInv, ownScript
<1>7. \A q, r \in Procs : q = r \/ meetKnown(q, r)'
  BY <1>1, <1>2, <1>3 DEF Told, ScriptInv, meetKnown, Inside
<1>8. RunsOwnScript'
  BY DEF Told, RunsOwnScript
<1> QED
  BY <1>4, <1>5, <1>6, <1>7, <1>8 DEF Told, ScriptInv

\* p writes the config map and the pod of its name: whoever is alone with
\* another name, or has met p, is not disturbed.
LEMMA NameOnly ==
    ASSUME Told, NEW p \in Procs, NEW to \in Places \ {"idle"}, at[p] \in Inside,
           at' = [at EXCEPT ![p] = to],
           NEW c \in Scripts \cup {None}, cms' = [cms EXCEPT ![name(p)] = c],
           NEW w \in Pods \cup {None}, pods' = [pods EXCEPT ![name(p)] = w],
           w # None => (w.ready <=> w.script # None),
           ran[p] # None => to \in {"dropPod", "dropCm", "done"},
           UNCHANGED <<applied, call, ok, met, ran>>,
           ~met[p] => ownScript(p)'
    PROVE  Told'
<1>1. \A q \in Procs : name(q)' = name(q)
  BY DEF name
<1>2. \A q \in Procs : q # p => at'[q] = at[q]
  BY DEF Told, ScriptInv
<1>3. at'[p] = to
  BY DEF Told, ScriptInv
<1>4. at' \in [Procs -> Places]
  BY DEF Told, ScriptInv
<1>5. \A q \in Procs : ranInv(q)'
  BY <1>2, <1>3 DEF Told, ScriptInv, ranInv, Inside, Places
<1>0. name(p) \in Names
  BY NameType DEF Told, Inside
<1>6. ASSUME NEW q \in Procs, ~met[q], q # p
      PROVE  ownScript(q)'
  <2>1. CASE at[q] \in Inside
    <3>1. name(q) # name(p)
      BY <1>6, <2>1 DEF Told, ScriptInv, meetKnown
    <3>2. name(q) \in Names
      BY <2>1, NameType DEF Told, Inside
    <3>3. cms'[name(q)] = cms[name(q)] /\ pods'[name(q)] = pods[name(q)]
      BY <3>1, <3>2, <1>0 DEF Told, ScriptInv
    <3> QED
      BY <3>3, <1>1, <1>2, <1>6 DEF Told, ScriptInv, ownScript
  <2>2. CASE at[q] \notin Inside
    BY <2>2, <1>2, <1>6 DEF ownScript, Inside, Places
  <2> QED BY <2>1, <2>2
<1>7. \A q, r \in Procs : q = r \/ meetKnown(q, r)'
  BY <1>1, <1>2, <1>3 DEF Told, ScriptInv, meetKnown, Inside
<1>8. RunsOwnScript'
  BY DEF Told, RunsOwnScript
<1>9. cms' \in [Names -> Scripts \cup {None}] /\ pods' \in [Names -> Pods \cup {None}]
  BY <1>0 DEF Told, ScriptInv
<1>10. \A n \in Names : pods'[n] # None => (pods'[n].ready <=> pods'[n].script # None)
  BY <1>0 DEF Told, ScriptInv
<1>11. \A q \in Procs : met'[q] \/ ownScript(q)'
  BY <1>6
<1> QED
  BY <1>4, <1>5, <1>7, <1>8, <1>9, <1>10, <1>11 DEF Told, ScriptInv

\* Where p is, its name has a pod of the right kind or none.
LEMMA AtName ==
    ASSUME Told, NEW p \in Procs, at[p] \in Inside
    PROVE  /\ name(p) \in Names /\ call[p] \in Requests
           /\ pods[name(p)] \in Pods \cup {None} /\ cms[name(p)] \in Scripts \cup {None}
           /\ pods = [pods EXCEPT ![name(p)] = pods[name(p)]]
           /\ cms = [cms EXCEPT ![name(p)] = cms[name(p)]]
           /\ pods[name(p)] # None => (pods[name(p)].ready <=> pods[name(p)].script # None)
           /\ at[p] \notin {"dropPod", "dropCm", "done"} => ran[p] = None /\ ~ok[p]
           /\ call[p] \in Requests => call[p].script \in Scripts /\ call[p].env \in Envs /\ call[p].node \in Nodes
<1>1. name(p) \in Names /\ call[p] \in Requests
  BY NameType DEF Told, Inside
<1>2. pods[name(p)] \in Pods \cup {None} /\ cms[name(p)] \in Scripts \cup {None}
  BY <1>1 DEF Told, ScriptInv
<1>3. pods = [pods EXCEPT ![name(p)] = pods[name(p)]] /\ cms = [cms EXCEPT ![name(p)] = cms[name(p)]]
  BY DEF Told, ScriptInv
<1>4. pods[name(p)] # None => (pods[name(p)].ready <=> pods[name(p)].script # None)
  BY <1>1 DEF Told, ScriptInv
<1>5. at[p] \notin {"dropPod", "dropCm", "done"} => ran[p] = None /\ ~ok[p]
  BY DEF Told, ScriptInv, ranInv
<1> QED
  BY <1>1, <1>2, <1>3, <1>4, <1>5 DEF Requests

LEMMA DeleteConfigmapKeeps ==
    ASSUME Told, NEW p \in Procs, DeleteConfigmap(p) PROVE Told'
<1>1. at[p] = "cm" /\ at' = [at EXCEPT ![p] = "createCm"]
  BY DEF DeleteConfigmap, goto
<1>2. cms' = [cms EXCEPT ![name(p)] = None] /\ UNCHANGED <<pods, applied, call, ok, met, ran>>
  BY DEF DeleteConfigmap
<1>3. at[p] \in Inside /\ "createCm" \in Places \ {"idle"}
  BY <1>1 DEF Inside, Places
<1>4. ownScript(p)'
  BY <1>1 DEF ownScript, Told, ScriptInv
<1> QED
  BY <1>1, <1>2, <1>3, <1>4, AtName, NameOnly

LEMMA CreateConfigMapKeeps ==
    ASSUME Told, NEW p \in Procs, CreateConfigMapWithData(p) PROVE Told'
<1>1. at[p] = "createCm" /\ at[p] \in Inside /\ UNCHANGED <<pods, applied, call, ok, met, ran>>
  BY DEF CreateConfigMapWithData, Inside, Places
<1>2. "pod" \in Places \ {"idle"} /\ "dropCm" \in Places \ {"idle"}
  BY DEF Places
<1>3. CASE at' = [at EXCEPT ![p] = "pod"] /\ cms' = [cms EXCEPT ![name(p)] = call[p].script]
  <2>1. name(p)' = name(p) /\ call' = call
    BY <1>1 DEF name
  <2>2. at'[p] = "pod" /\ cms'[name(p)] = call[p].script
    BY <1>1, <1>3, AtName DEF Told, ScriptInv
  <2>3. ownScript(p)'
    BY <2>1, <2>2 DEF ownScript
  <2> QED
    BY <1>1, <1>2, <1>3, <2>3, AtName, NameOnly
<1>4. CASE at' = [at EXCEPT ![p] = "dropCm"] /\ UNCHANGED cms
  <2>1. ownScript(p)'
    BY <1>4 DEF ownScript, Told, ScriptInv
  <2> QED
    BY <1>1, <1>2, <1>4, <2>1, AtName, PlaceOnly
<1> QED
  BY <1>3, <1>4 DEF CreateConfigMapWithData, goto

LEMMA DeletePodKeeps ==
    ASSUME Told, NEW p \in Procs, DeletePod(p) PROVE Told'
<1>1. at[p] = "pod" /\ at' = [at EXCEPT ![p] = "createPod"]
  BY DEF DeletePod, goto
<1>2. pods' = [pods EXCEPT ![name(p)] = None] /\ UNCHANGED <<cms, applied, call, ok, met, ran>>
  BY DEF DeletePod
<1>3. at[p] \in Inside /\ "createPod" \in Places \ {"idle"}
  BY <1>1 DEF Inside, Places
<1>4. name(p)' = name(p)
  BY <1>2 DEF name
<1>5. at'[p] = "createPod" /\ pods'[name(p)] = None
  BY <1>1, <1>2, <1>3, AtName DEF Told, ScriptInv
<1>6. ~met[p] => ownScript(p)'
  BY <1>1, <1>2, <1>4, <1>5 DEF ownScript, Told, ScriptInv
<1> QED
  BY <1>1, <1>2, <1>3, <1>6, AtName, NameOnly

LEMMA CreateScriptsPodKeeps ==
    ASSUME Told, NEW p \in Procs, CreateScriptsPod(p) PROVE Told'
<1> DEFINE w == [env |-> call[p].env, script |-> None, ready |-> FALSE]
<1>1. at[p] = "createPod" /\ at[p] \in Inside /\ UNCHANGED <<cms, applied, call, ok, met, ran>>
  BY DEF CreateScriptsPod, Inside, Places
<1>2. "ready" \in Places \ {"idle"} /\ "dropPod" \in Places \ {"idle"}
  BY DEF Places
<1>3. CASE at' = [at EXCEPT ![p] = "ready"] /\ pods' = [pods EXCEPT ![name(p)] = w]
  <2>1. name(p)' = name(p) /\ call' = call
    BY <1>1 DEF name
  <2>2. at'[p] = "ready" /\ pods'[name(p)] = w
    BY <1>1, <1>3, AtName DEF Told, ScriptInv
  <2>3. ~met[p] => ownScript(p)'
    BY <1>1, <2>1, <2>2 DEF ownScript, Told, ScriptInv
  <2>4. w \in Pods /\ (w.ready <=> w.script # None)
    BY <1>1, AtName DEF Pods
  <2> HIDE DEF w
  <2> QED
    BY <1>1, <1>2, <1>3, <2>3, <2>4, AtName, NameOnly
<1>4. CASE at' = [at EXCEPT ![p] = "dropPod"] /\ UNCHANGED pods
  <2>1. ownScript(p)'
    BY <1>4 DEF ownScript, Told, ScriptInv
  <2> QED
    BY <1>1, <1>2, <1>4, <2>1, AtName, PlaceOnly
<1> QED
  BY <1>3, <1>4 DEF CreateScriptsPod, goto

LEMMA WaitUntilPodReadyKeeps ==
    ASSUME Told, NEW p \in Procs, WaitUntilPodReady(p) PROVE Told'
<1>1. at[p] = "ready" /\ at' = [at EXCEPT ![p] = "exec"] /\ UNCHANGED <<cms, pods, applied, call, ok, met, ran>>
  BY DEF WaitUntilPodReady, goto
<1>2. at[p] \in Inside /\ "exec" \in Places \ {"idle"}
  BY <1>1 DEF Inside, Places
<1>3. name(p)' = name(p) /\ at'[p] = "exec"
  BY <1>1 DEF name, Told, ScriptInv
<1>4. ~met[p] => ownScript(p)'
  BY <1>1, <1>3 DEF ownScript, Told, ScriptInv
<1> QED
  BY <1>1, <1>2, <1>4, AtName, PlaceOnly

\* Leaving early: no promise is left for p.
LEMMA LeaveKeeps ==
    ASSUME Told, NEW p \in Procs, at[p] \in Inside, NEW to \in {"dropPod", "dropCm", "done"},
           at' = [at EXCEPT ![p] = to], UNCHANGED <<cms, pods, applied, call, ok, met, ran>>
    PROVE  Told'
<1>1. to \in Places \ {"idle"}
  BY DEF Places
<1>2. ownScript(p)'
  BY DEF ownScript, Told, ScriptInv
<1> QED
  BY <1>1, <1>2, PlaceOnly

LEMMA PodGoneKeeps ==
    ASSUME Told, NEW p \in Procs, PodGone(p) PROVE Told'
BY LeaveKeeps DEF PodGone, Inside, Places

LEMMA ScriptFailsKeeps ==
    ASSUME Told, NEW p \in Procs, ScriptFails(p) PROVE Told'
BY LeaveKeeps DEF ScriptFails, goto, Inside, Places

LEMMA DropPodKeeps ==
    ASSUME Told, NEW p \in Procs, DropPod(p) PROVE Told'
<1>1. /\ at[p] = "dropPod" /\ at' = [at EXCEPT ![p] = "dropCm"]
      /\ pods' = [pods EXCEPT ![name(p)] = None] /\ UNCHANGED <<cms, applied, call, ok, met, ran>>
  BY DEF DropPod, goto
<1>2. at[p] \in Inside /\ "dropCm" \in Places \ {"idle"}
  BY <1>1 DEF Inside, Places
<1>3. ownScript(p)'
  BY <1>1 DEF ownScript, Told, ScriptInv
<1> QED
  BY <1>1, <1>2, <1>3, AtName, NameOnly

LEMMA DropCmKeeps ==
    ASSUME Told, NEW p \in Procs, DropCm(p) PROVE Told'
<1>1. /\ at[p] = "dropCm" /\ at' = [at EXCEPT ![p] = "done"]
      /\ cms' = [cms EXCEPT ![name(p)] = None] /\ UNCHANGED <<pods, applied, call, ok, met, ran>>
  BY DEF DropCm, goto
<1>2. at[p] \in Inside /\ "done" \in Places \ {"idle"}
  BY <1>1 DEF Inside, Places
<1>3. ownScript(p)'
  BY <1>1 DEF ownScript, Told, ScriptInv
<1> QED
  BY <1>1, <1>2, <1>3, AtName, NameOnly

\* The kubelet mounts the script of the config map.
LEMMA MountKeeps ==
    ASSUME Told, NEW n \in Names, Mount(n) PROVE Told'
<1> DEFINE w == [pods[n] EXCEPT !.script = cms[n], !.ready = TRUE]
<1>1. pods[n] \in Pods /\ cms[n] \in Scripts /\ ~pods[n].ready /\ pods[n].script = None
  BY DEF Mount, Told, ScriptInv, Pods
<1>2. pods' = [pods EXCEPT ![n] = w]
  BY <1>1 DEF Mount, Pods, Told, ScriptInv
<1>3. w \in Pods /\ w.ready /\ w.script = cms[n] /\ w.env = pods[n].env
  BY <1>1 DEF Pods
<1>4. w.script # None /\ w # None /\ pods[n] # None
  BY <1>1, <1>3, RunScriptAssumption
<1> HIDE DEF w
<1>5. pods' \in [Names -> Pods \cup {None}] /\ pods'[n] = w /\ \A m \in Names : m # n => pods'[m] = pods[m]
  BY <1>2, <1>3 DEF Told, ScriptInv
<1>6. UNCHANGED <<cms, applied, at, call, ok, met, ran>>
  BY DEF Mount
<1>7. \A m \in Names : pods'[m] # None => (pods'[m].ready <=> pods'[m].script # None)
  BY <1>3, <1>4, <1>5 DEF Told, ScriptInv, Pods
<1>8. \A q \in Procs : name(q)' = name(q)
  BY <1>6 DEF name
<1>9. ASSUME NEW q \in Procs, ~met[q] PROVE ownScript(q)'
  <2>1. CASE at[q] \in Inside
    <3>1. name(q) \in Names /\ ownScript(q)
      BY <2>1, <1>9, AtName DEF Told, ScriptInv
    <3>2. CASE name(q) = n
      BY <3>1, <3>2, <1>3, <1>4, <1>5, <1>6, <1>8 DEF ownScript
    <3>3. CASE name(q) # n
      BY <3>1, <3>3, <1>5, <1>6, <1>8 DEF ownScript
    <3> QED BY <3>2, <3>3
  <2>2. CASE at[q] \notin Inside
    BY <2>2, <1>6 DEF ownScript, Inside, Places
  <2> QED BY <2>1, <2>2
<1>10. \A q \in Procs : ranInv(q)' /\ (met'[q] \/ ownScript(q)')
  BY <1>6, <1>9 DEF Told, ScriptInv, ranInv
<1>11. \A q, r \in Procs : q = r \/ meetKnown(q, r)'
  BY <1>6, <1>8 DEF Told, ScriptInv, meetKnown
<1>12. RunsOwnScript'
  BY <1>6 DEF Told, RunsOwnScript
<1> QED
  BY <1>5, <1>6, <1>7, <1>10, <1>11, <1>12 DEF Told, ScriptInv

\* The script that is mounted runs on the node of the name.
LEMMA ExecKeeps ==
    ASSUME Told, NEW p \in Procs, NEW good \in BOOLEAN, Exec(p, good)
    PROVE  Told' /\ \A n \in Nodes : applied[n] \subseteq applied'[n]
<1> DEFINE it == [action |-> call[p].action, script |-> pods[name(p)].script, env |-> pods[name(p)].env]
           r == [node |-> call[p].node, script |-> it.script, env |-> it.env]
<1>1. at[p] = "exec" /\ at[p] \in Inside /\ at' = [at EXCEPT ![p] = "dropPod"]
  BY DEF Exec, goto, Inside, Places
<1>2. name(p)[2] = call[p].node /\ call[p] \in Requests /\ name(p) \in Names
  BY <1>1, NameType DEF Told
<1>3. /\ applied' = [applied EXCEPT ![call[p].node] = @ \cup {it}]
      /\ ran' = [ran EXCEPT ![p] = r]
      /\ ok' = [ok EXCEPT ![p] = good]
      /\ UNCHANGED <<cms, pods, call, met>>
  BY <1>2 DEF Exec
<1>4. pods[name(p)] # None /\ pods[name(p)].ready
  BY DEF Exec
<1>5. pods[name(p)] \in Pods /\ pods[name(p)].script # None
  BY <1>1, <1>2, <1>4, AtName
<1>6. pods[name(p)].script \in Scripts /\ pods[name(p)].env \in Envs
  BY <1>5 DEF Pods
<1>7. call[p].node \in Nodes /\ call[p].action \in Actions
  BY <1>2 DEF Requests
<1>8. it \in [action : Actions, script : Scripts, env : Envs] /\ r \in Runs
  BY <1>6, <1>7 DEF Runs
<1>9. r # None
  BY <1>8, RunScriptAssumption
<1>10. ~met[p] => r = [node |-> call[p].node, script |-> call[p].script, env |-> call[p].env]
  BY <1>1, <1>4, <1>5 DEF Told, ScriptInv, ownScript
<1> HIDE DEF it, r
<1>11. /\ applied' \in [Nodes -> SUBSET [action : Actions, script : Scripts, env : Envs]]
       /\ \A n \in Nodes : applied[n] \subseteq applied'[n]
       /\ applied'[call[p].node] # {}
  BY <1>3, <1>7, <1>8 DEF Told, ScriptInv
<1>12. /\ ran' \in [Procs -> Runs \cup {None}] /\ ok' \in [Procs -> BOOLEAN] /\ at' \in [Procs -> Places]
       /\ at'[p] = "dropPod" /\ ran'[p] = r
       /\ \A q \in Procs : q # p => at'[q] = at[q] /\ ran'[q] = ran[q] /\ ok'[q] = ok[q]
  BY <1>1, <1>3, <1>8 DEF Told, ScriptInv, Places
<1>13. \A q \in Procs : name(q)' = name(q)
  BY <1>3 DEF name
<1>14. ranInv(p)'
  BY <1>2, <1>3, <1>9, <1>11, <1>12, RunScriptAssumption DEF ranInv
<1>15. ASSUME NEW q \in Procs, q # p PROVE ranInv(q)'
  <2>1. CASE ran[q] # None
    <3>1. at[q] # "idle" /\ ranInv(q)
      BY <2>1 DEF Told, ScriptInv, ranInv
    <3>2. call[q].node \in Nodes
      BY <3>1, NameType DEF Told, Requests
    <3> QED
      BY <3>1, <3>2, <1>3, <1>11, <1>12, <1>15 DEF ranInv
  <2>2. CASE ran[q] = None
    BY <2>2, <1>3, <1>12, <1>15 DEF Told, ScriptInv, ranInv
  <2> QED BY <2>1, <2>2
<1>16. \A q \in Procs : met'[q] \/ ownScript(q)'
  <2>1. ownScript(p)'
    BY <1>12 DEF ownScript
  <2>2. ASSUME NEW q \in Procs, q # p, ~met[q] PROVE ownScript(q)'
    BY <2>2, <1>3, <1>12, <1>13 DEF Told, ScriptInv, ownScript
  <2> QED BY <2>1, <2>2, <1>3
<1>17. \A q, x \in Procs : q = x \/ meetKnown(q, x)'
  BY <1>1, <1>3, <1>12, <1>13 DEF Told, ScriptInv, meetKnown
<1>18. RunsOwnScript'
  BY <1>3, <1>10, <1>12 DEF Told, RunsOwnScript
<1> QED
  BY <1>3, <1>11, <1>12, <1>14, <1>15, <1>16, <1>17, <1>18 DEF Told, ScriptInv

\* A caller begins; whoever uses the name already has met it.
LEMMA CallKeeps ==
    ASSUME Told, NEW p \in Procs, NEW c \in Requests, Call(p, c) PROVE Told'
<1>1. at[p] = "idle" /\ at' = [at EXCEPT ![p] = "cm"] /\ call' = [call EXCEPT ![p] = c]
  BY DEF Call, goto
<1>2. UNCHANGED <<cms, pods, applied, ok, ran>>
  BY DEF Call
<1>3. /\ at' \in [Procs -> Places] /\ at'[p] = "cm" /\ \A q \in Procs : q # p => at'[q] = at[q]
      /\ call' \in [Procs -> Requests \cup {None}] /\ call'[p] = c /\ \A q \in Procs : q # p => call'[q] = call[q]
  BY <1>1 DEF Told, ScriptInv, Places
<1>4. met' \in [Procs -> BOOLEAN] /\ \A q \in Procs : q # p => (met[q] => met'[q])
  BY DEF Call, Told, ScriptInv
<1>5. \A q \in Procs : q # p /\ at[q] \in Inside /\ call[q].action = c.action /\ call[q].node = c.node
                        => met'[q] /\ met'[p]
  BY DEF Call, Told, ScriptInv
<1>6. name(p)' = <<c.action, c.node>> /\ \A q \in Procs : q # p => name(q)' = name(q)
  BY <1>3 DEF name
<1>7. ran[p] = None /\ ~ok[p]
  BY <1>1 DEF Told, ScriptInv, ranInv
<1>8. \A q \in Procs : ranInv(q)'
  BY <1>2, <1>3, <1>7, RunScriptAssumption DEF Told, ScriptInv, ranInv
<1>9. \A q \in Procs : met'[q] \/ ownScript(q)'
  <2>1. ownScript(p)'
    BY <1>3 DEF ownScript
  <2>2. ASSUME NEW q \in Procs, q # p, ~met'[q] PROVE ownScript(q)'
    BY <2>2, <1>2, <1>3, <1>4, <1>6 DEF Told, ScriptInv, ownScript
  <2> QED BY <2>1, <2>2
<1>10. \A q, r \in Procs : q = r \/ meetKnown(q, r)'
  <2>1. ASSUME NEW q \in Procs, q # p, at'[q] \in Inside, name(q)' = name(p)' PROVE met'[q] /\ met'[p]
    BY <2>1, <1>3, <1>5, <1>6 DEF name
  <2>2. ASSUME NEW q \in Procs, NEW r \in Procs, q # p, r # p, q # r PROVE meetKnown(q, r)'
    BY <2>2, <1>3, <1>4, <1>6 DEF Told, ScriptInv, meetKnown
  <2> QED BY <2>1, <2>2 DEF meetKnown
<1>11. RunsOwnScript'
  BY <1>2, <1>3, <1>4, <1>7 DEF Told, RunsOwnScript
<1> QED
  BY <1>2, <1>3, <1>4, <1>8, <1>9, <1>10, <1>11 DEF Told, ScriptInv

\* The caller leaves RunScript, or dies in it.
LEMMA ForgetKeeps ==
    ASSUME Told, NEW p \in Procs, at' = [at EXCEPT ![p] = "idle"], forget(p), UNCHANGED <<cms, pods, applied>>
    PROVE  Told'
<1>1. /\ at' \in [Procs -> Places] /\ call' \in [Procs -> Requests \cup {None}]
      /\ ok' \in [Procs -> BOOLEAN] /\ met' \in [Procs -> BOOLEAN] /\ ran' \in [Procs -> Runs \cup {None}]
      /\ at'[p] = "idle" /\ ran'[p] = None /\ ok'[p] = FALSE
  BY DEF Told, ScriptInv, forget, Places
<1>2. \A q \in Procs : q # p => /\ at'[q] = at[q] /\ call'[q] = call[q] /\ ok'[q] = ok[q]
                                 /\ met'[q] = met[q] /\ ran'[q] = ran[q]
  BY DEF Told, ScriptInv, forget
<1>3. \A q \in Procs : q # p => name(q)' = name(q)
  BY <1>2 DEF name
<1>4. \A q \in Procs : ranInv(q)'
  <2>1. ranInv(p)'
    BY <1>1 DEF ranInv
  <2>2. ASSUME NEW q \in Procs, q # p PROVE ranInv(q)'
    BY <2>2, <1>2 DEF Told, ScriptInv, ranInv
  <2> QED BY <2>1, <2>2
<1>5. \A q \in Procs : met'[q] \/ ownScript(q)'
  BY <1>1, <1>2, <1>3 DEF Told, ScriptInv, ownScript
<1>6. \A q, r \in Procs : q = r \/ meetKnown(q, r)'
  BY <1>1, <1>2, <1>3 DEF Told, ScriptInv, meetKnown, Inside
<1>7. RunsOwnScript'
  BY <1>1, <1>2 DEF Told, RunsOwnScript
<1> QED
  BY <1>1, <1>4, <1>5, <1>6, <1>7 DEF Told, ScriptInv

LEMMA ScriptStutter ==
    ASSUME Told, UNCHANGED scriptVars PROVE Told'
BY DEF Told, ScriptInv, RunsOwnScript, scriptVars, ranInv, ownScript, meetKnown, name

\* What RunScript does to its caller: it may forget what was asked of it.
LEMMA ScriptStepKeeps ==
    ASSUME Told, NEW p \in Procs, ScriptStep(p)
    PROVE  Told' /\ \A n \in Nodes : applied[n] \subseteq applied'[n]
<1>1. CASE Exec(p, TRUE)
  BY <1>1, ExecKeeps
<1>2. CASE ~Exec(p, TRUE)
  <2>1. UNCHANGED applied
    BY <1>2 DEF ScriptStep, DeleteConfigmap, CreateConfigMapWithData, DeletePod, CreateScriptsPod,
                WaitUntilPodReady, PodGone, DropPod, DropCm
  <2> QED
    BY <1>2, <2>1, DeleteConfigmapKeeps, CreateConfigMapKeeps, DeletePodKeeps, CreateScriptsPodKeeps,
       WaitUntilPodReadyKeeps, PodGoneKeeps, DropPodKeeps, DropCmKeeps DEF ScriptStep
<1> QED BY <1>1, <1>2

\* A step inside RunScript stays inside the call.
LEMMA ScriptStepCall ==
    ASSUME Told, NEW p \in Procs, ScriptStep(p) \/ ScriptFails(p) \/ Exec(p, FALSE)
    PROVE  /\ at[p] # "idle" /\ call' = call
           /\ \A q \in Procs : q # p => at'[q] = at[q]
BY DEF ScriptStep, DeleteConfigmap, CreateConfigMapWithData, DeletePod, CreateScriptsPod,
       WaitUntilPodReady, PodGone, Exec, DropPod, DropCm, ScriptFails, goto, Told, ScriptInv

-----------------------------------------------------------------------------
(* What a step of RunScript does to the others                              *)

Working(p) == ScriptStep(p) \/ ScriptFails(p) \/ Exec(p, FALSE)

OwnOnly(p) ==
    /\ UNCHANGED <<call, met>>
    /\ \A q \in Procs \ {p} : at'[q] = at[q] /\ ok'[q] = ok[q] /\ ran'[q] = ran[q]
    /\ \A n \in Names \ {name(p)} : cms'[n] = cms[n] /\ pods'[n] = pods[n]

LEMMA WorkingOwn ==
    ASSUME Told, NEW p \in Procs, Working(p)
    PROVE  at[p] \in Inside /\ OwnOnly(p) /\ name(p) \in Names
<1>1. at[p] \in Inside
  BY DEF Working, ScriptStep, DeleteConfigmap, CreateConfigMapWithData, DeletePod, CreateScriptsPod,
         WaitUntilPodReady, PodGone, Exec, DropPod, DropCm, ScriptFails, goto, Inside, Places
<1>2. name(p) \in Names
  BY <1>1, AtName
<1> USE DEF OwnOnly, goto, Told, ScriptInv
<1>3. CASE DeleteConfigmap(p)
  BY <1>1, <1>2, <1>3 DEF DeleteConfigmap
<1>4. CASE CreateConfigMapWithData(p)
  BY <1>1, <1>2, <1>4 DEF CreateConfigMapWithData
<1>5. CASE DeletePod(p)
  BY <1>1, <1>2, <1>5 DEF DeletePod
<1>6. CASE CreateScriptsPod(p)
  BY <1>1, <1>2, <1>6 DEF CreateScriptsPod
<1>7. CASE WaitUntilPodReady(p) \/ PodGone(p) \/ ScriptFails(p)
  BY <1>1, <1>2, <1>7 DEF WaitUntilPodReady, PodGone, ScriptFails
<1>8. ASSUME NEW good \in BOOLEAN, Exec(p, good) PROVE OwnOnly(p)
  BY <1>1, <1>2, <1>8 DEF Exec
<1>9. CASE DropPod(p)
  BY <1>1, <1>2, <1>9 DEF DropPod
<1>10. CASE DropCm(p)
  BY <1>1, <1>2, <1>10 DEF DropCm
<1> QED
  BY <1>1, <1>2, <1>3, <1>4, <1>5, <1>6, <1>7, <1>8, <1>9, <1>10 DEF Working, ScriptStep

\* What is written: the caller's script into its config map, an empty pod,
\* and what the pod has mounted onto the node.
Writes(p) ==
    /\ \A n \in Names : cms'[n] \in {cms[n], None} \/ (n = name(p) /\ cms'[n] = call[p].script)
    /\ \A n \in Names : pods'[n] \in {pods[n], None} \/ pods'[n].script = None
    /\ \A n \in Nodes : applied'[n] = applied[n] \/
           /\ n = call[p].node /\ pods[name(p)] # None /\ pods[name(p)].script # None
           /\ \E e \in [action : {call[p].action}, script : {pods[name(p)].script}, env : Envs] :
                  applied'[n] = applied[n] \cup {e}
    /\ ran'[p] # None => ran'[p] = ran[p] \/
           \E e \in applied'[call[p].node] : e.action = call[p].action

LEMMA WorkingWrites ==
    ASSUME Told, NEW p \in Procs, Working(p)
    PROVE  Writes(p)
<1>1. at[p] \in Inside
  BY WorkingOwn
<1>2. name(p) \in Names /\ call[p] \in Requests
  BY <1>1, AtName
<1> USE DEF Writes, goto, Told, ScriptInv
<1>3. CASE DeleteConfigmap(p)
  BY <1>2, <1>3 DEF DeleteConfigmap
<1>4. CASE CreateConfigMapWithData(p)
  BY <1>2, <1>4 DEF CreateConfigMapWithData
<1>5. CASE DeletePod(p)
  BY <1>2, <1>5 DEF DeletePod
<1>6. CASE CreateScriptsPod(p)
  BY <1>2, <1>6 DEF CreateScriptsPod
<1>7. CASE WaitUntilPodReady(p) \/ PodGone(p) \/ ScriptFails(p)
  BY <1>2, <1>7 DEF WaitUntilPodReady, PodGone, ScriptFails
<1>8. ASSUME NEW good \in BOOLEAN, Exec(p, good) PROVE Writes(p)
  <2> DEFINE it == [action |-> call[p].action, script |-> pods[name(p)].script, env |-> pods[name(p)].env]
  <2>1. /\ UNCHANGED <<cms, pods, call>> /\ name(p)[2] = call[p].node /\ call[p].node \in Nodes
        /\ call[p].action \in Actions
        /\ pods[name(p)] \in Pods /\ pods[name(p)].script # None /\ pods[name(p)].script \in Scripts
        /\ pods[name(p)].env \in Envs
    BY <1>1, <1>2, <1>8, NameType, AtName DEF Exec, Inside, Pods, Requests
  <2>2. /\ applied' = [applied EXCEPT ![call[p].node] = @ \cup {it}]
        /\ ran'[p] = [node |-> call[p].node, script |-> it.script, env |-> it.env]
    BY <1>8, <2>1 DEF Exec
  <2>3. it \in [action : {call[p].action}, script : {pods[name(p)].script}, env : Envs] /\ pods[name(p)] # None
    BY <1>8, <2>1 DEF Exec
  <2>4. applied'[call[p].node] = applied[call[p].node] \cup {it}
        /\ \A n \in Nodes : n # call[p].node => applied'[n] = applied[n]
    BY <2>1, <2>2
  <2>5. \E e \in applied'[call[p].node] : e.action = call[p].action
    <3>1. it \in applied'[call[p].node] /\ it.action = call[p].action
      BY <2>4
    <3> QED BY <3>1
  <2> HIDE DEF it
  <2> QED
    BY <2>1, <2>3, <2>4, <2>5
<1>9. CASE DropPod(p)
  BY <1>2, <1>9 DEF DropPod
<1>10. CASE DropCm(p)
  BY <1>2, <1>10 DEF DropCm
<1> QED
  BY <1>3, <1>4, <1>5, <1>6, <1>7, <1>8, <1>9, <1>10 DEF Working, ScriptStep

-----------------------------------------------------------------------------
(* Without errors of the API                                                *)

\* Whoever is alone finds its pod, and gets to the end of its script.
succeeds(p) ==
    /\ at[p] = "createCm" => cms[name(p)] = None
    /\ at[p] = "ready" => pods[name(p)] # None
    /\ at[p] = "exec" => pods[name(p)] # None /\ pods[name(p)].ready
    /\ at[p] \in {"dropPod", "dropCm", "done"} => ok[p]

Undisturbed == \A p \in Procs : met[p] \/ succeeds(p)

\* Someone is going to remove what is there.
CmPlaces == {"pod", "createPod", "ready", "exec", "dropPod", "dropCm"}
PodPlaces == {"ready", "exec", "dropPod"}
Owned ==
    /\ \A n \in Names : cms[n] # None => \E p \in Procs : at[p] \in CmPlaces /\ name(p) = n
    /\ \A n \in Names : pods[n] # None => \E p \in Procs : at[p] \in PodPlaces /\ name(p) = n

\* Another process is not disturbed: it uses another name or has met p.
LEMMA OthersSucceed ==
    ASSUME Told, NEW p \in Procs, at[p] \in Inside, OwnOnly(p), NEW q \in Procs, q # p,
           ~met[q], succeeds(q)
    PROVE  succeeds(q)'
<1>1. name(q)' = name(q) /\ at'[q] = at[q] /\ ok'[q] = ok[q]
  BY DEF OwnOnly, name
<1>2. CASE at[q] \in Inside
  <2>1. name(q) # name(p) /\ name(q) \in Names
    BY <1>2, AtName DEF Told, ScriptInv, meetKnown
  <2> QED
    BY <1>1, <2>1 DEF OwnOnly, succeeds
<1>3. CASE at[q] \notin Inside
  BY <1>1, <1>3 DEF succeeds, Inside, Places
<1> QED BY <1>2, <1>3

LEMMA StepSucceeds ==
    ASSUME Told, NEW p \in Procs, ScriptStep(p), ~met[p], succeeds(p)
    PROVE  succeeds(p)'
<1>1. at[p] \in Inside /\ name(p)' = name(p) /\ name(p) \in Names /\ call[p].script # None
      /\ pods[name(p)] \in Pods \cup {None} /\ cms[name(p)] \in Scripts \cup {None} /\ ownScript(p)
  BY WorkingOwn, AtName, RunScriptAssumption DEF Working, OwnOnly, name, Told, ScriptInv
<1> USE DEF succeeds, goto, Told, ScriptInv
<1>2. CASE DeleteConfigmap(p)
  BY <1>1, <1>2 DEF DeleteConfigmap
<1>3. CASE CreateConfigMapWithData(p)
  BY <1>1, <1>3 DEF CreateConfigMapWithData
<1>4. CASE DeletePod(p)
  BY <1>1, <1>4 DEF DeletePod
<1>5. CASE CreateScriptsPod(p)
  <2>1. at[p] = "createPod" /\ pods[name(p)] = None
    BY <1>1, <1>5 DEF CreateScriptsPod, ownScript
  <2> DEFINE w == [env |-> call[p].env, script |-> None, ready |-> FALSE]
  <2>2. call[p].env \in Envs
    BY <1>1, AtName
  <2>3. w \in Pods
    BY <2>2 DEF Pods
  <2>4. w # None
    BY <2>3, RunScriptAssumption
  <2>5. at' = [at EXCEPT ![p] = "ready"] /\ pods' = [pods EXCEPT ![name(p)] = w]
    BY <2>1, <1>5 DEF CreateScriptsPod
  <2> HIDE DEF w
  <2> QED
    BY <1>1, <2>4, <2>5
<1>6. CASE WaitUntilPodReady(p)
  BY <1>1, <1>6 DEF WaitUntilPodReady
<1>7. CASE PodGone(p)
  <2>1. at[p] \in {"ready", "exec"} /\ cms[name(p)] # None /\ pods[name(p)] # None
    BY <1>1, <1>7 DEF PodGone, ownScript
  <2> QED
    BY <1>7, <2>1 DEF PodGone
<1>8. CASE Exec(p, TRUE)
  BY <1>1, <1>8 DEF Exec
<1>9. CASE DropPod(p)
  BY <1>1, <1>9 DEF DropPod
<1>10. CASE DropCm(p)
  BY <1>1, <1>10 DEF DropCm
<1> QED
  BY <1>2, <1>3, <1>4, <1>5, <1>6, <1>7, <1>8, <1>9, <1>10 DEF ScriptStep

LEMMA StepUndisturbed ==
    ASSUME Told, Undisturbed, NEW p \in Procs, ScriptStep(p) PROVE Undisturbed'
<1>1. at[p] \in Inside /\ OwnOnly(p)
  BY WorkingOwn DEF Working
<1>2. \A q \in Procs : q # p /\ ~met[q] => succeeds(q)'
  BY <1>1, OthersSucceed DEF Undisturbed
<1>3. ~met[p] => succeeds(p)'
  BY StepSucceeds DEF Undisturbed
<1>4. met' = met
  BY <1>1 DEF OwnOnly
<1> QED
  BY <1>2, <1>3, <1>4 DEF Undisturbed

LEMMA MountUndisturbed ==
    ASSUME Told, Undisturbed, NEW n \in Names, Mount(n) PROVE Undisturbed'
<1> DEFINE w == [pods[n] EXCEPT !.script = cms[n], !.ready = TRUE]
<1>1. pods[n] \in Pods /\ cms[n] \in Scripts
  BY DEF Mount, Told, ScriptInv, Pods
<1>2. pods' = [pods EXCEPT ![n] = w]
  BY <1>1 DEF Mount, Pods, Told, ScriptInv
<1>3. w \in Pods /\ w.ready
  BY <1>1 DEF Pods
<1>4. w # None
  BY <1>3, RunScriptAssumption
<1> HIDE DEF w
<1>5. pods'[n] = w /\ \A m \in Names : m # n => pods'[m] = pods[m]
  BY <1>2 DEF Told, ScriptInv
<1>6. UNCHANGED <<cms, at, call, ok, met>>
  BY DEF Mount
<1>7. ASSUME NEW q \in Procs, ~met[q] PROVE succeeds(q)'
  <2>1. succeeds(q) /\ name(q)' = name(q)
    BY <1>6, <1>7 DEF Undisturbed, name
  <2>2. at[q] \in {"ready", "exec"} => name(q) \in Names
    BY AtName DEF Inside, Places
  <2> QED
    BY <2>1, <2>2, <1>3, <1>4, <1>5, <1>6 DEF succeeds
<1> QED
  BY <1>6, <1>7 DEF Undisturbed

LEMMA CallUndisturbed ==
    ASSUME Told, Undisturbed, NEW p \in Procs, NEW c \in Requests, Call(p, c) PROVE Undisturbed'
<1>1. at[p] = "idle" /\ at'[p] = "cm" /\ \A q \in Procs : q # p => at'[q] = at[q] /\ call'[q] = call[q]
  BY DEF Call, goto, Told, ScriptInv
<1>2. UNCHANGED <<cms, pods, ok>>
  BY DEF Call
<1>3. \A q \in Procs : q # p => (met[q] => met'[q])
  BY DEF Call, Told, ScriptInv
<1>4. succeeds(p)'
  BY <1>1 DEF succeeds
<1>5. ASSUME NEW q \in Procs, q # p, ~met'[q] PROVE succeeds(q)'
  BY <1>1, <1>2, <1>3, <1>5 DEF Undisturbed, succeeds, name
<1> QED
  BY <1>4, <1>5 DEF Undisturbed

LEMMA ForgetUndisturbed ==
    ASSUME Told, Undisturbed, NEW p \in Procs, at' = [at EXCEPT ![p] = "idle"], forget(p), UNCHANGED <<cms, pods>>
    PROVE  Undisturbed'
<1>1. at'[p] = "idle" /\ \A q \in Procs : q # p => /\ at'[q] = at[q] /\ call'[q] = call[q]
                                                 /\ ok'[q] = ok[q] /\ met'[q] = met[q]
  BY DEF forget, Told, ScriptInv
<1>2. succeeds(p)'
  BY <1>1 DEF succeeds
<1>3. ASSUME NEW q \in Procs, q # p, ~met'[q] PROVE succeeds(q)'
  BY <1>1, <1>3 DEF Undisturbed, succeeds, name
<1> QED
  BY <1>2, <1>3 DEF Undisturbed

LEMMA StepOwned ==
    ASSUME Told, Owned, NEW p \in Procs, ScriptStep(p) PROVE Owned'
<1>1. at[p] \in Inside /\ OwnOnly(p) /\ name(p) \in Names /\ \A q \in Procs : name(q)' = name(q)
  BY WorkingOwn DEF Working, OwnOnly, name
<1>2. at \in [Procs -> Places] /\ cms \in [Names -> Scripts \cup {None}] /\ pods \in [Names -> Pods \cup {None}]
  BY DEF Told, ScriptInv
<1>3. /\ at[p] \in CmPlaces /\ at'[p] \notin CmPlaces => cms'[name(p)] = None
      /\ cms'[name(p)] # None /\ cms[name(p)] = None => at'[p] \in CmPlaces
      /\ at[p] \in PodPlaces /\ at'[p] \notin PodPlaces => pods'[name(p)] = None
      /\ pods'[name(p)] # None /\ pods[name(p)] = None => at'[p] \in PodPlaces
  <2> USE <1>1, <1>2 DEF CmPlaces, PodPlaces, goto
  <2>1. CASE DeleteConfigmap(p)
    BY <2>1 DEF DeleteConfigmap
  <2>2. CASE CreateConfigMapWithData(p)
    BY <2>2 DEF CreateConfigMapWithData
  <2>3. CASE DeletePod(p)
    BY <2>3 DEF DeletePod
  <2>4. CASE CreateScriptsPod(p)
    BY <2>4 DEF CreateScriptsPod
  <2>5. CASE WaitUntilPodReady(p) \/ PodGone(p) \/ Exec(p, TRUE)
    BY <2>5 DEF WaitUntilPodReady, PodGone, Exec
  <2>6. CASE DropPod(p)
    BY <2>6 DEF DropPod
  <2>7. CASE DropCm(p)
    BY <2>7 DEF DropCm
  <2> QED
    BY <2>1, <2>2, <2>3, <2>4, <2>5, <2>6, <2>7 DEF ScriptStep
<1>4. ASSUME NEW n \in Names, cms'[n] # None
      PROVE  \E q \in Procs : at'[q] \in CmPlaces /\ name(q) = n
  <2>1. CASE n = name(p)
    <3>1. CASE at'[p] \in CmPlaces
      BY <2>1, <3>1
    <3>2. CASE at'[p] \notin CmPlaces
      <4>1. at[p] \notin CmPlaces /\ cms[n] # None
        BY <1>3, <1>4, <2>1, <3>2
      <4>2. PICK q \in Procs : at[q] \in CmPlaces /\ name(q) = n
        BY <4>1 DEF Owned
      <4> QED BY <4>1, <4>2, <1>1 DEF OwnOnly
    <3> QED BY <3>1, <3>2
  <2>2. CASE n # name(p)
    <3>1. cms[n] # None
      BY <1>1, <1>4, <2>2 DEF OwnOnly
    <3>2. PICK q \in Procs : at[q] \in CmPlaces /\ name(q) = n
      BY <3>1 DEF Owned
    <3> QED BY <2>2, <3>2, <1>1 DEF OwnOnly
  <2> QED BY <2>1, <2>2
<1>5. ASSUME NEW n \in Names, pods'[n] # None
      PROVE  \E q \in Procs : at'[q] \in PodPlaces /\ name(q) = n
  <2>1. CASE n = name(p)
    <3>1. CASE at'[p] \in PodPlaces
      BY <2>1, <3>1
    <3>2. CASE at'[p] \notin PodPlaces
      <4>1. at[p] \notin PodPlaces /\ pods[n] # None
        BY <1>3, <1>5, <2>1, <3>2
      <4>2. PICK q \in Procs : at[q] \in PodPlaces /\ name(q) = n
        BY <4>1 DEF Owned
      <4> QED BY <4>1, <4>2, <1>1 DEF OwnOnly
    <3> QED BY <3>1, <3>2
  <2>2. CASE n # name(p)
    <3>1. pods[n] # None
      BY <1>1, <1>5, <2>2 DEF OwnOnly
    <3>2. PICK q \in Procs : at[q] \in PodPlaces /\ name(q) = n
      BY <3>1 DEF Owned
    <3> QED BY <2>2, <3>2, <1>1 DEF OwnOnly
  <2> QED BY <2>1, <2>2
<1> QED
  BY <1>1, <1>4, <1>5 DEF Owned

\* Whoever is not inside owns nothing, and a pod that is mounted was there.
LEMMA OtherOwned ==
    ASSUME Told, Owned,
           \A n \in Names : cms'[n] = cms[n] /\ (pods[n] = None => pods'[n] = None),
           \A q \in Procs : at[q] \in Inside => at'[q] = at[q] /\ call'[q] = call[q]
    PROVE  Owned'
<1>1. CmPlaces \subseteq Inside /\ PodPlaces \subseteq Inside
  BY DEF CmPlaces, PodPlaces, Inside, Places
<1>2. \A q \in Procs : at[q] \in Inside => name(q)' = name(q)
  BY DEF name
<1>3. ASSUME NEW n \in Names, cms'[n] # None
      PROVE  \E q \in Procs : at'[q] \in CmPlaces /\ name(q)' = n
  <2>1. PICK q \in Procs : at[q] \in CmPlaces /\ name(q) = n
    BY <1>3 DEF Owned
  <2> QED BY <2>1, <1>1, <1>2
<1>4. ASSUME NEW n \in Names, pods'[n] # None
      PROVE  \E q \in Procs : at'[q] \in PodPlaces /\ name(q)' = n
  <2>1. PICK q \in Procs : at[q] \in PodPlaces /\ name(q) = n
    BY <1>4 DEF Owned
  <2> QED BY <2>1, <1>1, <1>2
<1> QED
  BY <1>3, <1>4 DEF Owned
=============================================================================
