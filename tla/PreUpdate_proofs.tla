-------------------------- MODULE PreUpdate_proofs --------------------------
(***************************************************************************)
(* Pre-updates, for any number of processes, nodes and circumstances: the  *)
(* scripts are the caller's own and leave nothing behind, workloads move   *)
(* to the current tag after the images of a node, the monitor comes last,  *)
(* and a command without errors settles the cluster.                       *)
(***************************************************************************)
EXTENDS PreUpdate, RunScript_proofs, TLAPS

Results == {"new", "runs", "ok", "failed", "killed"}
ApplyPhases == {"applyKubeProxy", "applyCoreDNS", "applyFlannel", "applyUI"}
AppPhases == {"kubeProxy", "coreDNS", "flannel", "ui"} \cup ApplyPhases

\* A step of the update of an application.
AppStep(p, a) == UpdateApp(p, a) \/ ApplyApp(p, a) \/ UpdateAppRefused(p, a) \/ ApplyAppFails(p, a)

Typing ==
    /\ world \in Worlds
    /\ workload \in [Apps -> {"absent", "foreign", "old", "current"}]
    /\ release \in [Apps \cup {Monitor} -> {"none", "untagged", "old", "pending", "current"}]
    /\ phase \in [Procs -> Phases]
    /\ nodes \in [Procs -> SUBSET Nodes]
    /\ seen \in [Procs -> [Nodes -> SUBSET Apps]]
    /\ tags \in [Procs -> SUBSET Apps]
    /\ good \in [Procs -> BOOLEAN] /\ bad \in [Procs -> BOOLEAN] /\ clean \in [Procs -> BOOLEAN]
    /\ result \in [Procs -> Results]

\* The script that a step of Update runs.
scriptOf(s) ==
    CASE s = "tag" -> "tag-images" [] s = "check" -> "check-ips" [] OTHER -> "upgrade-vips"

placeInv(p) ==
    /\ phase[p] = "idle" => at[p] = "idle" /\ nodes[p] = {}
    /\ at[p] # "idle" => /\ phase[p] \in {"tag", "check", "upgrade"}
                         /\ call[p].node \in nodes[p]
                         /\ call[p].action = scriptOf(phase[p])
    /\ phase[p] = "idle" <=> result[p] # "runs"
    /\ phase[p] \in {"idle", "tags"} => ~good[p] /\ ~bad[p]
    /\ phase[p] \in {"tags", "tag"} \cup AppPhases => world.old # {}

Control == Told /\ Typing /\ \A p \in Procs : placeInv(p)

-----------------------------------------------------------------------------
(* The scripts                                                              *)

Alone == world.serial =>
    /\ \A p, q \in Procs : p # q => result[p] = "new" \/ result[q] = "new"
    /\ \A p \in Procs : ~met[p]

Tidy ==
    /\ "api" \notin world.faults => Undisturbed
    /\ {"api", "kill"} \cap world.faults = {} => Owned

-----------------------------------------------------------------------------
(* The images                                                               *)

\* What the commands care for: images of our registry that all nodes have.
Ours == {a \in Apps : present(a) /\ world.workload[a] = "old"}

Covers(S, n) == Ours \subseteq S \cup current(n)

Careful == world.serial /\ "api" \notin world.faults

ImagesThere ==
    /\ \E n \in Nodes : Ours \subseteq current(n)
    /\ Careful => \A n \in Nodes : Ours \subseteq current(n)

\* Whatever is called, stored, mounted or was executed to tag images on a node
\* tags all of ours that are not tagged yet.
ScriptsCover ==
    /\ \A n \in Nodes :
        /\ cms[<<"tag-images", n>>] # None => Covers(cms[<<"tag-images", n>>], n)
        /\ pods[<<"tag-images", n>>] # None /\ pods[<<"tag-images", n>>].script # None =>
               Covers(pods[<<"tag-images", n>>].script, n)
        /\ \A e \in applied[n] : e.action = "tag-images" => Ours \subseteq current(n)
    /\ \A p \in Procs : at[p] # "idle" /\ call[p].action = "tag-images" => Covers(call[p].script, call[p].node)
    /\ \A p \in Procs : ran[p] # None => \E e \in applied[call[p].node] : e.action = call[p].action

tagInv(p) ==
    /\ \A n \in Nodes : seen[p][n] \subseteq current(n)
    /\ phase[p] = "tag" =>
        /\ Ours \subseteq tags[p]
        /\ good[p] => \E n \in Nodes : Ours \subseteq current(n)
        /\ nodes[p] # Nodes => good[p] \/ bad[p]
        /\ Careful => ~bad[p] /\ \A n \in Nodes \ nodes[p] : Ours \subseteq current(n)
    /\ phase[p] \in AppPhases => ImagesThere

Images ==
    /\ ScriptsCover
    /\ \A p \in Procs : tagInv(p)
    /\ \A a \in Ours : workload[a] \in {"old", "current"} /\ (workload[a] = "current" => ImagesThere)

-----------------------------------------------------------------------------
(* The virtual IP and the end                                               *)

vipInv(p) ==
    /\ phase[p] = "upgrade" => \A n \in world.cps \ nodes[p] : handedOver(n)
    /\ phase[p] = "monitor" => \A n \in world.cps : handedOver(n)

HandOver ==
    /\ \A p \in Procs : vipInv(p)
    /\ release[Monitor] \in {"none", "current"}
    /\ MonitorLast

\* What has been done about an application.
doneApp(a) == workload[a] = "current" \/ release[a] = "pending" \/ notOurs(a)

VipPhases == {"vip", "check", "upgrade", "monitor"}
past(a) ==
    CASE a = "kubeProxy" -> {"coreDNS", "flannel", "ui", "applyCoreDNS", "applyFlannel", "applyUI"} \cup VipPhases
      [] a = "coreDNS" -> {"flannel", "ui", "applyFlannel", "applyUI"} \cup VipPhases
      [] a = "flannel" -> {"ui", "applyUI"} \cup VipPhases
      [] a = "ui" -> VipPhases

settleInv(p) ==
    clean[p] =>
        /\ world.old # {} => \A a \in Apps : (phase[p] \in past(a) \/ result[p] = "ok") => doneApp(a)
        /\ result[p] = "ok" /\ world.vip = "vip" => release[Monitor] = "current"

Unfinished == \A a \in Apps : release[a] = "pending" => interrupted(a)

Settling ==
    /\ \A p \in Procs : settleInv(p)
    /\ \A a \in Apps : release[a] = "current" => workload[a] = "current"
    /\ Unfinished

-----------------------------------------------------------------------------
(* Types and control                                                        *)

\* The variables of Update that a step of p may change for p.
Others(p) ==
    \A q \in Procs \ {p} :
        /\ phase'[q] = phase[q] /\ nodes'[q] = nodes[q] /\ seen'[q] = seen[q] /\ tags'[q] = tags[q]
        /\ good'[q] = good[q] /\ bad'[q] = bad[q] /\ clean'[q] = clean[q] /\ result'[q] = result[q]
        /\ at'[q] = at[q] /\ call'[q] = call[q] /\ ran'[q] = ran[q] /\ ok'[q] = ok[q]

OwnStep(p) == Typing' /\ Others(p) /\ placeInv(p)'

LEMMA WorldType ==
    ASSUME world \in Worlds
    PROVE  /\ world.cps \subseteq Nodes /\ world.old \subseteq Nodes
           /\ world.images \in [Nodes -> SUBSET Apps]
           /\ world.workload \in [Apps -> {"absent", "foreign", "old"}]
           /\ world.release \in [Apps -> {"none", "untagged", "old"}]
           /\ world.vip \in {"onNode", "capi", "none", "vip"}
           /\ world.serial \in BOOLEAN
BY PreUpdateAssumption

LEMMA EndDoes ==
    ASSUME Control, NEW p \in Procs, NEW r \in {"ok", "failed", "killed"}, end(p, r)
    PROVE  /\ phase' \in [Procs -> Phases] /\ nodes' \in [Procs -> SUBSET Nodes]
           /\ seen' \in [Procs -> [Nodes -> SUBSET Apps]] /\ tags' \in [Procs -> SUBSET Apps]
           /\ good' \in [Procs -> BOOLEAN] /\ bad' \in [Procs -> BOOLEAN]
           /\ result' \in [Procs -> Results]
           /\ phase'[p] = "idle" /\ nodes'[p] = {} /\ ~good'[p] /\ ~bad'[p] /\ result'[p] = r
           /\ \A n \in Nodes : seen'[p][n] = {}
           /\ \A q \in Procs \ {p} :
                  /\ phase'[q] = phase[q] /\ nodes'[q] = nodes[q] /\ seen'[q] = seen[q] /\ tags'[q] = tags[q]
                  /\ good'[q] = good[q] /\ bad'[q] = bad[q] /\ result'[q] = result[q]
<1>1. [n \in Nodes |-> {}] \in [Nodes -> SUBSET Apps]
  OBVIOUS
<1> QED
  BY <1>1 DEF end, Control, Typing, Phases, Results

LEMMA CurrentType ==
    ASSUME Control, NEW n \in Nodes PROVE current(n) \subseteq Apps
<1>1. applied[n] \in SUBSET [action : Actions, script : SUBSET Apps, env : Envs]
  BY PreUpdateAssumption DEF Control, Told, ScriptInv
<1>2. \A e \in applied[n] : e.script \subseteq Apps
  BY <1>1
<1> QED
  BY <1>2 DEF current

LEMMA BeginOwn ==
    ASSUME Control, NEW p \in Procs, Begin(p) PROVE OwnStep(p)
<1>1. /\ phase[p] = "idle" /\ phase' = [phase EXCEPT ![p] = IF world.old = {} THEN "vip" ELSE "tags"]
      /\ seen' = [seen EXCEPT ![p] = [n \in Nodes |-> current(n)]]
      /\ clean' = [clean EXCEPT ![p] = TRUE] /\ result' = [result EXCEPT ![p] = "runs"]
      /\ UNCHANGED <<scriptVars, clusterVars, nodes, tags, good, bad, world>>
  BY DEF Begin
<1>2. \A n \in Nodes : current(n) \subseteq Apps
  BY CurrentType
<1>3. [n \in Nodes |-> current(n)] \in [Nodes -> SUBSET Apps]
  BY <1>2
<1>4. Typing'
  BY <1>1, <1>3 DEF Control, Typing, clusterVars, Phases, Results
<1>5. Others(p)
  BY <1>1 DEF Others, Control, Typing, scriptVars
<1>6. placeInv(p)'
  BY <1>1 DEF placeInv, Control, Typing, scriptVars, AppPhases, ApplyPhases
<1> QED
  BY <1>4, <1>5, <1>6 DEF OwnStep

LEMMA GetTagsOwn ==
    ASSUME Control, NEW p \in Procs, GetTags(p) PROVE OwnStep(p)
<1> USE DEF GetTags, moveTo, clusterVars, scriptVars, Control
<1>1. Typing'
  BY DEF Typing, Phases
<1>2. Others(p)
  BY DEF Others, Typing
<1>3. placeInv(p)'
  BY DEF placeInv, Typing, AppPhases, ApplyPhases
<1> QED
  BY <1>1, <1>2, <1>3 DEF OwnStep

\* A call that Update makes.
LEMMA CallOwn ==
    ASSUME Control, NEW p \in Procs, NEW c, Call(p, c),
           phase[p] \in {"tag", "check", "upgrade"}, c.node \in nodes[p], c.action = scriptOf(phase[p]),
           UNCHANGED <<updateVars, clusterVars, world>>
    PROVE  OwnStep(p)
<1>1. at' = [at EXCEPT ![p] = "cm"] /\ call' = [call EXCEPT ![p] = c] /\ UNCHANGED <<ok, ran>>
  BY DEF Call, goto
<1>2. Typing'
  BY DEF Control, Typing, updateVars, clusterVars
<1>3. at'[p] = "cm" /\ call'[p] = c /\ \A q \in Procs \ {p} : at'[q] = at[q] /\ call'[q] = call[q]
  BY <1>1 DEF Control, Told, ScriptInv
<1>4. Others(p)
  BY <1>1, <1>3 DEF Others, updateVars
<1>5. placeInv(p)'
  BY <1>3 DEF placeInv, Control, updateVars, AppPhases, ApplyPhases
<1> QED
  BY <1>2, <1>4, <1>5 DEF OwnStep

LEMMA FirstIn ==
    ASSUME NEW S, S # {} PROVE first(S) \in S
BY DEF first

LEMMA TagRequest ==
    ASSUME Control, NEW p \in Procs, NEW n \in Nodes
    PROVE  [action |-> "tag-images", node |-> n, script |-> toTag(p, n), env |-> ""] \in Requests
BY PreUpdateAssumption DEF Requests, toTag

LEMMA VipRequest ==
    ASSUME NEW p \in Procs, NEW n \in Nodes
    PROVE  [action |-> vipScript(p), node |-> n, script |-> {}, env |-> ""] \in Requests
BY PreUpdateAssumption DEF Requests, vipScript

LEMMA TagOnNodeOwn ==
    ASSUME Control, NEW p \in Procs, TagOnNode(p) PROVE OwnStep(p) /\ Told'
<1>1. /\ phase[p] = "tag" /\ at[p] = "idle" /\ nodes[p] # {}
      /\ UNCHANGED <<clusterVars, phase, seen, tags, bad, clean, result, world>>
  BY DEF TagOnNode
<1>2. PICK n : n = first(nodes[p])
  OBVIOUS
<1>3. n \in nodes[p] /\ n \in Nodes
  BY <1>1, <1>2, FirstIn DEF Control, Typing
<1>4. CASE allCurrent(p, n)
  <2>1. /\ nodes' = [nodes EXCEPT ![p] = @ \ {n}] /\ good' = [good EXCEPT ![p] = TRUE]
        /\ UNCHANGED scriptVars
    BY <1>2, <1>4 DEF TagOnNode
  <2>2. Typing'
    BY <1>1, <2>1 DEF Control, Typing, clusterVars
  <2>3. Others(p)
    BY <1>1, <2>1 DEF Control, Others, Typing, scriptVars
  <2>4. placeInv(p)'
    BY <1>1, <2>1 DEF Control, placeInv, scriptVars, AppPhases, ApplyPhases
  <2> QED
    BY <2>1, <2>2, <2>3, <2>4, ScriptStutter DEF OwnStep, Control
<1>5. CASE ~allCurrent(p, n)
  <2>1. PICK c : c = [action |-> "tag-images", node |-> n, script |-> toTag(p, n), env |-> ""]
    OBVIOUS
  <2>2. Call(p, c) /\ UNCHANGED <<nodes, good>>
    BY <1>2, <1>5, <2>1 DEF TagOnNode
  <2>3. c \in Requests /\ c.node = n /\ c.action = scriptOf(phase[p])
    BY <1>1, <1>3, <2>1, TagRequest DEF scriptOf
  <2>4. Told'
    BY <2>2, <2>3, CallKeeps DEF Control
  <2> QED
    BY <1>1, <1>3, <2>2, <2>3, <2>4, CallOwn DEF updateVars
<1> QED BY <1>4, <1>5

\* What the return of a script leaves.
LEMMA ReturnOwn ==
    ASSUME Control, NEW p \in Procs, Return(p)
    PROVE  /\ Told' /\ at[p] = "done" /\ at'[p] = "idle"
           /\ call[p] \in Requests /\ call[p].node \in nodes[p] /\ call[p].node \in Nodes
           /\ \A q \in Procs \ {p} : at'[q] = at[q] /\ call'[q] = call[q] /\ ran'[q] = ran[q] /\ ok'[q] = ok[q]
<1>1. at[p] = "done" /\ at' = [at EXCEPT ![p] = "idle"] /\ forget(p) /\ UNCHANGED <<cms, pods, applied>>
  BY DEF Return, goto
<1>2. Told'
  BY <1>1, ForgetKeeps DEF Control
<1>3. call[p] \in Requests /\ call[p].node \in Nodes
  BY <1>1, NameType DEF Control, Told, Requests
<1> QED
  BY <1>1, <1>2, <1>3 DEF Control, placeInv, forget, Told, ScriptInv

LEMMA TaggedOnNodeOwn ==
    ASSUME Control, NEW p \in Procs, TaggedOnNode(p) PROVE OwnStep(p) /\ Told'
<1>1. PICK n \in Nodes : n = call[p].node
  BY ReturnOwn DEF TaggedOnNode
<1>2. /\ phase[p] = "tag"
      /\ clean' = [clean EXCEPT ![p] = @ /\ ~met[p]] /\ nodes' = [nodes EXCEPT ![p] = @ \ {n}]
      /\ good' = [good EXCEPT ![p] = @ \/ ok[p]] /\ bad' = [bad EXCEPT ![p] = @ \/ ~ok[p]]
      /\ UNCHANGED <<clusterVars, phase, seen, tags, result, world>>
  BY <1>1 DEF TaggedOnNode
<1>3. /\ Told' /\ at'[p] = "idle"
      /\ \A q \in Procs \ {p} : at'[q] = at[q] /\ call'[q] = call[q] /\ ran'[q] = ran[q] /\ ok'[q] = ok[q]
  BY ReturnOwn DEF TaggedOnNode
<1>4. Typing'
  <2>1. ok[p] \in BOOLEAN /\ met[p] \in BOOLEAN
    BY DEF Control, Told, ScriptInv
  <2>2. good' \in [Procs -> BOOLEAN] /\ bad' \in [Procs -> BOOLEAN] /\ clean' \in [Procs -> BOOLEAN]
    BY <1>2, <2>1 DEF Control, Typing
  <2> QED
    BY <1>2, <2>2 DEF Control, Typing, clusterVars
<1>5. Others(p)
  BY <1>2, <1>3 DEF Control, Others, Typing
<1>6. placeInv(p)'
  BY <1>2, <1>3 DEF Control, placeInv, AppPhases, ApplyPhases
<1> QED
  BY <1>3, <1>4, <1>5, <1>6 DEF OwnStep

LEMMA TagDoneOwn ==
    ASSUME Control, NEW p \in Procs, TagDone(p) PROVE OwnStep(p)
<1>1. phase[p] = "tag" /\ nodes[p] = {} /\ at[p] = "idle" /\ UNCHANGED <<scriptVars, clusterVars, clean, world>>
  BY DEF TagDone
<1>2. CASE end(p, "failed")
  <2>1. Typing' /\ Others(p)
    BY <1>1, <1>2, EndDoes DEF Control, Typing, clusterVars, Others, scriptVars
  <2>2. placeInv(p)'
    BY <1>1, <1>2, EndDoes DEF placeInv, scriptVars, AppPhases, ApplyPhases
  <2> QED BY <2>1, <2>2 DEF OwnStep
<1>3. CASE moveTo(p, "tag", "kubeProxy") /\ UNCHANGED <<nodes, seen, tags, good, bad, result>>
  <2>1. Typing'
    BY <1>1, <1>3 DEF Control, Typing, clusterVars, moveTo, Phases
  <2>2. Others(p)
    BY <1>1, <1>3 DEF Control, Typing, Others, scriptVars, moveTo
  <2>3. placeInv(p)'
    BY <1>1, <1>3 DEF Control, Typing, placeInv, scriptVars, AppPhases, ApplyPhases, moveTo
  <2> QED BY <2>1, <2>2, <2>3 DEF OwnStep
<1> QED
  BY <1>2, <1>3 DEF TagDone

LEMMA AppPhase ==
    \A a \in Apps : /\ a \in AppPhases /\ a \in Phases
                    /\ applyOf(a) \in ApplyPhases /\ applyOf(a) \in AppPhases /\ applyOf(a) \in Phases
                    /\ after(a) \in {"coreDNS", "flannel", "ui", "vip"}
BY DEF Apps, AppPhases, ApplyPhases, Phases, after, applyOf

\* Between scripts, p goes on to another step with what it has, or ends.
LEMMA GoOn ==
    ASSUME Control, NEW p \in Procs, at[p] = "idle", UNCHANGED <<scriptVars, world>>,
           NEW to \in {"coreDNS", "flannel", "ui", "vip", "check", "upgrade", "monitor"} \cup ApplyPhases,
           phase[p] \notin {"idle", "tags", "tag"},
           to \in AppPhases => phase[p] \in AppPhases,
           phase' = [phase EXCEPT ![p] = to],
           NEW N \in SUBSET Nodes, nodes' = [nodes EXCEPT ![p] = N],
           UNCHANGED <<seen, tags, good, bad, result>>,
           NEW c \in BOOLEAN, clean' = [clean EXCEPT ![p] = c],
           workload' \in [Apps -> {"absent", "foreign", "old", "current"}],
           release' \in [Apps \cup {Monitor} -> {"none", "untagged", "old", "pending", "current"}]
    PROVE  OwnStep(p)
<1>1. Typing'
  BY DEF Control, Typing, Phases, ApplyPhases
<1>2. Others(p)
  BY DEF Control, Typing, Others, scriptVars
<1>3. placeInv(p)'
  BY DEF Control, Typing, placeInv, scriptVars, AppPhases, ApplyPhases
<1> QED BY <1>1, <1>2, <1>3 DEF OwnStep

LEMMA Ends ==
    ASSUME Control, NEW p \in Procs, NEW r \in {"ok", "failed", "killed"}, end(p, r), at'[p] = "idle",
           \A q \in Procs \ {p} : at'[q] = at[q] /\ call'[q] = call[q] /\ ran'[q] = ran[q] /\ ok'[q] = ok[q],
           world' = world, NEW c \in BOOLEAN, clean' = [clean EXCEPT ![p] = c],
           workload' \in [Apps -> {"absent", "foreign", "old", "current"}],
           release' \in [Apps \cup {Monitor} -> {"none", "untagged", "old", "pending", "current"}]
    PROVE  OwnStep(p)
<1>1. Typing'
  BY EndDoes DEF Control, Typing
<1>2. Others(p)
  BY EndDoes DEF Control, Typing, Others
<1>3. placeInv(p)'
  BY EndDoes DEF placeInv, AppPhases, ApplyPhases
<1> QED BY <1>1, <1>2, <1>3 DEF OwnStep

\* Steps without a script: the places of RunScript stay.
LEMMA SamePlaces ==
    ASSUME UNCHANGED scriptVars
    PROVE  UNCHANGED <<cms, pods, applied, at, call, ok, met, ran>>
BY DEF scriptVars

\* An application is begun or left.
LEMMA AppGoesOn ==
    ASSUME Control, NEW p \in Procs, NEW a \in Apps, phase[p] \in {a, applyOf(a)},
           NEW to \in {after(a), applyOf(a)}, phase' = [phase EXCEPT ![p] = to],
           UNCHANGED <<scriptVars, nodes, seen, tags, good, bad, result, world>>,
           NEW c \in BOOLEAN, clean' = [clean EXCEPT ![p] = c],
           workload' \in [Apps -> {"absent", "foreign", "old", "current"}],
           release' \in [Apps \cup {Monitor} -> {"none", "untagged", "old", "pending", "current"}]
    PROVE  OwnStep(p)
<1>1. nodes' = [nodes EXCEPT ![p] = nodes[p]] /\ nodes[p] \in SUBSET Nodes
  BY DEF Control, Typing
<1>2. phase[p] \in AppPhases /\ phase[p] \notin {"idle", "tags", "tag", "check", "upgrade"}
  BY AppPhase DEF AppPhases, ApplyPhases
<1>3. at[p] = "idle"
  BY <1>2 DEF Control, placeInv
<1>4. to \in {"coreDNS", "flannel", "ui", "vip", "check", "upgrade", "monitor"} \cup ApplyPhases
  BY AppPhase
<1> QED
  BY <1>1, <1>2, <1>3, <1>4, GoOn

LEMMA UpdateAppOwn ==
    ASSUME Control, NEW p \in Procs, NEW a \in Apps, UpdateApp(p, a) PROVE OwnStep(p)
<1>1. phase[p] = a /\ UNCHANGED <<scriptVars, workload, nodes, seen, tags, good, bad, result, world>>
  BY DEF UpdateApp
<1>2. PICK r \in getReleases(a), s \in getReleases(a) :
          /\ \/ release' = [release EXCEPT ![a] = "pending"] /\ phase' = [phase EXCEPT ![p] = applyOf(a)]
             \/ phase' = [phase EXCEPT ![p] = after(a)] /\ UNCHANGED release
          /\ clean' = [clean EXCEPT ![p] = @ /\ r = release[a] /\ s = release[a]]
  BY DEF UpdateApp
<1>3. PICK c \in BOOLEAN : c = (clean[p] /\ r = release[a] /\ s = release[a])
  OBVIOUS
<1>4. clean' = [clean EXCEPT ![p] = c]
  BY <1>2, <1>3
<1>5. /\ workload' \in [Apps -> {"absent", "foreign", "old", "current"}]
      /\ release' \in [Apps \cup {Monitor} -> {"none", "untagged", "old", "pending", "current"}]
  BY <1>1, <1>2 DEF Control, Typing
<1>6. PICK to \in {after(a), applyOf(a)} : phase' = [phase EXCEPT ![p] = to]
  BY <1>2
<1> QED
  BY <1>1, <1>4, <1>5, <1>6, AppGoesOn

LEMMA ApplyAppOwn ==
    ASSUME Control, NEW p \in Procs, NEW a \in Apps, ApplyApp(p, a) PROVE OwnStep(p)
<1>1. /\ phase[p] = applyOf(a) /\ phase' = [phase EXCEPT ![p] = after(a)]
      /\ UNCHANGED <<scriptVars, nodes, seen, tags, good, bad, clean, result, world>>
      /\ release' = [release EXCEPT ![a] = "current"] /\ workload' = [workload EXCEPT ![a] = "current"]
  BY DEF ApplyApp
<1>2. clean[p] \in BOOLEAN /\ clean' = [clean EXCEPT ![p] = clean[p]]
  BY <1>1 DEF Control, Typing
<1>3. /\ workload' \in [Apps -> {"absent", "foreign", "old", "current"}]
      /\ release' \in [Apps \cup {Monitor} -> {"none", "untagged", "old", "pending", "current"}]
  BY <1>1 DEF Control, Typing
<1> QED
  BY <1>1, <1>2, <1>3, AppGoesOn

LEMMA OnErrorOwn ==
    ASSUME Control, NEW p \in Procs, NEW a \in Apps, phase[p] \in {a, applyOf(a)}, onError(p, a),
           UNCHANGED <<scriptVars, world>>,
           clean' = [clean EXCEPT ![p] = FALSE],
           workload' \in [Apps -> {"absent", "foreign", "old", "current"}],
           release' \in [Apps \cup {Monitor} -> {"none", "untagged", "old", "pending", "current"}]
    PROVE  OwnStep(p)
<1>0. phase[p] \in AppPhases /\ phase[p] \notin {"idle", "tags", "tag", "check", "upgrade"}
  BY AppPhase DEF AppPhases, ApplyPhases
<1>1. at[p] = "idle"
  BY <1>0 DEF Control, placeInv
<1>2. CASE end(p, "failed")
  BY <1>1, <1>2, SamePlaces, Ends
<1>3. CASE phase' = [phase EXCEPT ![p] = "vip"] /\ UNCHANGED <<nodes, seen, tags, good, bad, result>>
  <2>1. nodes' = [nodes EXCEPT ![p] = nodes[p]] /\ nodes[p] \in SUBSET Nodes
    BY <1>3 DEF Control, Typing
  <2> QED
    BY <1>0, <1>1, <1>3, <2>1, GoOn
<1> QED
  BY <1>2, <1>3 DEF onError

\* helm that stops half way leaves a workload of the same kinds.
LEMMA HalfApplied ==
    ASSUME Control, NEW p \in Procs, halfApplied(p)
    PROVE  /\ workload' \in [Apps -> {"absent", "foreign", "old", "current"}]
           /\ \A a \in Apps : workload'[a] \in {workload[a], "current"}
           /\ workload' = workload \/ (phase[p] \in AppPhases /\ \E a \in Apps : workload' = [workload EXCEPT ![a] = "current"])
<1>1. CASE UNCHANGED workload
  BY <1>1 DEF Control, Typing
<1>2. CASE \E a \in Apps : phase[p] = applyOf(a) /\ workload' = [workload EXCEPT ![a] = "current"]
  BY <1>2, AppPhase DEF Control, Typing
<1> QED BY <1>1, <1>2 DEF halfApplied

LEMMA FailingAppOwn ==
    ASSUME Control, NEW p \in Procs, NEW a \in Apps, UpdateAppRefused(p, a) \/ ApplyAppFails(p, a)
    PROVE  OwnStep(p)
<1>1. /\ phase[p] \in {a, applyOf(a)} /\ onError(p, a) /\ UNCHANGED <<scriptVars, world, release>>
      /\ clean' = [clean EXCEPT ![p] = FALSE]
      /\ workload' = workload \/ halfApplied(p)
  BY DEF UpdateAppRefused, ApplyAppFails, clusterVars
<1>2. /\ workload' \in [Apps -> {"absent", "foreign", "old", "current"}]
      /\ release' \in [Apps \cup {Monitor} -> {"none", "untagged", "old", "pending", "current"}]
  BY <1>1, HalfApplied DEF Control, Typing
<1> QED
  BY <1>1, <1>2, OnErrorOwn

LEMMA SameCluster ==
    ASSUME Control, UNCHANGED clusterVars
    PROVE  /\ UNCHANGED <<workload, release>>
           /\ workload' \in [Apps -> {"absent", "foreign", "old", "current"}]
           /\ release' \in [Apps \cup {Monitor} -> {"none", "untagged", "old", "pending", "current"}]
BY DEF Control, Typing, clusterVars

LEMMA VirtualIpOwn ==
    ASSUME Control, NEW p \in Procs, VirtualIp(p) PROVE OwnStep(p)
<1>1. phase[p] = "vip" /\ at[p] = "idle" /\ UNCHANGED <<scriptVars, clusterVars, world>>
  BY DEF VirtualIp, Control, placeInv
<1>2. PICK r : /\ \/ end(p, "ok")
                   \/ /\ moveTo(p, "vip", "check") /\ nodes' = [nodes EXCEPT ![p] = world.cps]
                      /\ UNCHANGED <<seen, tags, good, bad, result>>
                /\ clean' = [clean EXCEPT ![p] = @ /\ r = release[Monitor]]
  BY DEF VirtualIp
<1>3. PICK c \in BOOLEAN : c = (clean[p] /\ r = release[Monitor])
  OBVIOUS
<1>4. clean' = [clean EXCEPT ![p] = c]
  BY <1>2, <1>3
<1>5. world.cps \in SUBSET Nodes
  BY WorldType DEF Control, Typing
<1>6. CASE end(p, "ok")
  BY <1>1, <1>4, <1>6, SamePlaces, SameCluster, Ends
<1>7. CASE ~end(p, "ok")
  BY <1>1, <1>2, <1>4, <1>5, <1>7, SameCluster, GoOn DEF moveTo, AppPhases, ApplyPhases
<1> QED BY <1>6, <1>7

LEMMA OnControlPlaneNodeOwn ==
    ASSUME Control, NEW p \in Procs, OnControlPlaneNode(p) PROVE OwnStep(p) /\ Told'
<1>1. /\ phase[p] \in {"check", "upgrade"} /\ nodes[p] # {}
      /\ UNCHANGED <<updateVars, clusterVars, world>>
  BY DEF OnControlPlaneNode
<1>2. PICK n : n = first(nodes[p])
  OBVIOUS
<1>3. n \in nodes[p] /\ n \in Nodes
  BY <1>1, <1>2, FirstIn DEF Control, Typing
<1>4. PICK c : c = [action |-> vipScript(p), node |-> n, script |-> {}, env |-> ""]
  OBVIOUS
<1>5. Call(p, c)
  BY <1>2, <1>4 DEF OnControlPlaneNode
<1>6. c \in Requests /\ c.node = n /\ c.action = scriptOf(phase[p])
  BY <1>1, <1>3, <1>4, VipRequest DEF scriptOf, vipScript
<1>7. Told'
  BY <1>5, <1>6, CallKeeps DEF Control
<1> QED
  BY <1>1, <1>3, <1>5, <1>6, <1>7, CallOwn

\* A script on a control plane node has returned.
LEMMA ReturnedOwn ==
    ASSUME Control, NEW p \in Procs, Checked(p) \/ Upgraded(p) PROVE OwnStep(p) /\ Told'
<1>1. Return(p) /\ phase[p] \in {"check", "upgrade"} /\ UNCHANGED <<clusterVars, world>>
      /\ clean' = [clean EXCEPT ![p] = @ /\ ~met[p]]
  BY DEF Checked, Upgraded
<1>2. PICK n \in Nodes : n = call[p].node
  BY <1>1, ReturnOwn
<1>3. \/ end(p, "ok") \/ end(p, "failed")
      \/ nodes' = [nodes EXCEPT ![p] = @ \ {n}] /\ UNCHANGED <<phase, seen, tags, good, bad, result>>
  BY <1>2 DEF Checked, Upgraded
<1>4. PICK c \in BOOLEAN : c = (clean[p] /\ ~met[p])
  OBVIOUS
<1>5. clean' = [clean EXCEPT ![p] = c]
  BY <1>1, <1>4
<1>6. /\ Told' /\ at'[p] = "idle"
      /\ \A q \in Procs \ {p} : at'[q] = at[q] /\ call'[q] = call[q] /\ ran'[q] = ran[q] /\ ok'[q] = ok[q]
  BY <1>1, ReturnOwn
<1>7. CASE end(p, "ok") \/ end(p, "failed")
  BY <1>1, <1>5, <1>6, <1>7, SameCluster, Ends
<1>8. CASE nodes' = [nodes EXCEPT ![p] = @ \ {n}] /\ UNCHANGED <<phase, seen, tags, good, bad, result>>
  <2>1. Typing'
    BY <1>1, <1>5, <1>8 DEF Control, Typing, clusterVars
  <2>2. Others(p)
    BY <1>5, <1>6, <1>8 DEF Control, Typing, Others
  <2>3. placeInv(p)'
    BY <1>1, <1>6, <1>8 DEF Control, Typing, placeInv, AppPhases, ApplyPhases
  <2> QED BY <1>6, <2>1, <2>2, <2>3 DEF OwnStep
<1> QED BY <1>3, <1>6, <1>7, <1>8

LEMMA VipDoneOwn ==
    ASSUME Control, NEW p \in Procs, CheckDone(p) \/ UpgradeDone(p) PROVE OwnStep(p)
<1>1. clean' = [clean EXCEPT ![p] = clean[p]] /\ clean[p] \in BOOLEAN /\ nodes[p] \in SUBSET Nodes
  BY DEF Control, Typing, CheckDone, UpgradeDone
<1>2. CASE CheckDone(p)
  <2>1. world.cps \in SUBSET Nodes
    BY WorldType DEF Control, Typing
  <2> QED
    BY <1>1, <1>2, <2>1, SameCluster, GoOn DEF CheckDone, moveTo, AppPhases, ApplyPhases
<1>3. CASE UpgradeDone(p)
  <2>1. nodes' = [nodes EXCEPT ![p] = nodes[p]]
    BY <1>3 DEF UpgradeDone, Control, Typing
  <2> QED
    BY <1>1, <1>3, <2>1, SameCluster, GoOn DEF UpgradeDone, moveTo, AppPhases, ApplyPhases
<1> QED BY <1>2, <1>3

LEMMA InstallMonitorOwn ==
    ASSUME Control, NEW p \in Procs, InstallMonitor(p) PROVE OwnStep(p)
<1>1. phase[p] = "monitor" /\ at[p] = "idle" /\ end(p, "ok") /\ UNCHANGED <<scriptVars, workload, world>>
  BY DEF InstallMonitor, Control, placeInv
<1>2. PICK done \in BOOLEAN : /\ release' = IF done THEN [release EXCEPT ![Monitor] = "current"] ELSE release
                              /\ clean' = [clean EXCEPT ![p] = @ /\ done]
  BY DEF InstallMonitor
<1>3. PICK c \in BOOLEAN : c = (clean[p] /\ done)
  OBVIOUS
<1>4. clean' = [clean EXCEPT ![p] = c]
  BY <1>2, <1>3
<1>5. /\ workload' \in [Apps -> {"absent", "foreign", "old", "current"}]
      /\ release' \in [Apps \cup {Monitor} -> {"none", "untagged", "old", "pending", "current"}]
  BY <1>1, <1>2 DEF Control, Typing
<1> QED
  BY <1>1, <1>4, <1>5, SamePlaces, Ends

\* A step inside RunScript.
LEMMA InsideOwn ==
    ASSUME Control, NEW p \in Procs, Working(p), UNCHANGED <<phase, nodes, seen, tags, good, bad, result, clusterVars, world>>,
           NEW c \in BOOLEAN, clean' = [clean EXCEPT ![p] = c]
    PROVE  OwnStep(p) /\ Told'
<1>1. Told'
  BY ScriptStepKeeps, ScriptFailsKeeps, ExecKeeps DEF Control, Working
<1>2. at[p] \in Inside /\ at[p] # "idle" /\ OwnOnly(p) /\ call' = call
  BY WorkingOwn DEF Control, OwnOnly, Inside
<1>3. Typing'
  BY DEF Control, Typing, clusterVars
<1>4. Others(p)
  BY <1>2 DEF Control, Typing, Others, OwnOnly
<1>5. placeInv(p)'
  BY <1>2 DEF Control, placeInv, AppPhases, ApplyPhases
<1> QED
  BY <1>1, <1>3, <1>4, <1>5 DEF OwnStep

LEMMA InScriptOwn ==
    ASSUME Control, NEW p \in Procs, InScript(p) \/ ScriptGoesWrong(p) PROVE OwnStep(p) /\ Told' /\ Working(p)
<1>1. Working(p) /\ UNCHANGED <<phase, nodes, seen, tags, good, bad, result, clusterVars, world>>
  BY DEF InScript, ScriptGoesWrong, Working, updateVars
<1>2. PICK c \in BOOLEAN : clean' = [clean EXCEPT ![p] = c]
  <2>1. CASE InScript(p)
    <3>1. clean' = [clean EXCEPT ![p] = clean[p]] /\ clean[p] \in BOOLEAN
      BY <2>1 DEF InScript, updateVars, Control, Typing
    <3> QED BY <3>1
  <2>2. CASE ScriptGoesWrong(p)
    BY <2>2 DEF ScriptGoesWrong
  <2> QED BY <2>1, <2>2
<1> QED
  BY <1>1, <1>2, InsideOwn

LEMMA FailsOwn ==
    ASSUME Control, NEW p \in Procs, Fails(p) PROVE OwnStep(p)
<1>1. at[p] = "idle" /\ UNCHANGED <<scriptVars, clusterVars, world>> /\ clean' = [clean EXCEPT ![p] = FALSE]
  BY DEF Fails
<1>2. CASE end(p, "failed")
  BY <1>1, <1>2, SamePlaces, SameCluster, Ends
<1>3. CASE phase[p] \in {"coreDNS", "flannel", "ui"} /\ onError(p, phase[p])
  <2>1. phase[p] \in Apps
    BY <1>3 DEF Apps
  <2> QED
    BY <1>1, <1>3, <2>1, SameCluster, OnErrorOwn
<1> QED
  BY <1>2, <1>3 DEF Fails

LEMMA KillOwn ==
    ASSUME Control, NEW p \in Procs, Kill(p) PROVE OwnStep(p) /\ Told'
<1>1. /\ at' = [at EXCEPT ![p] = "idle"] /\ forget(p) /\ UNCHANGED <<cms, pods, applied>>
      /\ end(p, "killed") /\ UNCHANGED <<release, world>> /\ clean' = [clean EXCEPT ![p] = FALSE]
      /\ halfApplied(p)
  BY DEF Kill, ScriptKill
<1>2. Told'
  BY <1>1, ForgetKeeps DEF Control
<1>3. /\ at'[p] = "idle"
      /\ \A q \in Procs \ {p} : at'[q] = at[q] /\ call'[q] = call[q] /\ ran'[q] = ran[q] /\ ok'[q] = ok[q]
  BY <1>1 DEF Control, Told, ScriptInv, forget
<1>4. /\ workload' \in [Apps -> {"absent", "foreign", "old", "current"}]
      /\ release' \in [Apps \cup {Monitor} -> {"none", "untagged", "old", "pending", "current"}]
  BY <1>1, HalfApplied DEF Control, Typing
<1> QED
  BY <1>1, <1>2, <1>3, <1>4, Ends

\* Every step of a process is its own.
ProcNext(p) == Begin(p) \/ Command(p) \/ ScriptGoesWrong(p) \/ Fails(p) \/ Kill(p)

LEMMA ProcNextOwn ==
    ASSUME Control, NEW p \in Procs, ProcNext(p) PROVE OwnStep(p) /\ Told'
<1>1. ASSUME UNCHANGED scriptVars PROVE Told'
  BY <1>1, ScriptStutter DEF Control
<1>2. CASE Begin(p)
  BY <1>1, <1>2, BeginOwn DEF Begin
<1>3. CASE GetTags(p)
  BY <1>1, <1>3, GetTagsOwn DEF GetTags
<1>4. CASE TagOnNode(p)
  BY <1>4, TagOnNodeOwn
<1>5. CASE TaggedOnNode(p)
  BY <1>5, TaggedOnNodeOwn
<1>6. CASE TagDone(p)
  BY <1>1, <1>6, TagDoneOwn DEF TagDone
<1>7. ASSUME NEW a \in Apps, UpdateApp(p, a) \/ ApplyApp(p, a) PROVE OwnStep(p) /\ Told'
  BY <1>1, <1>7, UpdateAppOwn, ApplyAppOwn DEF UpdateApp, ApplyApp
<1>8. ASSUME NEW a \in Apps, UpdateAppRefused(p, a) \/ ApplyAppFails(p, a) PROVE OwnStep(p) /\ Told'
  BY <1>1, <1>8, FailingAppOwn DEF UpdateAppRefused, ApplyAppFails
<1>9. CASE VirtualIp(p)
  BY <1>1, <1>9, VirtualIpOwn DEF VirtualIp
<1>10. CASE OnControlPlaneNode(p)
  BY <1>10, OnControlPlaneNodeOwn
<1>11. CASE Checked(p) \/ Upgraded(p)
  BY <1>11, ReturnedOwn
<1>12. CASE CheckDone(p) \/ UpgradeDone(p)
  BY <1>1, <1>12, VipDoneOwn DEF CheckDone, UpgradeDone
<1>13. CASE InstallMonitor(p)
  BY <1>1, <1>13, InstallMonitorOwn DEF InstallMonitor
<1>14. CASE InScript(p) \/ ScriptGoesWrong(p)
  BY <1>14, InScriptOwn
<1>15. CASE Fails(p)
  BY <1>1, <1>15, FailsOwn DEF Fails
<1>16. CASE Kill(p)
  BY <1>16, KillOwn
<1> QED
  BY <1>2, <1>3, <1>4, <1>5, <1>6, <1>7, <1>8, <1>9, <1>10, <1>11, <1>12, <1>13, <1>14, <1>15, <1>16
     DEF ProcNext, Command

LEMMA InitControl == Init => Control
<1> SUFFICES ASSUME Init PROVE Control
  OBVIOUS
<1>1. Told
  BY DEF Init, ScriptInit, Told, ScriptInv, RunsOwnScript, ranInv, ownScript, meetKnown, Places, Inside
<1>2. [n \in Nodes |-> {}] \in [Nodes -> SUBSET Apps]
  OBVIOUS
<1>3. Monitor \notin Apps
  BY DEF Monitor, Apps
<1>4. Typing
  BY <1>2, <1>3, WorldType DEF Init, Typing, Phases, Results
<1>5. \A p \in Procs : placeInv(p)
  BY DEF Init, ScriptInit, placeInv, AppPhases, ApplyPhases
<1> QED BY <1>1, <1>4, <1>5 DEF Control

LEMMA KubeletControl ==
    ASSUME Control, Kubelet PROVE Control'
<1>1. PICK n \in Names : Mount(n)
  BY DEF Kubelet
<1>2. Told'
  BY <1>1, MountKeeps DEF Control
<1>3. UNCHANGED <<updateVars, clusterVars, world, at, call>>
  BY <1>1 DEF Kubelet, Mount
<1> QED
  BY <1>2, <1>3 DEF Control, Typing, placeInv, updateVars, clusterVars

LEMMA StutterControl ==
    ASSUME Control, UNCHANGED vars PROVE Control'
<1>1. Told'
  BY ScriptStutter DEF Control, vars
<1> QED
  BY <1>1 DEF Control, Typing, placeInv, vars, updateVars, clusterVars, scriptVars

LEMMA NextControl ==
    ASSUME Control, [Next]_vars PROVE Control'
<1>1. ASSUME NEW p \in Procs, ProcNext(p) PROVE Control'
  <2>1. OwnStep(p) /\ Told'
    BY <1>1, ProcNextOwn
  <2>2. ASSUME NEW q \in Procs, q # p PROVE placeInv(q)'
    <3>1. placeInv(q) /\ Others(p) /\ Typing'
      BY <2>1 DEF Control, OwnStep
    <3>2. world' = world
      BY <1>1 DEF ProcNext, Command, Begin, GetTags, TagOnNode, TaggedOnNode, TagDone, UpdateApp, ApplyApp, UpdateAppRefused, ApplyAppFails,
                  VirtualIp, OnControlPlaneNode, Checked, CheckDone, Upgraded, UpgradeDone, InstallMonitor,
                  InScript, ScriptGoesWrong, Fails, Kill
    <3> QED
      BY <2>2, <3>1, <3>2 DEF placeInv, Others
  <2> QED
    BY <2>1, <2>2 DEF Control, OwnStep
<1> QED
  BY <1>1, KubeletControl, StutterControl DEF Next, ProcNext

-----------------------------------------------------------------------------
(* What a step does to RunScript                                            *)

CallsFor(p) ==
    \E c \in Requests : /\ Call(p, c)
                        /\ c.action = "tag-images" => phase[p] = "tag" /\ c.script = toTag(p, c.node)

Leaves(p) == at' = [at EXCEPT ![p] = "idle"] /\ forget(p) /\ UNCHANGED <<cms, pods, applied>>

Effects(p) ==
    \/ UNCHANGED scriptVars
    \/ CallsFor(p)
    \/ Return(p)
    \/ ScriptStep(p)
    \/ "api" \in world.faults /\ Working(p)
    \/ "kill" \in world.faults /\ Leaves(p)

LEMMA NextEffects ==
    ASSUME Control, NEW p \in Procs, ProcNext(p)
    PROVE  Effects(p) /\ world' = world
<1>0. world' = world
  BY DEF ProcNext, Command, Begin, GetTags, TagOnNode, TaggedOnNode, TagDone, UpdateApp, ApplyApp, UpdateAppRefused, ApplyAppFails,
         VirtualIp, OnControlPlaneNode, Checked, CheckDone, Upgraded, UpgradeDone, InstallMonitor,
         InScript, ScriptGoesWrong, Fails, Kill
<1>1. CASE TagOnNode(p)
  <2>1. phase[p] = "tag" /\ nodes[p] # {}
    BY <1>1 DEF TagOnNode
  <2>2. PICK n : n = first(nodes[p])
    OBVIOUS
  <2>3. n \in Nodes
    BY <2>1, <2>2, FirstIn DEF Control, Typing
  <2>4. PICK c : c = [action |-> "tag-images", node |-> n, script |-> toTag(p, n), env |-> ""]
    OBVIOUS
  <2>5. Call(p, c) \/ UNCHANGED scriptVars
    BY <1>1, <2>2, <2>4 DEF TagOnNode
  <2>6. c \in Requests /\ c.script = toTag(p, c.node)
    BY <2>3, <2>4, TagRequest
  <2> QED BY <1>0, <2>1, <2>5, <2>6 DEF Effects, CallsFor
<1>2. CASE OnControlPlaneNode(p)
  <2>1. nodes[p] # {}
    BY <1>2 DEF OnControlPlaneNode
  <2>2. PICK n : n = first(nodes[p])
    OBVIOUS
  <2>3. n \in Nodes
    BY <2>1, <2>2, FirstIn DEF Control, Typing
  <2>4. PICK c : c = [action |-> vipScript(p), node |-> n, script |-> {}, env |-> ""]
    OBVIOUS
  <2>5. Call(p, c)
    BY <1>2, <2>2, <2>4 DEF OnControlPlaneNode
  <2>6. c \in Requests /\ c.action # "tag-images"
    BY <2>3, <2>4, VipRequest DEF vipScript
  <2> QED BY <1>0, <2>5, <2>6 DEF Effects, CallsFor
<1>3. CASE TaggedOnNode(p) \/ Checked(p) \/ Upgraded(p)
  BY <1>0, <1>3 DEF TaggedOnNode, Checked, Upgraded, Effects
<1>4. CASE InScript(p)
  BY <1>0, <1>4 DEF InScript, Effects
<1>5. CASE ScriptGoesWrong(p)
  BY <1>0, <1>5 DEF ScriptGoesWrong, apiError, Effects, Working
<1>6. CASE Kill(p)
  BY <1>0, <1>6 DEF Kill, ScriptKill, Effects, Leaves
<1>7. CASE Begin(p) \/ GetTags(p) \/ TagDone(p) \/ VirtualIp(p) \/ CheckDone(p) \/ UpgradeDone(p) \/ InstallMonitor(p) \/ Fails(p)
  BY <1>0, <1>7 DEF Begin, GetTags, TagDone, VirtualIp, CheckDone, UpgradeDone, InstallMonitor, Fails, Effects
<1>8. ASSUME NEW a \in Apps, AppStep(p, a) PROVE Effects(p)
  BY <1>8 DEF AppStep, UpdateApp, ApplyApp, UpdateAppRefused, ApplyAppFails, Effects
<1> QED
  BY <1>0, <1>1, <1>2, <1>3, <1>4, <1>5, <1>6, <1>7, <1>8 DEF ProcNext, Command, AppStep

-----------------------------------------------------------------------------
(* Scripts are tidy                                                         *)

\* With one command at a time nobody else has begun.
LEMMA Lonely ==
    ASSUME Control, Alone, NEW p \in Procs, ProcNext(p), world.serial, NEW q \in Procs, q # p
    PROVE  result[q] = "new" /\ phase[q] = "idle" /\ at[q] = "idle"
<1>1. result[q] = "new"
  <2>1. CASE Begin(p)
    BY <2>1 DEF Begin
  <2>2. CASE ~Begin(p)
    <3>1. phase[p] # "idle"
      <4>1. CASE InScript(p) \/ ScriptGoesWrong(p)
        BY <4>1, InScriptOwn, WorkingOwn DEF Control, placeInv, Inside
      <4>2. ASSUME NEW a \in Apps, AppStep(p, a) PROVE phase[p] # "idle"
        BY <4>2, AppPhase DEF AppStep, UpdateApp, ApplyApp, UpdateAppRefused, ApplyAppFails, AppPhases, ApplyPhases
      <4>3. CASE ~(InScript(p) \/ ScriptGoesWrong(p) \/ \E a \in Apps : AppStep(p, a))
        BY <2>2, <4>3 DEF ProcNext, Command, AppStep, GetTags, TagOnNode, TaggedOnNode, TagDone, VirtualIp,
           OnControlPlaneNode, Checked, CheckDone, Upgraded, UpgradeDone, InstallMonitor, Fails, Kill, moveTo
      <4> QED BY <4>1, <4>2, <4>3
    <3>2. result[p] # "new"
      BY <3>1 DEF Control, placeInv
    <3> QED BY <3>2 DEF Alone
  <2> QED BY <2>1, <2>2
<1> QED
  BY <1>1 DEF Control, placeInv

LEMMA NextAlone ==
    ASSUME Control, Alone, NEW p \in Procs, ProcNext(p) PROVE Alone'
<1> SUFFICES ASSUME world'.serial
             PROVE  /\ \A r, q \in Procs : r # q => result'[r] = "new" \/ result'[q] = "new"
                    /\ \A q \in Procs : ~met'[q]
  BY DEF Alone
<1>1. world.serial /\ Effects(p) /\ Others(p)
  BY NextEffects, ProcNextOwn DEF OwnStep
<1>2. \A q \in Procs : ~met[q]
  BY <1>1 DEF Alone
<1>3. \A q \in Procs \ {p} : result[q] = "new" /\ at[q] = "idle"
  BY <1>1, Lonely
<1>4. \A q \in Procs \ {p} : result'[q] = "new"
  BY <1>1, <1>3 DEF Others
<1>5. \A q \in Procs : ~met'[q]
  <2>1. CASE UNCHANGED scriptVars
    BY <1>2, <2>1 DEF scriptVars
  <2>2. CASE CallsFor(p)
    BY <1>2, <1>3, <2>2 DEF CallsFor, Call, Inside
  <2>3. CASE Return(p) \/ Leaves(p)
    BY <1>2, <2>3 DEF Return, Leaves, forget, Control, Told, ScriptInv
  <2>4. CASE Working(p)
    BY <1>2, <2>4, WorkingOwn DEF Control, OwnOnly
  <2> QED
    BY <1>1, <2>1, <2>2, <2>3, <2>4 DEF Effects, Working
<1> QED BY <1>4, <1>5

LEMMA TidyStutter ==
    ASSUME Control, Tidy, UNCHANGED <<scriptVars, world>> PROVE Tidy'
BY DEF Tidy, Undisturbed, Owned, succeeds, name, scriptVars

LEMMA NextTidy ==
    ASSUME Control, Tidy, NEW p \in Procs, ProcNext(p) PROVE Tidy'
<1>1. Effects(p) /\ world' = world /\ Told
  BY NextEffects DEF Control
<1>2. CASE UNCHANGED scriptVars
  BY <1>1, <1>2, TidyStutter
<1>3. CASE CallsFor(p)
  <2>1. PICK c \in Requests : Call(p, c)
    BY <1>3 DEF CallsFor
  <2>2. UNCHANGED <<cms, pods>> /\ \A q \in Procs : at[q] \in Inside => at'[q] = at[q] /\ call'[q] = call[q]
    BY <1>1, <2>1 DEF Call, goto, Told, ScriptInv, Inside
  <2> QED
    BY <1>1, <2>1, <2>2, CallUndisturbed, OtherOwned DEF Tidy
<1>4. CASE Return(p)
  <2>1. at[p] = "done" /\ at' = [at EXCEPT ![p] = "idle"] /\ forget(p) /\ UNCHANGED <<cms, pods>>
    BY <1>4 DEF Return, goto
  <2>2. \A q \in Procs : at[q] \in Inside => at'[q] = at[q] /\ call'[q] = call[q]
    BY <1>1, <2>1 DEF forget, Told, ScriptInv, Inside
  <2> QED
    BY <1>1, <2>1, <2>2, ForgetUndisturbed, OtherOwned DEF Tidy
<1>5. CASE ScriptStep(p)
  BY <1>1, <1>5, StepUndisturbed, StepOwned DEF Tidy
<1>6. CASE "api" \in world.faults
  BY <1>1, <1>6 DEF Tidy
<1>7. CASE "kill" \in world.faults /\ Leaves(p)
  BY <1>1, <1>7, ForgetUndisturbed DEF Tidy, Leaves
<1> QED
  BY <1>1, <1>2, <1>3, <1>4, <1>5, <1>6, <1>7 DEF Effects

Scripted == Control /\ Alone /\ Tidy

LEMMA InitScripted == Init => Scripted
<1> SUFFICES ASSUME Init PROVE Scripted
  OBVIOUS
<1>1. Alone
  BY DEF Init, ScriptInit, Alone
<1>2. Tidy
  BY DEF Init, ScriptInit, Tidy, Undisturbed, Owned, succeeds
<1> QED BY <1>1, <1>2, InitControl DEF Scripted

LEMMA KubeletScripted ==
    ASSUME Scripted, Kubelet PROVE Scripted'
<1>1. PICK n \in Names : Mount(n)
  BY DEF Kubelet
<1>2. UNCHANGED <<updateVars, world, cms, at, call, met>> /\ \A m \in Names : pods[m] = None => pods'[m] = None
  BY <1>1 DEF Kubelet, Mount, Scripted, Control, Told, ScriptInv
<1>3. Alone'
  BY <1>2 DEF Scripted, Alone, updateVars
<1>4. Tidy'
  BY <1>1, <1>2, MountUndisturbed, OtherOwned DEF Scripted, Control, Tidy
<1> QED
  BY <1>3, <1>4, KubeletControl DEF Scripted

LEMMA NextScripted ==
    ASSUME Scripted, [Next]_vars PROVE Scripted'
<1>1. ASSUME NEW p \in Procs, ProcNext(p) PROVE Scripted'
  BY <1>1, NextControl, NextAlone, NextTidy DEF Scripted, Next, ProcNext
<1>2. CASE UNCHANGED vars
  BY <1>2, StutterControl, TidyStutter DEF Scripted, Alone, vars, updateVars, scriptVars
<1> QED
  BY <1>1, <1>2, KubeletScripted DEF Next, ProcNext

LEMMA ScriptedHolds == Spec => []Scripted
BY InitScripted, NextScripted, PTL DEF Spec

LEMMA ScriptedTidy == Scripted => ScriptsTidy
<1> SUFFICES ASSUME Scripted PROVE ScriptsTidy
  OBVIOUS
<1>1. RunsOwnScript
  BY DEF Scripted, Control, Told
<1>2. ScriptsSucceed
  BY DEF Scripted, Tidy, Undisturbed, succeeds, ScriptsSucceed
<1>3. LeavesNothing
  BY DEF Scripted, Tidy, Owned, LeavesNothing, CmPlaces, PodPlaces, Inside, Places
<1> QED BY <1>1, <1>2, <1>3 DEF ScriptsTidy

\* RunScript, as the pre-update calls it for every node and twice for the
\* virtual IP, with any number of pre-updates at a time: whoever is alone with
\* a name runs what it meant and succeeds when the API answers, and nobody
\* leaves a pod or config map when nothing fails.
THEOREM ScriptsAreTidy == Spec => []ScriptsTidy
BY ScriptedHolds, ScriptedTidy, PTL

-----------------------------------------------------------------------------
(* Images come before workloads                                             *)

Grows == world' = world /\ \A n \in Nodes : applied[n] \subseteq applied'[n]

LEMMA EffectsGrow ==
    ASSUME Control, NEW p \in Procs, Effects(p), world' = world PROVE Grows
<1>1. CASE Working(p)
  BY <1>1, WorkingWrites DEF Control, Writes, Grows
<1>2. CASE ~Working(p)
  BY <1>2 DEF Effects, Working, CallsFor, Call, Return, Leaves, scriptVars, Grows
<1> QED BY <1>1, <1>2

LEMMA GrowsCurrent ==
    ASSUME Grows PROVE Ours' = Ours /\ (Careful' <=> Careful) /\ \A n \in Nodes : current(n) \subseteq current(n)'
BY DEF Grows, Ours, Careful, present, current

LEMMA GrowsImages ==
    ASSUME Grows, ImagesThere PROVE ImagesThere'
BY GrowsCurrent DEF ImagesThere

LEMMA GrowsCovers ==
    ASSUME Grows, NEW n \in Nodes, NEW S, Covers(S, n) PROVE Covers(S, n)'
BY GrowsCurrent DEF Covers

\* What was executed on a node is current there.
LEMMA EntryCurrent ==
    ASSUME NEW n \in Nodes, NEW e \in applied[n], e.action = "tag-images"
    PROVE  e.script \subseteq current(n)
BY DEF current

LEMMA TagName ==
    ASSUME NEW p \in Procs, NEW n \in Nodes
    PROVE  (<<"tag-images", n>> = name(p)) <=> (call[p].action = "tag-images" /\ call[p].node = n)
BY DEF name

LEMMA TagNames == \A n \in Nodes : <<"tag-images", n>> \in Names
BY PreUpdateAssumption DEF Names

\* Steps inside of RunScript keep what covers.
LEMMA WorkingCovers ==
    ASSUME Control, ScriptsCover, NEW p \in Procs, Working(p), world' = world PROVE ScriptsCover'
<1>1. Writes(p) /\ OwnOnly(p) /\ at[p] # "idle" /\ call' = call
  BY WorkingWrites, WorkingOwn DEF Control, OwnOnly, Inside
<1>2. Grows
  BY <1>1 DEF Writes, Grows
<1>3. ASSUME NEW n \in Nodes, cms'[<<"tag-images", n>>] # None
      PROVE  Covers(cms[<<"tag-images", n>>], n)'
  <2>1. PICK x \in Names : x = <<"tag-images", n>>
    BY TagNames
  <2>2. CASE cms'[x] = cms[x]
    <3>1. Covers(cms[x], n)
      BY <1>3, <2>1, <2>2 DEF ScriptsCover
    <3> QED BY <1>2, <2>1, <2>2, <3>1, GrowsCovers
  <2>3. CASE cms'[x] # cms[x]
    <3>1. x = name(p) /\ cms'[x] = call[p].script
      BY <1>1, <1>3, <2>1, <2>3 DEF Writes
    <3>2. call[p].action = "tag-images" /\ call[p].node = n
      BY <2>1, <3>1, TagName
    <3>3. Covers(call[p].script, n)
      BY <1>1, <3>2 DEF ScriptsCover
    <3> QED BY <1>2, <2>1, <3>1, <3>3, GrowsCovers DEF Covers
  <2> QED BY <2>2, <2>3
<1>4. ASSUME NEW n \in Nodes, pods'[<<"tag-images", n>>] # None, pods'[<<"tag-images", n>>].script # None
      PROVE  Covers(pods[<<"tag-images", n>>].script, n)'
  <2>1. PICK x \in Names : x = <<"tag-images", n>>
    BY TagNames
  <2>2. pods'[x] = pods[x]
    BY <1>1, <1>4, <2>1 DEF Writes
  <2>3. Covers(pods[x].script, n)
    BY <1>4, <2>1, <2>2 DEF ScriptsCover
  <2> QED BY <1>2, <2>1, <2>2, <2>3, GrowsCovers DEF Covers
<1>5. ASSUME NEW n \in Nodes, NEW e \in applied'[n], e.action = "tag-images"
      PROVE  Ours' \subseteq current(n)'
  <2>1. CASE e \in applied[n]
    <3>1. Ours \subseteq current(n)
      BY <1>5, <2>1 DEF ScriptsCover
    <3> QED BY <1>2, <3>1, GrowsCurrent
  <2>2. CASE e \notin applied[n]
    <3>1. /\ n = call[p].node /\ pods[name(p)] # None /\ pods[name(p)].script # None
          /\ e.action = call[p].action /\ e.script = pods[name(p)].script
      BY <1>1, <1>5, <2>2 DEF Writes
    <3>2. name(p) = <<"tag-images", n>>
      BY <1>5, <3>1, TagName
    <3>3. Covers(e.script, n)
      BY <3>1, <3>2 DEF ScriptsCover
    <3>4. e.script \subseteq current(n)'
      BY <1>5 DEF current
    <3> QED BY <1>2, <3>3, <3>4, GrowsCurrent DEF Covers
  <2> QED BY <2>1, <2>2
<1>6. ASSUME NEW q \in Procs, at'[q] # "idle", call'[q].action = "tag-images"
      PROVE  Covers(call[q].script, call[q].node)'
  <2>1. at[q] # "idle"
    BY <1>1, <1>6 DEF OwnOnly
  <2>2. call[q].node \in Nodes /\ Covers(call[q].script, call[q].node)
    BY <1>1, <1>6, <2>1, NameType DEF ScriptsCover, Control, Told, Requests
  <2>3. PICK n, S : n \in Nodes /\ n = call[q].node /\ S = call[q].script
    BY <2>2
  <2> QED BY <1>1, <1>2, <2>2, <2>3, GrowsCovers DEF Covers
<1>7. ASSUME NEW q \in Procs, ran'[q] # None
      PROVE  \E e \in applied'[call[q].node] : e.action = call[q].action
  <2>1. CASE ran'[q] = ran[q]
    <3>1. \E e \in applied[call[q].node] : e.action = call[q].action
      BY <1>7, <2>1 DEF ScriptsCover
    <3>2. call[q].node \in Nodes
      BY <1>7, <2>1, NameType DEF Control, Told, ScriptInv, ranInv, Requests
    <3> QED BY <1>2, <3>1, <3>2 DEF Grows
  <2>2. CASE ran'[q] # ran[q]
    BY <1>1, <1>7, <2>2 DEF Writes, OwnOnly
  <2> QED BY <2>1, <2>2
<1> QED
  BY <1>1, <1>3, <1>4, <1>5, <1>6, <1>7 DEF ScriptsCover

LEMMA CallsCover ==
    ASSUME Control, ScriptsCover, NEW p \in Procs, tagInv(p), CallsFor(p), world' = world PROVE ScriptsCover'
<1>1. PICK c \in Requests : Call(p, c) /\ (c.action = "tag-images" => phase[p] = "tag" /\ c.script = toTag(p, c.node))
  BY DEF CallsFor
<1>2. /\ UNCHANGED <<cms, pods, applied, ran>> /\ at' = [at EXCEPT ![p] = "cm"] /\ call' = [call EXCEPT ![p] = c]
      /\ at[p] = "idle"
  BY <1>1 DEF Call, goto
<1>3. call'[p] = c /\ \A q \in Procs \ {p} : call'[q] = call[q] /\ at'[q] = at[q]
  BY <1>2 DEF Control, Told, ScriptInv
<1>4. c.node \in Nodes
  BY DEF Requests
<1>5. Grows
  BY <1>2 DEF Grows
<1>6. c.action = "tag-images" => Covers(c.script, c.node)
  <2> SUFFICES ASSUME c.action = "tag-images", NEW a \in Ours, a \notin current(c.node) PROVE a \in toTag(p, c.node)
    BY <1>1 DEF Covers
  <2>1. a \in tags[p] /\ a \notin seen[p][c.node]
    BY <1>1, <1>4 DEF tagInv
  <2> QED BY <1>4, <2>1 DEF toTag, Ours, present
<1>7. \A n \in Nodes : current(n)' = current(n)
  BY <1>2 DEF current
<1>8. Ours' = Ours
  BY <1>5, GrowsCurrent
<1>9. \A S : \A n \in Nodes : Covers(S, n)' <=> Covers(S, n)
  BY <1>7, <1>8 DEF Covers
<1>10. ASSUME NEW q \in Procs, at'[q] # "idle", call'[q].action = "tag-images"
       PROVE  Covers(call'[q].script, call'[q].node)
  <2>1. CASE q = p
    BY <1>3, <1>6, <1>10, <2>1
  <2>2. CASE q # p
    BY <1>3, <1>10, <2>2 DEF ScriptsCover
  <2> QED BY <2>1, <2>2
<1>11. ASSUME NEW q \in Procs, at'[q] # "idle", call'[q].action = "tag-images"
       PROVE  Covers(call[q].script, call[q].node)'
  <2>1. call'[q].node \in Nodes
    BY <1>3, <1>4, <1>11, NameType DEF Control, Told, Requests
  <2> QED BY <1>7, <1>8, <1>10, <1>11, <2>1 DEF Covers
<1>12. ran[p] = None
  BY <1>2 DEF Control, Told, ScriptInv, ranInv
<1>13. ASSUME NEW q \in Procs, ran'[q] # None PROVE \E e \in applied'[call'[q].node] : e.action = call'[q].action
  BY <1>2, <1>3, <1>12, <1>13 DEF ScriptsCover
<1>14. ASSUME NEW n \in Nodes
       PROVE  /\ cms'[<<"tag-images", n>>] # None => Covers(cms[<<"tag-images", n>>], n)'
              /\ pods'[<<"tag-images", n>>] # None /\ pods'[<<"tag-images", n>>].script # None =>
                     Covers(pods[<<"tag-images", n>>].script, n)'
              /\ \A e \in applied'[n] : e.action = "tag-images" => Ours' \subseteq current(n)'
  BY <1>2, <1>7, <1>8 DEF ScriptsCover, Covers
<1> QED
  BY <1>11, <1>13, <1>14 DEF ScriptsCover

LEMMA LeavesCover ==
    ASSUME Control, ScriptsCover, NEW p \in Procs, Leaves(p), world' = world PROVE ScriptsCover'
<1>1. /\ UNCHANGED <<cms, pods, applied>> /\ at'[p] = "idle" /\ ran'[p] = None
      /\ \A q \in Procs \ {p} : call'[q] = call[q] /\ at'[q] = at[q] /\ ran'[q] = ran[q]
  BY DEF Leaves, forget, Control, Told, ScriptInv
<1>2. (\A n : current(n)' = current(n)) /\ Ours' = Ours
  BY <1>1 DEF current, Ours, present
<1> QED
  BY <1>1, <1>2 DEF ScriptsCover, Covers

LEMMA StutterCovers ==
    ASSUME ScriptsCover, UNCHANGED <<scriptVars, world>> PROVE ScriptsCover'
<1>1. UNCHANGED <<cms, pods, applied, at, call, ran>>
  BY DEF scriptVars
<1>2. (\A n : current(n)' = current(n)) /\ Ours' = Ours
  BY <1>1 DEF current, Ours, present
<1> QED
  BY <1>1, <1>2 DEF ScriptsCover, Covers

LEMMA MountCovers ==
    ASSUME Control, ScriptsCover, NEW n \in Names, Mount(n), world' = world PROVE ScriptsCover'
<1>1. UNCHANGED <<cms, applied, at, call, ran>> /\ pods[n] \in Pods /\ cms[n] # None
      /\ pods' = [pods EXCEPT ![n].script = cms[n], ![n].ready = TRUE]
  BY DEF Mount, Control, Told, ScriptInv
<1>2. pods'[n].script = cms[n] /\ \A m \in Names \ {n} : pods'[m] = pods[m]
  BY <1>1 DEF Control, Told, ScriptInv, Pods
<1>3. (\A m : current(m)' = current(m)) /\ Ours' = Ours
  BY <1>1 DEF current, Ours, present
<1>4. ASSUME NEW m \in Nodes, pods'[<<"tag-images", m>>] # None, pods'[<<"tag-images", m>>].script # None
      PROVE  Covers(pods[<<"tag-images", m>>].script, m)'
  <2>1. PICK x \in Names : x = <<"tag-images", m>>
    BY TagNames
  <2>2. CASE x = n
    <3>1. Covers(cms[x], m)
      BY <1>1, <2>1, <2>2 DEF ScriptsCover
    <3> QED BY <1>2, <1>3, <2>1, <2>2, <3>1 DEF Covers
  <2>3. CASE x # n
    BY <1>2, <1>3, <1>4, <2>1, <2>3 DEF ScriptsCover, Covers
  <2> QED BY <2>2, <2>3
<1> QED
  BY <1>1, <1>3, <1>4 DEF ScriptsCover, Covers

LEMMA EffectsCover ==
    ASSUME Control, ScriptsCover, NEW p \in Procs, tagInv(p), Effects(p), world' = world PROVE ScriptsCover'
<1>1. Return(p) => Leaves(p)
  BY DEF Return, Leaves, goto
<1> QED
  BY <1>1, WorkingCovers, CallsCover, LeavesCover, StutterCovers DEF Effects, Working

\* Whoever keeps its own variables keeps what it knows of the images.
LEMMA KeepTags ==
    ASSUME NEW q \in Procs, tagInv(q), Grows,
           phase'[q] = phase[q], nodes'[q] = nodes[q], seen'[q] = seen[q], tags'[q] = tags[q],
           good'[q] = good[q], bad'[q] = bad[q]
    PROVE  tagInv(q)'
<1>1. Ours' = Ours /\ (Careful' <=> Careful) /\ \A n \in Nodes : current(n) \subseteq current(n)'
  BY GrowsCurrent
<1>2. ImagesThere => ImagesThere'
  BY GrowsImages
<1>3. \A n \in Nodes : seen'[q][n] \subseteq current(n)'
  BY <1>1 DEF tagInv
<1>4. phase'[q] = "tag" =>
        /\ Ours' \subseteq tags'[q]
        /\ good'[q] => \E n \in Nodes : Ours' \subseteq current(n)'
        /\ nodes'[q] # Nodes => good'[q] \/ bad'[q]
        /\ Careful' => ~bad'[q] /\ \A n \in Nodes \ nodes'[q] : Ours' \subseteq current(n)'
  <2> SUFFICES ASSUME phase[q] = "tag"
               PROVE  /\ Ours \subseteq tags[q]
                      /\ good[q] => \E n \in Nodes : Ours \subseteq current(n)'
                      /\ nodes[q] # Nodes => good[q] \/ bad[q]
                      /\ Careful => ~bad[q] /\ \A n \in Nodes \ nodes[q] : Ours \subseteq current(n)'
    BY <1>1
  <2>1. good[q] => \E n \in Nodes : Ours \subseteq current(n)'
    BY <1>1 DEF tagInv
  <2>2. Careful => \A n \in Nodes \ nodes[q] : Ours \subseteq current(n)'
    BY <1>1 DEF tagInv
  <2> QED BY <2>1, <2>2 DEF tagInv
<1> QED
  BY <1>2, <1>3, <1>4 DEF tagInv

\* A step to anything but the tagging, with images if it goes to an application.
LEMMA GoOnTags ==
    ASSUME NEW p \in Procs, tagInv(p), Grows, phase'[p] # "tag", seen'[p] = seen[p],
           phase'[p] \in AppPhases => phase[p] \in AppPhases \/ ImagesThere
    PROVE  tagInv(p)'
<1>1. \A n \in Nodes : seen'[p][n] \subseteq current(n)'
  BY GrowsCurrent DEF tagInv
<1>2. phase'[p] \in AppPhases => ImagesThere'
  BY GrowsImages DEF tagInv
<1> QED
  BY <1>1, <1>2 DEF tagInv

LEMMA EndTags ==
    ASSUME Control, NEW p \in Procs, NEW r \in {"ok", "failed", "killed"}, end(p, r) PROVE tagInv(p)'
<1>1. phase'[p] = "idle" /\ \A n \in Nodes : seen'[p][n] = {}
  BY EndDoes
<1> QED
  BY <1>1 DEF tagInv, AppPhases, ApplyPhases

LEMMA BeginTags ==
    ASSUME Control, NEW p \in Procs, Begin(p) PROVE tagInv(p)'
<1>1. /\ phase' = [phase EXCEPT ![p] = IF world.old = {} THEN "vip" ELSE "tags"]
      /\ seen' = [seen EXCEPT ![p] = [n \in Nodes |-> current(n)]]
      /\ UNCHANGED scriptVars
  BY DEF Begin
<1>2. \A n \in Nodes : current(n)' = current(n)
  BY <1>1 DEF current, scriptVars
<1>3. \A n \in Nodes : seen'[p][n] = current(n)
  BY <1>1 DEF Control, Typing
<1>4. phase'[p] \in {"vip", "tags"}
  BY <1>1 DEF Control, Typing
<1> QED
  BY <1>2, <1>3, <1>4 DEF tagInv, AppPhases, ApplyPhases

LEMMA GetTagsTags ==
    ASSUME Control, Images, NEW p \in Procs, GetTags(p), Grows PROVE tagInv(p)'
<1>1. /\ phase[p] = "tags" /\ phase'[p] = "tag" /\ nodes'[p] = Nodes
      /\ tags'[p] = {a \in Apps : workload[a] \in {"old", "current"}}
      /\ UNCHANGED <<seen, good, bad>>
  BY DEF GetTags, moveTo, Control, Typing
<1>2. ~good[p] /\ ~bad[p]
  BY <1>1 DEF Control, placeInv
<1>3. Ours' = Ours /\ \A n \in Nodes : current(n) \subseteq current(n)'
  BY GrowsCurrent
<1>4. Ours \subseteq tags'[p]
  BY <1>1 DEF Images, Ours
<1>5. \A n \in Nodes : seen'[p][n] \subseteq current(n)'
  BY <1>1, <1>3 DEF Images, tagInv
<1> QED
  BY <1>1, <1>2, <1>3, <1>4, <1>5 DEF tagInv, AppPhases, ApplyPhases

\* A node is done: it has all images of ours, or tagging them failed.
LEMMA NodeTags ==
    ASSUME Control, NEW p \in Procs, tagInv(p), Grows, phase[p] = "tag",
           NEW n \in nodes[p], nodes' = [nodes EXCEPT ![p] = @ \ {n}], UNCHANGED <<phase, seen, tags>>,
           NEW g \in BOOLEAN, good'[p] = (good[p] \/ g), bad'[p] = (bad[p] \/ ~g),
           g => Ours \subseteq current(n),
           Careful => g
    PROVE  tagInv(p)'
<1>1. Ours' = Ours /\ (Careful' <=> Careful) /\ \A m \in Nodes : current(m) \subseteq current(m)'
  BY GrowsCurrent
<1>2. n \in Nodes /\ nodes'[p] = nodes[p] \ {n} /\ good[p] \in BOOLEAN /\ bad[p] \in BOOLEAN
  BY DEF Control, Typing
<1>3. \A m \in Nodes : seen'[p][m] \subseteq current(m)'
  BY <1>1 DEF tagInv
<1>4. good'[p] => \E m \in Nodes : Ours' \subseteq current(m)'
  BY <1>1, <1>2 DEF tagInv
<1>5. Careful' => ~bad'[p]
  BY <1>1, <1>2 DEF tagInv
<1>6. Careful' => \A m \in Nodes \ nodes'[p] : Ours' \subseteq current(m)'
  BY <1>1, <1>2 DEF tagInv
<1>7. Ours' \subseteq tags'[p]
  BY <1>1 DEF tagInv
<1>8. good'[p] \/ bad'[p]
  BY <1>2
<1> QED
  BY <1>3, <1>4, <1>5, <1>6, <1>7, <1>8 DEF tagInv, AppPhases, ApplyPhases

LEMMA TagOnNodeTags ==
    ASSUME Control, NEW p \in Procs, tagInv(p), TagOnNode(p), Grows PROVE tagInv(p)'
<1>1. phase[p] = "tag" /\ nodes[p] # {} /\ UNCHANGED <<phase, seen, tags, bad>>
  BY DEF TagOnNode
<1>2. PICK n : n = first(nodes[p])
  OBVIOUS
<1>3. n \in nodes[p] /\ n \in Nodes
  BY <1>1, <1>2, FirstIn DEF Control, Typing
<1>4. CASE allCurrent(p, n)
  <2>1. nodes' = [nodes EXCEPT ![p] = @ \ {n}] /\ good' = [good EXCEPT ![p] = TRUE]
    BY <1>2, <1>4 DEF TagOnNode
  <2>2. Ours \subseteq current(n)
    BY <1>3, <1>4 DEF tagInv, allCurrent, Ours
  <2>3. good'[p] = (good[p] \/ TRUE) /\ bad'[p] = (bad[p] \/ ~TRUE)
    BY <1>1, <2>1 DEF Control, Typing
  <2> QED
    BY <1>1, <1>3, <2>1, <2>2, <2>3, NodeTags
<1>5. CASE ~allCurrent(p, n)
  <2>1. UNCHANGED <<nodes, good>>
    BY <1>2, <1>5 DEF TagOnNode
  <2> QED BY <1>1, <2>1, KeepTags
<1> QED BY <1>4, <1>5

LEMMA TaggedOnNodeTags ==
    ASSUME Scripted, Images, NEW p \in Procs, TaggedOnNode(p), Grows PROVE tagInv(p)'
<1>1. PICK n \in Nodes : n = call[p].node
  BY ReturnOwn DEF TaggedOnNode, Scripted
<1>2. /\ phase[p] = "tag" /\ at[p] = "done" /\ n \in nodes[p] /\ call[p].action = "tag-images"
      /\ nodes' = [nodes EXCEPT ![p] = @ \ {n}]
      /\ good' = [good EXCEPT ![p] = @ \/ ok[p]] /\ bad' = [bad EXCEPT ![p] = @ \/ ~ok[p]]
      /\ UNCHANGED <<phase, seen, tags>>
  BY <1>1 DEF TaggedOnNode, Return, goto, Scripted, Control, placeInv, scriptOf
<1>3. ok[p] \in BOOLEAN /\ good'[p] = (good[p] \/ ok[p]) /\ bad'[p] = (bad[p] \/ ~ok[p])
  BY <1>2 DEF Scripted, Control, Typing, Told, ScriptInv
<1>4. ok[p] => Ours \subseteq current(n)
  <2> SUFFICES ASSUME ok[p] PROVE Ours \subseteq current(n)
    OBVIOUS
  <2>1. ran[p] # None
    BY DEF Scripted, Control, Told, ScriptInv, ranInv
  <2> QED BY <1>1, <1>2, <2>1 DEF Images, ScriptsCover
<1>5. Careful => ok[p]
  <2> SUFFICES ASSUME Careful PROVE ok[p]
    OBVIOUS
  <2>1. ~met[p] /\ Undisturbed
    BY DEF Careful, Scripted, Alone, Tidy
  <2> QED BY <1>2, <2>1 DEF Undisturbed, succeeds
<1> QED
  BY <1>2, <1>3, <1>4, <1>5, NodeTags DEF Scripted, Images

LEMMA TagDoneTags ==
    ASSUME Control, NEW p \in Procs, tagInv(p), TagDone(p), Grows PROVE tagInv(p)'
<1>1. CASE end(p, "failed")
  BY <1>1, EndTags
<1>2. CASE ~end(p, "failed")
  <2>1. /\ phase[p] = "tag" /\ nodes[p] = {} /\ (good[p] \/ ~bad[p])
        /\ phase' = [phase EXCEPT ![p] = "kubeProxy"] /\ UNCHANGED seen
    BY <1>2 DEF TagDone, moveTo
  <2>2. Nodes # {}
    BY <2>1, WorldType DEF Control, Typing, placeInv
  <2>3. good[p]
    BY <2>1, <2>2 DEF tagInv
  <2>4. ImagesThere
    BY <2>1, <2>3 DEF tagInv, ImagesThere
  <2>5. phase'[p] = "kubeProxy"
    BY <2>1 DEF Control, Typing
  <2> QED BY <2>1, <2>4, <2>5, GoOnTags
<1> QED BY <1>1, <1>2

\* Where a step of the update of an application leads.
AppMoves(p, a) ==
    /\ phase[p] \in AppPhases
    /\ phase'[p] \in {"coreDNS", "flannel", "ui", "vip"} \cup ApplyPhases

LEMMA AppStepMoves ==
    ASSUME Control, NEW p \in Procs, NEW a \in Apps, AppStep(p, a),
           ~ \E r \in {"ok", "failed", "killed"} : end(p, r)
    PROVE  AppMoves(p, a)
<1>1. /\ phase[p] \in {a, applyOf(a)}
      /\ phase' \in {[phase EXCEPT ![p] = after(a)], [phase EXCEPT ![p] = applyOf(a)], [phase EXCEPT ![p] = "vip"]}
  BY DEF AppStep, UpdateApp, ApplyApp, UpdateAppRefused, ApplyAppFails, onError
<1>2. phase'[p] \in {after(a), applyOf(a), "vip"}
  BY <1>1 DEF Control, Typing
<1> QED
  BY <1>1, <1>2, AppPhase DEF AppMoves

\* The steps after the images.
LEMMA LaterTags ==
    ASSUME Control, NEW p \in Procs, tagInv(p), Grows,
           \/ \E a \in Apps : AppStep(p, a)
           \/ VirtualIp(p) \/ Checked(p) \/ CheckDone(p) \/ Upgraded(p) \/ UpgradeDone(p)
           \/ InstallMonitor(p) \/ Fails(p) \/ Kill(p)
    PROVE  tagInv(p)'
<1>1. CASE \E r \in {"ok", "failed", "killed"} : end(p, r)
  BY <1>1, EndTags
<1>2. CASE ~ \E r \in {"ok", "failed", "killed"} : end(p, r)
  <2>1. ASSUME NEW a \in Apps, AppStep(p, a) PROVE tagInv(p)'
    <3>1. AppMoves(p, a) /\ UNCHANGED seen
      BY <1>2, <2>1, AppStepMoves DEF AppStep, UpdateApp, ApplyApp, UpdateAppRefused, ApplyAppFails, onError
    <3>2. phase'[p] # "tag" /\ phase[p] \in AppPhases
      BY <3>1 DEF AppMoves, ApplyPhases
    <3> QED BY <3>1, <3>2, GoOnTags
  <2>2. CASE VirtualIp(p) \/ Checked(p) \/ CheckDone(p) \/ Upgraded(p) \/ UpgradeDone(p) \/ InstallMonitor(p) \/ Fails(p) \/ Kill(p)
    <3>1. phase'[p] \notin {"tag"} \cup AppPhases /\ UNCHANGED seen
      BY <1>2, <2>2 DEF VirtualIp, Checked, CheckDone, Upgraded, UpgradeDone, InstallMonitor, Fails, Kill, moveTo, onError,
         Control, Typing, AppPhases, ApplyPhases
    <3> QED BY <3>1, GoOnTags
  <2> QED BY <2>1, <2>2
<1> QED BY <1>1, <1>2

LEMMA NextTags ==
    ASSUME Scripted, Images, NEW p \in Procs, ProcNext(p), Grows PROVE \A q \in Procs : tagInv(q)'
<1>1. Control /\ tagInv(p) /\ Others(p)
  BY ProcNextOwn DEF Scripted, Images, OwnStep
<1>2. ASSUME NEW q \in Procs, q # p PROVE tagInv(q)'
  BY <1>1, <1>2, KeepTags DEF Images, Others
<1>3. ASSUME InScript(p) \/ ScriptGoesWrong(p) \/ OnControlPlaneNode(p) PROVE tagInv(p)'
  BY <1>1, <1>3, KeepTags DEF InScript, ScriptGoesWrong, OnControlPlaneNode, updateVars
<1>4. ASSUME ~(InScript(p) \/ ScriptGoesWrong(p) \/ OnControlPlaneNode(p)) PROVE tagInv(p)'
  BY <1>1, <1>4, BeginTags, GetTagsTags, TagOnNodeTags, TaggedOnNodeTags, TagDoneTags, LaterTags DEF ProcNext, Command, AppStep
<1> QED BY <1>2, <1>3, <1>4

\* A workload moves to the current tag when its application's turn comes.
LEMMA NextWorkload ==
    ASSUME Control, NEW p \in Procs, ProcNext(p)
    PROVE  \/ workload' = workload
           \/ phase[p] \in AppPhases /\ \E a \in Apps : workload' = [workload EXCEPT ![a] = "current"]
<1>1. ASSUME NEW a \in Apps, AppStep(p, a)
      PROVE  \/ workload' = workload
             \/ phase[p] \in AppPhases /\ \E b \in Apps : workload' = [workload EXCEPT ![b] = "current"]
  <2>1. CASE UpdateApp(p, a) \/ ApplyApp(p, a) \/ UpdateAppRefused(p, a)
    BY <2>1, AppPhase DEF UpdateApp, ApplyApp, UpdateAppRefused, clusterVars
  <2>2. CASE ApplyAppFails(p, a)
    BY <2>2, AppPhase DEF ApplyAppFails, halfApplied, Control, Typing, AppPhases, ApplyPhases, applyOf, Apps
  <2> QED BY <1>1, <2>1, <2>2 DEF AppStep
<1>2. CASE Kill(p)
  BY <1>2, HalfApplied DEF Kill
<1>3. CASE ~ (Kill(p) \/ \E a \in Apps : AppStep(p, a))
  BY <1>3 DEF ProcNext, Command, AppStep, Begin, GetTags, TagOnNode, TaggedOnNode, TagDone, VirtualIp, OnControlPlaneNode,
         Checked, CheckDone, Upgraded, UpgradeDone, InstallMonitor, InScript, ScriptGoesWrong, Fails, clusterVars
<1> QED BY <1>1, <1>2, <1>3

WorkloadsCurrent == \A a \in Ours : workload[a] \in {"old", "current"} /\ (workload[a] = "current" => ImagesThere)

LEMMA NextWorkloadsCurrent ==
    ASSUME Control, Images, NEW p \in Procs, ProcNext(p), Grows PROVE WorkloadsCurrent'
<1>1. Ours' = Ours /\ Ours \subseteq Apps
  BY GrowsCurrent DEF Ours
<1>2. ImagesThere => ImagesThere'
  BY GrowsImages
<1>3. CASE workload' = workload
  BY <1>1, <1>2, <1>3 DEF Images, WorkloadsCurrent
<1>4. CASE phase[p] \in AppPhases /\ \E a \in Apps : workload' = [workload EXCEPT ![a] = "current"]
  <2>1. ImagesThere'
    BY <1>2, <1>4 DEF Images, tagInv
  <2>2. \A a \in Ours : workload'[a] \in {"old", "current"}
    BY <1>1, <1>4 DEF Images, Control, Typing
  <2> QED BY <1>1, <2>1, <2>2 DEF WorkloadsCurrent
<1> QED BY <1>3, <1>4, NextWorkload

LEMMA NextImages ==
    ASSUME Scripted, Images, [Next]_vars PROVE Images'
<1>1. ASSUME NEW p \in Procs, ProcNext(p) PROVE Images'
  <2>1. Control /\ Effects(p) /\ world' = world
    BY <1>1, NextEffects DEF Scripted
  <2>2. Grows
    BY <2>1, EffectsGrow
  <2>3. ScriptsCover'
    BY <2>1, EffectsCover DEF Images
  <2>4. (\A q \in Procs : tagInv(q)') /\ WorkloadsCurrent'
    BY <1>1, <2>1, <2>2, NextTags, NextWorkloadsCurrent
  <2> QED BY <2>3, <2>4 DEF Images, WorkloadsCurrent
<1>2. ASSUME UNCHANGED <<updateVars, clusterVars, applied, world>>, ScriptsCover' PROVE Images'
  <2>0. Grows
    BY <1>2 DEF Grows
  <2>1. Grows /\ Ours' = Ours
    BY <2>0, GrowsCurrent
  <2>2. ImagesThere => ImagesThere'
    BY <2>1, GrowsImages
  <2>3. \A q \in Procs : tagInv(q)'
    BY <1>2, <2>1, KeepTags DEF Images, updateVars
  <2>4. WorkloadsCurrent'
    BY <1>2, <2>1, <2>2 DEF Images, WorkloadsCurrent, clusterVars
  <2> QED BY <1>2, <2>3, <2>4 DEF Images, WorkloadsCurrent
<1>3. CASE Kubelet
  <2>1. PICK n \in Names : Mount(n) /\ UNCHANGED <<updateVars, clusterVars, applied, world>>
    BY <1>3 DEF Kubelet, Mount
  <2>2. ScriptsCover'
    BY <2>1, MountCovers DEF Scripted, Images
  <2> QED BY <1>2, <2>1, <2>2
<1>4. CASE UNCHANGED vars
  <2>1. UNCHANGED <<updateVars, clusterVars, applied, world, scriptVars>>
    BY <1>4 DEF vars, scriptVars
  <2>2. ScriptsCover'
    BY <2>1, StutterCovers DEF Images
  <2> QED BY <1>2, <2>1, <2>2
<1> QED
  BY <1>1, <1>3, <1>4 DEF Next, ProcNext

LEMMA InitImages == Init => Images
<1> SUFFICES ASSUME Init PROVE Images
  OBVIOUS
<1>1. ScriptsCover
  BY TagNames DEF Init, ScriptInit, ScriptsCover
<1>2. \A p \in Procs : tagInv(p)
  BY DEF Init, tagInv, AppPhases, ApplyPhases
<1>3. \A a \in Ours : workload[a] = "old"
  BY DEF Init, Ours
<1> QED BY <1>1, <1>2, <1>3 DEF Images

-----------------------------------------------------------------------------
(* The monitor comes last                                                   *)

LEMMA GrowsHandedOver ==
    ASSUME Grows, NEW n \in Nodes, handedOver(n) PROVE handedOver(n)'
BY DEF Grows, handedOver

LEMMA KeepVip ==
    ASSUME Control, NEW q \in Procs, vipInv(q), Grows, phase'[q] = phase[q], nodes'[q] = nodes[q] PROVE vipInv(q)'
<1>1. world' = world /\ world.cps \subseteq Nodes
  BY WorldType DEF Control, Typing, Grows
<1>2. \A n \in Nodes : handedOver(n) => handedOver(n)'
  BY GrowsHandedOver
<1> QED BY <1>1, <1>2 DEF vipInv

LEMMA OutsideVip ==
    ASSUME NEW p \in Procs, phase'[p] \notin {"upgrade", "monitor"} PROVE vipInv(p)'
BY DEF vipInv

LEMMA UpgradedVip ==
    ASSUME Scripted, Images, NEW p \in Procs, vipInv(p), Upgraded(p), Grows PROVE vipInv(p)'
<1>1. Control /\ Return(p) /\ phase[p] = "upgrade"
  BY DEF Scripted, Upgraded
<1>2. PICK n \in Nodes : n = call[p].node
  BY <1>1, ReturnOwn
<1>3. CASE end(p, "failed")
  BY <1>1, <1>3, EndDoes, OutsideVip
<1>4. CASE ~end(p, "failed")
  <2>1. ok[p] /\ nodes' = [nodes EXCEPT ![p] = @ \ {n}] /\ UNCHANGED phase
    BY <1>2, <1>4 DEF Upgraded
  <2>2. ran[p] # None
    BY <2>1 DEF Scripted, Control, Told, ScriptInv, ranInv
  <2>3. call[p].action = "upgrade-vips"
    BY <1>1 DEF Return, goto, Control, placeInv, scriptOf
  <2>4. handedOver(n)
    BY <1>2, <2>2, <2>3 DEF Images, ScriptsCover, handedOver
  <2>5. nodes'[p] = nodes[p] \ {n} /\ world' = world /\ world.cps \subseteq Nodes
    BY <1>1, <2>1, WorldType DEF Control, Typing, Grows
  <2>6. \A m \in Nodes : handedOver(m) => handedOver(m)'
    BY GrowsHandedOver
  <2> QED BY <1>1, <2>1, <2>4, <2>5, <2>6 DEF vipInv
<1> QED BY <1>3, <1>4

LEMMA NextVip ==
    ASSUME Scripted, Images, NEW p \in Procs, vipInv(p), ProcNext(p), Grows PROVE vipInv(p)'
<1>1. Control /\ world' = world /\ world.cps \subseteq Nodes
  BY WorldType DEF Scripted, Control, Typing, Grows
<1>2. CASE Upgraded(p)
  BY <1>2, UpgradedVip
<1>3. CASE \E r \in {"ok", "failed", "killed"} : end(p, r)
  BY <1>1, <1>3, EndDoes, OutsideVip
<1>4. CASE CheckDone(p)
  <2>1. phase'[p] = "upgrade" /\ nodes'[p] = world.cps
    BY <1>1, <1>4 DEF CheckDone, moveTo, Control, Typing
  <2> QED BY <1>1, <2>1 DEF vipInv
<1>5. CASE UpgradeDone(p)
  <2>1. phase[p] = "upgrade" /\ phase'[p] = "monitor" /\ nodes[p] = {}
    BY <1>1, <1>5 DEF UpgradeDone, moveTo, Control, Typing
  <2>2. \A n \in Nodes : handedOver(n) => handedOver(n)'
    BY GrowsHandedOver
  <2> QED BY <1>1, <2>1, <2>2 DEF vipInv
<1>6. CASE InScript(p) \/ ScriptGoesWrong(p) \/ OnControlPlaneNode(p)
  BY <1>1, <1>6, KeepVip DEF InScript, ScriptGoesWrong, OnControlPlaneNode, updateVars
<1>7. ASSUME NEW a \in Apps, AppStep(p, a), ~ \E r \in {"ok", "failed", "killed"} : end(p, r)
      PROVE  vipInv(p)'
  <2>1. phase'[p] \notin {"upgrade", "monitor"}
    BY <1>1, <1>7, AppStepMoves DEF AppMoves, ApplyPhases
  <2> QED BY <2>1, OutsideVip
<1>8. CASE /\ \/ Begin(p) \/ GetTags(p) \/ TagOnNode(p) \/ TaggedOnNode(p) \/ TagDone(p)
              \/ VirtualIp(p) \/ Checked(p) \/ InstallMonitor(p) \/ Fails(p) \/ Kill(p)
           /\ ~ \E r \in {"ok", "failed", "killed"} : end(p, r)
  <2>1. phase'[p] \notin {"upgrade", "monitor"}
    BY <1>1, <1>8 DEF Begin, GetTags, TagOnNode, TaggedOnNode, TagDone, VirtualIp, Checked, InstallMonitor, Fails, Kill,
       moveTo, onError, Control, Typing
  <2> QED BY <2>1, OutsideVip
<1> QED
  BY <1>2, <1>3, <1>4, <1>5, <1>6, <1>7, <1>8 DEF ProcNext, Command, AppStep

\* The release of the monitor changes when it is installed, and only then.
LEMMA NextMonitor ==
    ASSUME Control, NEW p \in Procs, ProcNext(p)
    PROVE  \/ release'[Monitor] = release[Monitor]
           \/ InstallMonitor(p) /\ phase[p] = "monitor" /\ release'[Monitor] = "current"
<1>0. Monitor \notin Apps
  BY DEF Monitor, Apps
<1>1. ASSUME NEW a \in Apps, AppStep(p, a)
      PROVE  release'[Monitor] = release[Monitor]
  <2>1. release' = release \/ \E r \in {"pending", "current"} : release' = [release EXCEPT ![a] = r]
    BY <1>1 DEF AppStep, UpdateApp, ApplyApp, UpdateAppRefused, ApplyAppFails, clusterVars
  <2> QED BY <1>0, <2>1 DEF Control, Typing
<1>2. CASE InstallMonitor(p)
  <2>1. phase[p] = "monitor" /\ (release' = release \/ release' = [release EXCEPT ![Monitor] = "current"])
    BY <1>2 DEF InstallMonitor
  <2> QED BY <1>2, <2>1 DEF Control, Typing
<1>3. CASE ~ (\/ \E a \in Apps : AppStep(p, a)
              \/ InstallMonitor(p))
  BY <1>3 DEF ProcNext, Command, AppStep, Begin, GetTags, TagOnNode, TaggedOnNode, TagDone, VirtualIp, OnControlPlaneNode,
         Checked, CheckDone, Upgraded, UpgradeDone, InScript, ScriptGoesWrong, Fails, Kill, clusterVars
<1> QED BY <1>1, <1>2, <1>3

LEMMA KeepMonitor ==
    ASSUME Control, HandOver, Grows, release'[Monitor] = release[Monitor]
    PROVE  release'[Monitor] \in {"none", "current"} /\ MonitorLast'
<1>1. world' = world /\ world.cps \subseteq Nodes
  BY WorldType DEF Control, Typing, Grows
<1>2. \A n \in Nodes : handedOver(n) => handedOver(n)'
  BY GrowsHandedOver
<1> QED BY <1>1, <1>2 DEF HandOver, MonitorLast

LEMMA NextHandOver ==
    ASSUME Scripted, Images, HandOver, [Next]_vars PROVE HandOver'
<1>0. Control
  BY DEF Scripted
<1>1. ASSUME NEW p \in Procs, ProcNext(p) PROVE HandOver'
  <2>1. Effects(p) /\ world' = world /\ Others(p)
    BY <1>0, <1>1, NextEffects, ProcNextOwn DEF OwnStep
  <2>2. Grows
    BY <1>0, <2>1, EffectsGrow
  <2>3. ASSUME NEW q \in Procs PROVE vipInv(q)'
    <3>1. CASE q = p
      BY <1>1, <2>2, <3>1, NextVip DEF HandOver
    <3>2. CASE q # p
      BY <1>0, <2>1, <2>2, <3>2, KeepVip DEF HandOver, Others
    <3> QED BY <3>1, <3>2
  <2>4. CASE release'[Monitor] = release[Monitor]
    BY <1>0, <2>2, <2>3, <2>4, KeepMonitor DEF HandOver
  <2>5. CASE phase[p] = "monitor" /\ release'[Monitor] = "current"
    <3>1. \A n \in world.cps : handedOver(n)
      BY <2>5 DEF HandOver, vipInv
    <3>2. world.cps \subseteq Nodes
      BY <1>0, WorldType DEF Control, Typing
    <3>3. \A n \in Nodes : handedOver(n) => handedOver(n)'
      BY <2>2, GrowsHandedOver
    <3>4. MonitorLast'
      BY <2>1, <3>1, <3>2, <3>3 DEF MonitorLast
    <3> QED BY <2>3, <2>5, <3>4 DEF HandOver
  <2> QED BY <1>0, <1>1, <2>4, <2>5, NextMonitor
<1>2. ASSUME UNCHANGED <<updateVars, clusterVars, applied, world>> PROVE HandOver'
  <2>1. Grows
    BY <1>2 DEF Grows
  <2>2. \A q \in Procs : vipInv(q)'
    BY <1>0, <1>2, <2>1, KeepVip DEF HandOver, updateVars
  <2> QED BY <1>0, <1>2, <2>1, <2>2, KeepMonitor DEF HandOver, clusterVars
<1>3. Kubelet => UNCHANGED <<updateVars, clusterVars, applied, world>>
  BY DEF Kubelet, Mount
<1>4. UNCHANGED vars => UNCHANGED <<updateVars, clusterVars, applied, world>>
  BY DEF vars, scriptVars
<1> QED
  BY <1>1, <1>2, <1>3, <1>4 DEF Next, ProcNext

LEMMA InitHandOver == Init => HandOver
<1> SUFFICES ASSUME Init PROVE HandOver
  OBVIOUS
<1>1. release[Monitor] = "none"
  BY DEF Init
<1>2. \A p \in Procs : vipInv(p)
  BY DEF Init, vipInv
<1> QED BY <1>1, <1>2 DEF HandOver, MonitorLast

Ordered == Scripted /\ Images /\ HandOver

LEMMA OrderedHolds == Spec => []Ordered
<1>1. Init => Ordered
  BY InitScripted, InitImages, InitHandOver DEF Ordered
<1>2. Ordered /\ [Next]_vars => Ordered'
  BY NextScripted, NextImages, NextHandOver DEF Ordered
<1> QED BY <1>1, <1>2, PTL DEF Spec

LEMMA OrderedInOrder == Ordered => ChangesInOrder
<1> SUFFICES ASSUME Ordered PROVE ChangesInOrder
  OBVIOUS
<1>1. UpdateInv
  BY DEF Ordered, Scripted, Control, Told, Typing, placeInv, UpdateInv
<1>2. CurrentBeforeUse
  BY DEF Ordered, Images, ImagesThere, Careful, Ours, CurrentBeforeUse
<1>3. MonitorLast
  BY DEF Ordered, HandOver
<1> QED BY <1>1, <1>2, <1>3 DEF ChangesInOrder

\* oneThirtyAndLower and virtualIp, for any number of commands at a time: an
\* application only runs the current tag once a node has its image under that
\* tag (every node, if commands do not overlap and the API answers), and the
\* monitor is only installed when every control plane node obeys it.
THEOREM UpdatesInOrder == Spec => []ChangesInOrder
BY OrderedHolds, OrderedInOrder, PTL

-----------------------------------------------------------------------------
(* A command without errors settles the cluster                             *)

\* What a step may do to an application.
Moves ==
    /\ world' = world
    /\ \A a \in Apps :
        \/ release'[a] = release[a] /\ workload'[a] \in {workload[a], "current"}
        \/ release'[a] = "pending" /\ workload'[a] = workload[a]
        \/ release'[a] = "current" /\ workload'[a] = "current"
    /\ release'[Monitor] \in {release[Monitor], "current"}

LEMMA NextMoves ==
    ASSUME Control, NEW p \in Procs, ProcNext(p) PROVE Moves
<1>1. world' = world /\ release'[Monitor] \in {release[Monitor], "current"}
  BY NextEffects, NextMonitor
<1>2. Monitor \notin Apps
  BY DEF Monitor, Apps
<1>3. CASE release' = release /\ \A a \in Apps : workload'[a] \in {workload[a], "current"}
  BY <1>1, <1>3 DEF Moves
<1>4. ASSUME NEW a \in Apps, UpdateApp(p, a)
      PROVE  Moves
  <2>1. workload' = workload /\ release' \in {release, [release EXCEPT ![a] = "pending"]}
    BY <1>4 DEF UpdateApp
  <2> QED BY <1>1, <2>1 DEF Moves, Control, Typing
<1>5. ASSUME NEW a \in Apps, ApplyApp(p, a)
      PROVE  Moves
  <2>1. release' = [release EXCEPT ![a] = "current"] /\ workload' = [workload EXCEPT ![a] = "current"]
    BY <1>5 DEF ApplyApp
  <2> QED BY <1>1, <2>1 DEF Moves, Control, Typing
<1>6. CASE InstallMonitor(p)
  <2>1. workload' = workload /\ (release' = release \/ release' = [release EXCEPT ![Monitor] = "current"])
    BY <1>6 DEF InstallMonitor
  <2>2. \A a \in Apps : release'[a] = release[a] /\ workload'[a] = workload[a]
    BY <1>2, <2>1 DEF Control, Typing
  <2> QED BY <1>1, <2>2 DEF Moves
<1>7. ASSUME Kill(p) \/ \E a \in Apps : ApplyAppFails(p, a)
      PROVE  Moves
  <2>1. release' = release /\ halfApplied(p)
    BY <1>7 DEF Kill, ApplyAppFails
  <2> QED BY <1>3, <2>1, HalfApplied
<1>8. CASE ~ \/ \E a \in Apps : UpdateApp(p, a) \/ ApplyApp(p, a) \/ ApplyAppFails(p, a)
             \/ InstallMonitor(p) \/ Kill(p)
  <2>1. UNCHANGED <<release, workload>>
    BY <1>8 DEF ProcNext, Command, Begin, GetTags, TagOnNode, TaggedOnNode, TagDone, UpdateAppRefused, VirtualIp,
         OnControlPlaneNode, Checked, CheckDone, Upgraded, UpgradeDone, InScript, ScriptGoesWrong, Fails, clusterVars
  <2> QED BY <1>3, <2>1
<1> QED BY <1>4, <1>5, <1>6, <1>7, <1>8

LEMMA MovesDone ==
    ASSUME Control, Moves, NEW a \in Apps, doneApp(a) PROVE doneApp(a)'
BY DEF Moves, doneApp, notOurs

\* The two halves of settleInv.
appsInv(p) ==
    clean[p] /\ world.old # {} => \A a \in Apps : (phase[p] \in past(a) \/ result[p] = "ok") => doneApp(a)
monitorInv(p) ==
    clean[p] /\ result[p] = "ok" /\ world.vip = "vip" => release[Monitor] = "current"

LEMMA Halves == \A p \in Procs : settleInv(p) <=> appsInv(p) /\ monitorInv(p)
BY DEF settleInv, appsInv, monitorInv

\* Nothing more is promised than was.
LEMMA KeepApps ==
    ASSUME Control, Moves, NEW p \in Procs, appsInv(p),
           clean'[p] => clean[p],
           \A a \in Apps : phase'[p] \in past(a) \/ result'[p] = "ok" => phase[p] \in past(a) \/ result[p] = "ok"
    PROVE  appsInv(p)'
<1>1. \A a \in Apps : doneApp(a) => doneApp(a)'
  BY MovesDone
<1>2. world' = world
  BY DEF Moves
<1>3. \A a \in Apps : past(a)' = past(a)
  BY DEF past
<1> QED BY <1>1, <1>2, <1>3 DEF appsInv

LEMMA KeepMonitored ==
    ASSUME Moves, NEW p \in Procs, monitorInv(p),
           clean'[p] => clean[p], result'[p] = "ok" => result[p] = "ok"
    PROVE  monitorInv(p)'
BY DEF Moves, monitorInv

LEMMA Unclean ==
    ASSUME NEW p \in Procs, ~clean'[p] PROVE settleInv(p)'
BY DEF settleInv

LEMMA Idle == \A a \in Apps : /\ past(a) \subseteq {"coreDNS", "flannel", "ui"} \cup ApplyPhases \cup VipPhases
                              /\ VipPhases \subseteq past(a)
BY DEF Apps, past, VipPhases, ApplyPhases

\* A command that leaves an application without helm had nothing to do.
LEMMA NothingToDo ==
    ASSUME Control, Settling, NEW a \in Apps, ~helmDoes(plan(a, release[a]), release[a]) PROVE doneApp(a)
<1>1. plan(a, release[a]) # "update" /\ ~(plan(a, release[a]) = "install" /\ release[a] = "none")
  BY DEF helmDoes
<1>2. release[a] \in {"none", "untagged", "old", "pending", "current"}
  BY DEF Control, Typing
<1>3. release[a] = "current" => workload[a] = "current"
  BY DEF Settling
<1>4. CASE a = "ui"
  BY <1>1, <1>2, <1>3, <1>4 DEF plan, updateUI, doneApp, notOurs
<1>5. CASE a = "flannel"
  BY <1>1, <1>2, <1>3, <1>5 DEF plan, updateFlannel, doneApp, notOurs
<1>6. CASE a \in {"kubeProxy", "coreDNS"}
  BY <1>1, <1>2, <1>3, <1>6 DEF plan, updateKubeProxy, updateCoreDNS, doneApp, notOurs
<1> QED BY <1>4, <1>5, <1>6 DEF Apps

LEMMA PastOf ==
    ASSUME NEW a \in Apps, NEW b \in Apps
    PROVE  /\ after(a) \in past(b) => b = a \/ a \in past(b)
           /\ applyOf(a) \in past(b) => a \in past(b)
           /\ a \in past(b) => applyOf(a) \in past(b)
BY DEF after, applyOf, past, Apps, VipPhases

\* An application is left behind when it is done.
LEMMA LeftSettles ==
    ASSUME Control, Settling, Moves, NEW p \in Procs, NEW a \in Apps, phase[p] \in {a, applyOf(a)},
           phase' = [phase EXCEPT ![p] = after(a)], UNCHANGED result, clean'[p] => clean[p],
           clean'[p] => doneApp(a)'
    PROVE  settleInv(p)'
<1> SUFFICES ASSUME clean'[p] PROVE settleInv(p)'
  BY Unclean
<1>1. phase'[p] = after(a) /\ world' = world /\ clean[p]
  BY DEF Control, Typing, Moves
<1>2. phase[p] # "idle"
  BY AppPhase DEF AppPhases, ApplyPhases
<1>3. result[p] = "runs"
  BY <1>2 DEF Control, placeInv
<1>4. appsInv(p)
  BY Halves DEF Settling
<1>5. \A b \in Apps : a \in past(b) /\ world.old # {} => doneApp(b)
  BY <1>1, <1>4, PastOf DEF appsInv
<1>6. \A b \in Apps : doneApp(b) => doneApp(b)'
  BY MovesDone
<1>7. appsInv(p)'
  <2> SUFFICES ASSUME world.old # {}, NEW b \in Apps, after(a) \in past(b) PROVE doneApp(b)'
    BY <1>1, <1>3 DEF appsInv, past
  <2> QED BY <1>5, <1>6, PastOf
<1>8. monitorInv(p)'
  BY <1>3 DEF monitorInv
<1> QED BY <1>7, <1>8 DEF settleInv, appsInv, monitorInv

\* p keeps its halves when it promises no more.
LEMMA KeepSettled ==
    ASSUME Control, Moves, NEW p \in Procs, settleInv(p),
           clean'[p] => clean[p], result'[p] = "ok" => result[p] = "ok",
           \A a \in Apps : phase'[p] \in past(a) => phase[p] \in past(a)
    PROVE  settleInv(p)'
<1>1. appsInv(p) /\ monitorInv(p)
  BY Halves
<1>2. appsInv(p)'
  BY <1>1, KeepApps
<1>3. monitorInv(p)'
  BY <1>1, KeepMonitored
<1> QED BY <1>2, <1>3 DEF settleInv, appsInv, monitorInv

LEMMA UpdateAppSettles ==
    ASSUME Control, Settling, NEW p \in Procs, NEW a \in Apps, UpdateApp(p, a), Moves PROVE settleInv(p)'
<1>1. PICK r \in getReleases(a), s \in getReleases(a) :
          /\ IF helmDoes(plan(a, r), s)
             THEN phase' = [phase EXCEPT ![p] = applyOf(a)]
             ELSE phase' = [phase EXCEPT ![p] = after(a)] /\ UNCHANGED release
          /\ clean' = [clean EXCEPT ![p] = @ /\ r = release[a] /\ s = release[a]]
  BY DEF UpdateApp
<1>2. phase[p] = a /\ UNCHANGED <<workload, result>>
  BY DEF UpdateApp
<1>3. clean'[p] => clean[p] /\ r = release[a] /\ s = release[a]
  BY <1>1 DEF Control, Typing
<1>4. CASE helmDoes(plan(a, r), s)
  <2>1. phase'[p] = applyOf(a)
    BY <1>1, <1>4 DEF Control, Typing
  <2>2. settleInv(p)
    BY DEF Settling
  <2> QED BY <1>2, <1>3, <2>1, <2>2, PastOf, KeepSettled
<1>5. CASE ~helmDoes(plan(a, r), s)
  <2>1. clean'[p] => doneApp(a)
    BY <1>3, <1>5, NothingToDo
  <2>2. clean'[p] => doneApp(a)'
    BY <2>1, MovesDone
  <2> QED BY <1>1, <1>2, <1>3, <1>5, <2>2, LeftSettles
<1> QED BY <1>4, <1>5

LEMMA ApplyAppSettles ==
    ASSUME Control, Settling, NEW p \in Procs, NEW a \in Apps, ApplyApp(p, a), Moves PROVE settleInv(p)'
<1>1. /\ phase[p] = applyOf(a) /\ phase' = [phase EXCEPT ![p] = after(a)] /\ UNCHANGED <<clean, result>>
      /\ workload' = [workload EXCEPT ![a] = "current"]
  BY DEF ApplyApp
<1>2. doneApp(a)'
  BY <1>1 DEF Control, Typing, doneApp
<1> QED BY <1>1, <1>2, LeftSettles

LEMMA VirtualIpSettles ==
    ASSUME Control, HandOver, Moves, NEW p \in Procs, settleInv(p), VirtualIp(p) PROVE settleInv(p)'
<1> SUFFICES ASSUME clean'[p] PROVE settleInv(p)'
  BY Unclean
<1>1. PICK r : /\ IF r # "none" \/ ~isVipableProvider THEN end(p, "ok") ELSE moveTo(p, "vip", "check") /\ UNCHANGED result
               /\ clean' = [clean EXCEPT ![p] = @ /\ r = release[Monitor]]
  BY DEF VirtualIp
<1>2. clean[p] /\ r = release[Monitor] /\ phase[p] = "vip" /\ UNCHANGED <<release, world>>
  BY <1>1 DEF VirtualIp, Control, Typing, clusterVars
<1>3. \A a \in Apps : phase[p] \in past(a)
  BY <1>2, Idle DEF VipPhases
<1>4. appsInv(p)'
  BY <1>2, <1>3, KeepApps, Halves
<1>5. monitorInv(p)'
  <2>1. CASE r # "none" \/ ~isVipableProvider
    BY <1>2, <2>1 DEF isVipableProvider, monitorInv, HandOver
  <2>2. CASE ~(r # "none" \/ ~isVipableProvider)
    <3>1. result[p] = "runs" /\ result' = result
      BY <1>1, <1>2, <2>2 DEF Control, placeInv
    <3> QED BY <3>1 DEF monitorInv
  <2> QED BY <2>1, <2>2
<1> QED BY <1>4, <1>5 DEF settleInv, appsInv, monitorInv

LEMMA CheckedSettles ==
    ASSUME Control, Moves, NEW p \in Procs, settleInv(p), Checked(p) PROVE settleInv(p)'
<1>1. phase[p] = "check" /\ clean' = [clean EXCEPT ![p] = @ /\ ~met[p]] /\ world' = world
      /\ (end(p, "failed") \/ (world.vip = "none" /\ end(p, "ok")) \/ UNCHANGED <<phase, result>>)
  BY DEF Checked
<1>2. clean'[p] => clean[p]
  BY <1>1 DEF Control, Typing
<1>3. \A a \in Apps : phase[p] \in past(a)
  BY <1>1, Idle DEF VipPhases
<1>4. appsInv(p)'
  BY <1>2, <1>3, KeepApps, Halves
<1>5. monitorInv(p)'
  <2>1. result'[p] = "ok" => world.vip = "none"
    BY <1>1, EndDoes DEF Control, placeInv
  <2> QED BY <1>1, <2>1 DEF monitorInv
<1> QED BY <1>4, <1>5 DEF settleInv, appsInv, monitorInv

LEMMA InstallMonitorSettles ==
    ASSUME Control, Moves, NEW p \in Procs, settleInv(p), InstallMonitor(p) PROVE settleInv(p)'
<1> SUFFICES ASSUME clean'[p] PROVE settleInv(p)'
  BY Unclean
<1>1. PICK done \in BOOLEAN : /\ release' = IF done THEN [release EXCEPT ![Monitor] = "current"] ELSE release
                              /\ clean' = [clean EXCEPT ![p] = @ /\ done]
  BY DEF InstallMonitor
<1>2. clean[p] /\ done /\ phase[p] = "monitor"
  BY <1>1 DEF InstallMonitor, Control, Typing
<1>3. release'[Monitor] = "current"
  BY <1>1, <1>2 DEF Control, Typing
<1>4. \A a \in Apps : phase[p] \in past(a)
  BY <1>2, Idle DEF VipPhases
<1>5. appsInv(p)'
  BY <1>2, <1>4, KeepApps, Halves
<1> QED BY <1>3, <1>5 DEF settleInv, appsInv, monitorInv

LEMMA VipDoneSettles ==
    ASSUME Control, Moves, NEW p \in Procs, settleInv(p), CheckDone(p) \/ UpgradeDone(p) \/ Upgraded(p)
    PROVE  settleInv(p)'
<1>1. phase[p] \in VipPhases /\ (clean'[p] => clean[p])
  BY DEF CheckDone, UpgradeDone, Upgraded, moveTo, VipPhases, Control, Typing
<1>2. result'[p] = "ok" => result[p] = "ok"
  BY EndDoes DEF CheckDone, UpgradeDone, Upgraded
<1>3. \A a \in Apps : phase[p] \in past(a)
  BY <1>1, Idle
<1> QED BY <1>1, <1>2, <1>3, KeepSettled

\* Steps before the applications, and failures.
LEMMA EarlySettles ==
    ASSUME Control, Moves, NEW p \in Procs, settleInv(p),
           GetTags(p) \/ TagOnNode(p) \/ TaggedOnNode(p) \/ TagDone(p)
    PROVE  settleInv(p)'
<1>1. clean'[p] => clean[p]
  BY DEF GetTags, TagOnNode, TaggedOnNode, TagDone, Control, Typing
<1>2. phase'[p] \in {"tag", "idle", "kubeProxy"}
  BY EndDoes DEF GetTags, TagOnNode, TaggedOnNode, TagDone, moveTo, Control, Typing
<1>3. result'[p] = "ok" => result[p] = "ok"
  BY EndDoes DEF GetTags, TagOnNode, TaggedOnNode, TagDone
<1>4. \A a \in Apps : phase'[p] \notin past(a)
  BY <1>2, Idle DEF ApplyPhases, VipPhases
<1> QED BY <1>1, <1>3, <1>4, KeepSettled

LEMMA BeginSettles ==
    ASSUME Control, NEW p \in Procs, Begin(p) PROVE settleInv(p)'
<1>1. /\ world' = world /\ phase' = [phase EXCEPT ![p] = IF world.old = {} THEN "vip" ELSE "tags"]
      /\ result' = [result EXCEPT ![p] = "runs"]
  BY DEF Begin
<1>2. result'[p] = "runs" /\ (world.old # {} => phase'[p] = "tags")
  BY <1>1 DEF Control, Typing
<1>3. \A a \in Apps : "tags" \notin past(a)
  BY Idle DEF ApplyPhases, VipPhases
<1> QED BY <1>1, <1>2, <1>3 DEF settleInv, past

LEMMA InScriptSettles ==
    ASSUME Control, Moves, NEW p \in Procs, settleInv(p), InScript(p) \/ OnControlPlaneNode(p) PROVE settleInv(p)'
<1>1. UNCHANGED <<phase, result, clean>>
  BY DEF InScript, OnControlPlaneNode, updateVars
<1> QED BY <1>1, KeepSettled

LEMMA WrongSettles ==
    ASSUME Control, NEW p \in Procs,
           ScriptGoesWrong(p) \/ Fails(p) \/ Kill(p) \/ \E a \in Apps : UpdateAppRefused(p, a) \/ ApplyAppFails(p, a)
    PROVE  settleInv(p)'
<1>1. clean' = [clean EXCEPT ![p] = FALSE]
  BY DEF ScriptGoesWrong, Fails, Kill, UpdateAppRefused, ApplyAppFails
<1> QED BY <1>1, Unclean DEF Control, Typing

LEMMA NextSettleInv ==
    ASSUME Control, HandOver, Settling, NEW p \in Procs, ProcNext(p)
    PROVE  \A q \in Procs : settleInv(q)'
<1>1. Moves /\ Others(p) /\ settleInv(p)
  BY NextMoves, ProcNextOwn DEF OwnStep, Settling
<1>2. ASSUME NEW q \in Procs, q # p PROVE settleInv(q)'
  <2>1. UNCHANGED <<phase[q], result[q], clean[q]>>
    BY <1>1, <1>2 DEF Others
  <2> QED BY <1>1, <2>1, KeepSettled DEF Settling
<1>3. settleInv(p)'
  BY <1>1, UpdateAppSettles, ApplyAppSettles, VirtualIpSettles, CheckedSettles, InstallMonitorSettles, VipDoneSettles, EarlySettles,
     BeginSettles, InScriptSettles, WrongSettles DEF ProcNext, Command
<1> QED BY <1>2, <1>3

\* Whoever records a pending release is at work on it, and only leaves it when
\* it is applied or something went wrong.
LEMMA NextUnfinished ==
    ASSUME Control, Unfinished, NEW p \in Procs, ProcNext(p) PROVE Unfinished'
<1>1. Moves /\ Others(p)
  BY NextMoves, ProcNextOwn DEF OwnStep
<1>2. SUFFICES ASSUME NEW a \in Apps, release'[a] = "pending", {"helm", "api", "kill"} \cap world.faults = {}
               PROVE  applying(a)'
  BY <1>1 DEF Unfinished, interrupted, Moves
<1>3. ~Kill(p) /\ ~Fails(p) /\ \A b \in Apps : ~ApplyAppFails(p, b)
  BY <1>2 DEF Kill, Fails, apiError, ApplyAppFails
<1>4. CASE release[a] = "pending"
  <2>1. PICK q \in Procs : phase[q] = applyOf(a)
    BY <1>2, <1>4 DEF Unfinished, interrupted, applying
  <2>2. CASE q # p
    BY <1>1, <2>1, <2>2 DEF Others, applying
  <2>3. CASE q = p
    <3>1. phase[p] \in ApplyPhases
      BY <2>1, <2>3, AppPhase
    <3>2. \A b \in Apps : ~UpdateApp(p, b) /\ ~UpdateAppRefused(p, b)
      BY <3>1 DEF ApplyPhases, Apps, UpdateApp, UpdateAppRefused
    <3>3. ASSUME NEW b \in Apps, ApplyApp(p, b) PROVE FALSE
      <4>1. applyOf(b) = applyOf(a) /\ release' = [release EXCEPT ![b] = "current"]
        BY <2>1, <2>3, <3>3 DEF ApplyApp
      <4>2. b = a
        BY <4>1 DEF applyOf, Apps
      <4> QED BY <1>2, <4>1, <4>2 DEF Control, Typing
    <3>4. phase' = phase
      BY <1>3, <3>1, <3>2, <3>3 DEF ProcNext, Command, Begin, GetTags, TagOnNode, TaggedOnNode, TagDone, VirtualIp,
         OnControlPlaneNode, Checked, CheckDone, Upgraded, UpgradeDone, InstallMonitor, InScript, ScriptGoesWrong,
         updateVars, moveTo, ApplyPhases
    <3> QED BY <2>1, <2>3, <3>4 DEF applying
  <2> QED BY <2>2, <2>3
<1>5. CASE release[a] # "pending"
  <2>1. PICK b \in Apps : UpdateApp(p, b) /\ release' = [release EXCEPT ![b] = "pending"]
    <3>1. release' # release /\ ~ \E b \in Apps : ApplyApp(p, b)
      BY <1>2, <1>5 DEF ApplyApp, Control, Typing
    <3>2. ~InstallMonitor(p)
      BY <1>2, <1>5 DEF InstallMonitor, Control, Typing
    <3>3. \E b \in Apps : UpdateApp(p, b)
      BY <1>3, <3>1, <3>2 DEF ProcNext, Command, Begin, GetTags, TagOnNode, TaggedOnNode, TagDone, VirtualIp,
         OnControlPlaneNode, Checked, CheckDone, Upgraded, UpgradeDone, UpdateAppRefused, InScript, ScriptGoesWrong,
         clusterVars
    <3> QED BY <3>1, <3>3 DEF UpdateApp
  <2>2. b = a
    BY <1>2, <1>5, <2>1 DEF Control, Typing
  <2>3. phase' = [phase EXCEPT ![p] = applyOf(a)]
    <3>1. release' # release
      BY <1>2, <1>5
    <3> QED BY <2>1, <2>2, <3>1 DEF UpdateApp
  <2>4. phase'[p] = applyOf(a)
    BY <2>3 DEF Control, Typing
  <2> QED BY <2>4 DEF applying
<1> QED BY <1>4, <1>5

LEMMA NextSettling ==
    ASSUME Control, HandOver, Settling, [Next]_vars PROVE Settling'
<1>1. ASSUME NEW p \in Procs, ProcNext(p) PROVE Settling'
  <2>1. \A q \in Procs : settleInv(q)'
    BY <1>1, NextSettleInv
  <2>2. Moves
    BY <1>1, NextMoves
  <2>3. \A a \in Apps : release'[a] = "current" => workload'[a] = "current"
    BY <2>2 DEF Moves, Settling
  <2>4. Unfinished'
    BY <1>1, NextUnfinished DEF Settling
  <2> QED BY <2>1, <2>3, <2>4 DEF Settling
<1>2. CASE UNCHANGED <<updateVars, clusterVars, world>>
  BY <1>2 DEF Settling, settleInv, doneApp, notOurs, past, Unfinished, interrupted, applying, updateVars, clusterVars
<1>3. Kubelet \/ UNCHANGED vars => UNCHANGED <<updateVars, clusterVars, world>>
  BY DEF Kubelet, vars
<1> QED
  BY <1>1, <1>2, <1>3 DEF Next, ProcNext

LEMMA InitSettling == Init => Settling
<1> SUFFICES ASSUME Init PROVE Settling
  OBVIOUS
<1>1. \A p \in Procs : phase[p] = "idle" /\ result[p] = "new"
  BY DEF Init
<1>2. \A p \in Procs : settleInv(p)
  BY <1>1, Idle DEF settleInv, ApplyPhases, VipPhases
<1>3. \A a \in Apps : release[a] = world.release[a] /\ a # Monitor
  BY DEF Init, Apps, Monitor
<1>4. \A a \in Apps : release[a] \notin {"pending", "current"}
  BY <1>3, WorldType DEF Init
<1> QED BY <1>2, <1>4 DEF Settling, Unfinished

LEMMA SettlingSettles == Settling => CleanUpdateSettles
<1> SUFFICES ASSUME Settling, NEW p \in Procs, result[p] = "ok", clean[p]
             PROVE  /\ world.old # {} =>
                           \A a \in Apps : workload[a] = "current" \/ interrupted(a) \/ notOurs(a)
                    /\ world.vip = "vip" => release[Monitor] = "current"
  BY DEF CleanUpdateSettles
<1>1. appsInv(p) /\ monitorInv(p)
  BY Halves DEF Settling
<1>2. world.old # {} => \A a \in Apps : doneApp(a)
  BY <1>1 DEF appsInv
<1>3. \A a \in Apps : doneApp(a) => workload[a] = "current" \/ interrupted(a) \/ notOurs(a)
  BY DEF doneApp, Settling, Unfinished
<1> QED BY <1>1, <1>2, <1>3 DEF monitorInv

\* Update, whatever the commands before it and beside it did or left undone:
\* one that meets no error and nobody in its way, and succeeds, leaves every
\* application running the current tag and a virtual IP with the monitor.  What
\* it leaves out is an application without a tag to set or a workload to move,
\* and one whose upgrade helm was interrupted in: only then, or while another
\* command is at it, a release is pending.
THEOREM CleanUpdatesSettle == Spec => []CleanUpdateSettles
<1>1. Init => Settling
  BY InitSettling
<1>2. Ordered /\ Settling /\ [Next]_vars => Settling'
  BY NextSettling DEF Ordered, Scripted
<1> QED BY <1>1, <1>2, OrderedHolds, SettlingSettles, PTL DEF Spec

=============================================================================
