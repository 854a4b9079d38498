------------------------------ MODULE CapiStage ------------------------------
(***************************************************************************)
(* Boot images and staged updates of Cluster API clusters: ensureImages of *)
(* a start, Stage of the OCI and OLVM drivers, and image upload.  Custom   *)
(* images live in one OCI compartment that all clusters share; machine     *)
(* templates name an image, and the control plane and the machine          *)
(* deployment of a cluster name a machine template.                        *)
(*                                                                         *)
(* A version is its minor number.  A VM template of OLVM is named by the   *)
(* version it contains.  The control planes of OLVM have a virtual IP, and *)
(* their ignition may be that of an older ocne.                            *)
(***************************************************************************)
EXTENDS Integers, Sequences, Ignition

CONSTANTS
    Clusters,
    Versions,
    Worlds          \* the circumstances that are considered, see world

Roles == {"cp", "md"}
Archs == {"amd64", "arm64"}

ASSUME StageAssumption ==
    /\ Versions \subseteq Nat \ {0} /\ Versions # {}
    /\ Worlds \subseteq
           [olvm : SUBSET Clusters,                 \* the provider of a cluster
            arch : [Clusters -> [Roles -> Archs]],  \* from the shapes of its machines
            shared : SUBSET Clusters,               \* one machine template for both roles
            serial : BOOLEAN,                       \* one command at a time
            faults : BOOLEAN,                       \* calls and imports fail, processes die
            uploads : BOOLEAN,                      \* image upload is used too
            applies : BOOLEAN,                      \* printed patches are applied at once
            edits : BOOLEAN,                        \* users change control planes
            made : {"now", "before", "long ago"},   \* the ocne that made the clusters
            budget : Nat]                           \* bound on the number of commands
    \* A machine template has one shape.
    /\ \A w \in Worlds : \A c \in w.shared : w.arch[c]["cp"] = w.arch[c]["md"]

VARIABLES
    images,         \* the custom images, in the order of their creation
    released,       \* [v]: how many images there were at the last release of v
    templates,      \* the machine templates
    parents,        \* [c][role]: version and template of control plane and deployment
    annotated,      \* the clusters whose control plane has the skip annotations
    kcp,            \* [c]: ignition and join configuration of the control plane
    edited,         \* observer: the clusters whose control plane a user changed
    patches,        \* the patches printed for a user and not yet applied
    job,            \* [c]: the command that runs for a cluster
    phase,
    todo,           \* architectures or images that are still to be looked at,
                    \* or roles whose templates are still to be created
    updates,        \* [image -> new image] of a stage
    work,           \* the images whose import the command has started
    detailed,       \* those of them whose details are set
    status,         \* observer: how the last command for a cluster ended
    budget,
    world           \* chosen once

storeVars == <<images, released, templates, parents, annotated, kcp, edited, patches>>
localVars == <<todo, updates, work, detailed>>
vars == <<storeVars, job, phase, localVars, status, budget, world>>

Phases == {"idle", "look", "wait", "details", "template",
           "graph", "updates", "images", "create", "help"}

NoParent == [version |-> 0, base |-> "none", n |-> 0]
NoJob == [kind |-> "start", version |-> 0]
nothing == [i \in {} |-> 0]

Init ==
    /\ images = <<>>
    /\ released = [v \in Versions |-> 0]
    /\ templates = {}
    /\ parents = [c \in Clusters |-> [r \in Roles |-> NoParent]]
    /\ annotated = {}
    /\ kcp = [c \in Clusters |-> [ign |-> NewIgnition, join |-> {}]]
    /\ edited = {}
    /\ patches = {}
    /\ job = [c \in Clusters |-> NoJob]
    /\ phase = [c \in Clusters |-> "idle"]
    /\ todo = [c \in Clusters |-> {}]
    /\ updates = [c \in Clusters |-> nothing]
    /\ work = [c \in Clusters |-> {}]
    /\ detailed = [c \in Clusters |-> {}]
    /\ status = [c \in Clusters |-> "new"]
    /\ world \in Worlds
    /\ budget = world.budget

olvm(c) == c \in world.olvm
started(c) == parents[c]["cp"] # NoParent
archOf(c, r) == world.arch[c][r]
baseOf(c, r) == IF c \in world.shared THEN "cp" ELSE r

step(c, from, to) ==
    /\ phase[c] = from
    /\ phase' = [phase EXCEPT ![c] = to]
    /\ UNCHANGED <<job, budget, world>>

forget(c) ==
    /\ todo' = [todo EXCEPT ![c] = {}]
    /\ updates' = [updates EXCEPT ![c] = nothing]
    /\ work' = [work EXCEPT ![c] = {}]
    /\ detailed' = [detailed EXCEPT ![c] = {}]

\* The command returns.
end(c, s) == status' = [status EXCEPT ![c] = s] /\ forget(c)

-----------------------------------------------------------------------------
(* Images                                                                   *)

matching(v, a) == {i \in 1..Len(images) : images[i].version = v /\ images[i].arch = a}
MutantGetImage(v, a) ==
    LET any == {i \in 1..Len(images) : images[i].version = v} IN
    IF any = {} THEN 0 ELSE CHOOSE i \in any : \A j \in any : j <= i

\* The latest image of a version and an architecture, whatever its state; 0
\* if there is none.
GetImage(v, a) ==
    IF matching(v, a) = {} THEN 0
    ELSE CHOOSE i \in matching(v, a) : \A j \in matching(v, a) : j <= i

\* The image is made locally, put into the bucket and its import begins.
UploadAsync(c, v, a) ==
    /\ images' = Append(images, [version |-> v, arch |-> a, state |-> "importing",
                                 schema |-> FALSE, shapes |-> a = "amd64"])
    /\ work' = [work EXCEPT ![c] = @ \cup {Len(images) + 1}]

\* One architecture of ensureImages, that of the control plane first.  An
\* image that exists is taken.
EnsureImage(c) ==
    /\ phase[c] = "look" /\ job[c].kind # "upload"
    /\ \E a \in todo[c] :
        /\ a = archOf(c, "cp") \/ todo[c] = {a}
        /\ step(c, "look", IF todo[c] = {a} THEN "wait" ELSE "look")
        /\ todo' = [todo EXCEPT ![c] = @ \ {a}]
        /\ IF GetImage(job[c].version, a) # 0
           THEN UNCHANGED <<images, work>>
           ELSE UploadAsync(c, job[c].version, a)
        /\ UNCHANGED <<released, templates, parents, annotated, kcp, edited, patches, updates, detailed, status>>

MutantWait(c) ==
    /\ \A i \in work[c] : images[i].state = "available"
    /\ step(c, "wait", IF job[c].kind = "upload" THEN "idle" ELSE "details")
    /\ IF job[c].kind = "upload" THEN end(c, "done") ELSE UNCHANGED <<localVars, status>>
    /\ UNCHANGED storeVars

\* WaitForWorkRequests returns when every import has succeeded or failed.  For
\* one that was canceled it waits without end.
WaitForWorkRequests(c) ==
    /\ \A i \in work[c] : images[i].state \in {"available", "failed"}
    /\ IF \E i \in work[c] : images[i].state = "failed"
       THEN step(c, "wait", "idle") /\ end(c, "failed")
       ELSE IF job[c].kind = "upload"
       THEN step(c, "wait", "idle") /\ end(c, "done")
       ELSE step(c, "wait", "details") /\ UNCHANGED <<localVars, status>>
    /\ UNCHANGED storeVars

\* EnsureImageDetails: the EFI schema, then the shapes of an arm image.
CreateEFIImageSchema(c) ==
    /\ \E i \in work[c] \ detailed[c] :
        /\ images' = [images EXCEPT ![i].schema = TRUE]
        /\ ~images[i].schema
    /\ step(c, "details", "details")
    /\ UNCHANGED <<released, templates, parents, annotated, kcp, edited, patches, localVars, status>>

EnsureCompatibleImageShapes(c) ==
    /\ \E i \in work[c] \ detailed[c] :
        /\ images[i].schema
        /\ images' = [images EXCEPT ![i].shapes = TRUE]
        /\ detailed' = [detailed EXCEPT ![c] = @ \cup {i}]
    /\ step(c, "details", "details")
    /\ UNCHANGED <<released, templates, parents, annotated, kcp, edited, patches, todo, updates, work, status>>

\* GetClusterGraph: the machine template a role refers to.
templateOf(c, r) ==
    CHOOSE t \in templates : t.cluster = c /\ t.base = parents[c][r].base /\ t.n = parents[c][r].n

\* The roles whose machines are made from one of these images.
usersOf(c, is) == {r \in Roles : \E i \in is : templateOf(c, r).image = i}

DetailsDone(c) ==
    /\ detailed[c] = work[c]
    /\ step(c, "details", IF job[c].kind = "start" THEN "template" ELSE "create")
    /\ todo' = [todo EXCEPT ![c] = usersOf(c, DOMAIN updates[c])]
    /\ UNCHANGED <<storeVars, updates, work, detailed, status>>

\* GetOciTemplate asks for the images once more.  Applying the bundle makes
\* the machine templates and what refers to them.
templateImage(c, r) == IF olvm(c) THEN job[c].version ELSE GetImage(job[c].version, archOf(c, r))

\* getExtraIgnition of OLVM, without a proxy and without IPv6.
apiPort == 6443
virtualIp == "vip"
getExtraIgnition ==
    LET units == AddUnit(AddUnit(NewIgnition, "ocne.service", unit("no", <<>>, Nothing)),
                     "ocne-update.service",
                     unit("yes", <<>>, ("pre-kubeadm.conf" :> <<"before">>)
                                           @@ ("enable-services.conf" :> <<"exec">>)))
        files == AddFile(AddFile(AddFile(AddFile(units, "10-ocne.preset", <<"preset">>),
                     "80-ocne.preset", <<"preset">>), "update.yaml", updateFile("good", "tag")),
                     "enableServices.sh", <<"enable">>)
        all == Merge(Merge(Merge(files, ContainerConfiguration("registry")),
                           OcneUser({"key"}, "unset")), KubeadmPatches) IN
    IgnitionForVirtualIp(all, apiPort, 6444, virtualIp, {}, "eth0")

\* What older ones made: without the path units, and once with the files,
\* the directory and the drop-ins that Stage removes.
ignitionBefore ==
    [getExtraIgnition EXCEPT !.units = without(@, {"keepalived-refresh.path", "ocne-nginx-refresh.path"})]
ignitionLongAgo ==
    LET copying == "copy-kubeconfig.conf" :> <<"copy">> IN
    [ignitionBefore EXCEPT
        !.files = ("check_apiserver.sh" :> <<"old">>) @@ [f \in retiredFiles |-> <<f>>] @@ @,
        !.directories = ("nginx-refresh" :> TRUE) @@ @,
        !.units = ("keepalived.service" :> unit("yes", <<>>, copying))
                         @@ ("ocne-nginx.service" :> unit("yes", <<"nginx">>, copying)) @@ @]
madeBy ==
    CASE world.made = "now" -> [ign |-> getExtraIgnition, join |-> {"patches", "preflight"}]
      [] world.made = "before" -> [ign |-> ignitionBefore, join |-> {"preflight"}]
      [] world.made = "long ago" -> [ign |-> ignitionLongAgo, join |-> {}]

GetTemplate(c) ==
    /\ step(c, "template", "idle")
    /\ \A r \in Roles : templateImage(c, r) # 0
    /\ templates' = templates \cup
           {[cluster |-> c, base |-> baseOf(c, r), n |-> 1, image |-> templateImage(c, r)] : r \in Roles}
    /\ parents' = [parents EXCEPT ![c] = [r \in Roles |->
           [version |-> job[c].version, base |-> baseOf(c, r), n |-> 1]]]
    /\ kcp' = [kcp EXCEPT ![c] =
           IF olvm(c) THEN madeBy ELSE [ign |-> NewIgnition, join |-> madeBy.join]]
    /\ end(c, "done")
    /\ UNCHANGED <<images, released, annotated, edited, patches>>

-----------------------------------------------------------------------------
(* Stage                                                                    *)

minorVersionChanged(c) == parents[c]["cp"].version # job[c].version

\* PatchControlPlane
PatchControlPlane(c) ==
    /\ step(c, "graph", "updates")
    /\ annotated' = annotated \cup {c}
    /\ UNCHANGED <<images, released, templates, parents, kcp, edited, patches, localVars, status>>

\* graphToImages: the images in use, each with the templates that use it; a
\* template that two roles share is there twice.
imagesOf(c) == {templateOf(c, r).image : r \in Roles}
rolesOf(c, i) == {r \in Roles : templateOf(c, r).image = i}
archOfImage(c, i) == archOf(c, CHOOSE r \in rolesOf(c, i) : TRUE)

\* doUpdate: for a new version, if there is no image of it yet; for the same
\* version, if the image is the newest and the container image is newer.
doUpdate(c, i) ==
    LET v == job[c].version
        existing == GetImage(v, archOfImage(c, i)) IN
    IF images[i].version = v THEN existing = i /\ released[v] >= i ELSE existing = 0

\* hasUpdate of OLVM: the configured VM template is another one.  The user
\* configures the one of the version to stage.
hasUpdate(c, i) == i # job[c].version

FindUpdates(c) ==
    /\ ~olvm(c)
    /\ step(c, "updates", "images")
    /\ todo' = [todo EXCEPT ![c] = imagesOf(c)]
    /\ updates' = [updates EXCEPT ![c] =
           [i \in {k \in imagesOf(c) : doUpdate(c, k)} |-> 0]]
    /\ UNCHANGED <<storeVars, work, detailed, status>>

\* One image of Stage: a new one is uploaded, or the latest one of the new
\* version is taken.
StageImage(c) ==
    /\ phase[c] = "images"
    /\ \E i \in todo[c] :
        /\ step(c, "images", IF todo[c] = {i} THEN "wait" ELSE "images")
        /\ todo' = [todo EXCEPT ![c] = @ \ {i}]
        /\ \/ /\ i \in DOMAIN updates[c]
              /\ UploadAsync(c, job[c].version, archOfImage(c, i))
              /\ updates' = [updates EXCEPT ![c][i] = Len(images) + 1]
           \/ /\ i \notin DOMAIN updates[c] /\ minorVersionChanged(c)
              /\ LET latest == GetImage(job[c].version, archOfImage(c, i)) IN
                 /\ latest # 0
                 /\ updates' = [updates EXCEPT ![c] =
                        [k \in DOMAIN @ \cup {i} |-> IF k = i THEN latest ELSE @[k]]]
              /\ UNCHANGED <<images, work>>
           \/ /\ i \notin DOMAIN updates[c] /\ ~minorVersionChanged(c)
              /\ UNCHANGED <<images, work, updates>>
    /\ UNCHANGED <<released, templates, parents, annotated, kcp, edited, patches, detailed, status>>

\* graphToVMTemplates of OLVM.
StageVMTemplates(c) ==
    /\ olvm(c)
    /\ step(c, "updates", "create")
    /\ LET changed == {i \in imagesOf(c) : hasUpdate(c, i)} IN
       /\ updates' = [updates EXCEPT ![c] = [i \in changed |-> job[c].version]]
       /\ todo' = [todo EXCEPT ![c] = usersOf(c, changed)]
    /\ UNCHANGED <<storeVars, work, detailed, status>>

\* IncrementCount of the name, and the new image.
newTemplate(c, r) ==
    LET t == templateOf(c, r) IN
    [cluster |-> c, base |-> t.base, n |-> t.n + 1, image |-> updates[c][t.image]]

taken(t) == \E u \in templates : u.cluster = t.cluster /\ u.base = t.base /\ u.n = t.n

\* One template after the other, for each role that uses an image with an
\* update.  Two roles with one template have the same new one.
CreateTemplates(c) ==
    /\ step(c, "create", "create")
    /\ \E r \in todo[c] :
        /\ ~taken(newTemplate(c, r))
        /\ todo' = [todo EXCEPT ![c] = @ \ {r}]
        /\ templates' = templates \cup {newTemplate(c, r)}
    /\ UNCHANGED <<images, released, parents, annotated, kcp, edited, patches, updates, work, detailed, status>>

\* CreateResource answers "already exists": what was created before stays.
CreateRefused(c) ==
    /\ step(c, "create", "idle")
    /\ \E r \in todo[c] : taken(newTemplate(c, r))
    /\ end(c, "failed")
    /\ UNCHANGED storeVars

TemplatesDone(c) ==
    /\ todo[c] = {}
    /\ step(c, "create", "help")
    /\ UNCHANGED <<storeVars, localVars, status>>

\* GetControlPlanePatches: a join configuration that has patches is left as
\* it is, whatever it lacks.
GetControlPlanePatches(c) ==
    IF "patches" \in kcp[c].join THEN {} ELSE {"patches", "preflight"} \ kcp[c].join

\* OLVM: the ignition as Stage wants it, if it is another one.
newIgnition(c) ==
    LET u == controlPlaneIgnitionPatches(kcp[c].ign, apiPort, virtualIp) IN
    IF olvm(c) /\ u.patch THEN {u.ign} ELSE {}

patchFor(c, r, replaced) ==
    [cluster |-> c, role |-> r, replaced |-> replaced, version |-> job[c].version,
     base |-> parents[c][r].base, n |-> parents[c][r].n + 1,
     join |-> IF r = "cp" /\ replaced THEN GetControlPlanePatches(c) ELSE {},
     ign |-> IF r = "cp" THEN newIgnition(c) ELSE {}]

\* A patch for every role whose template was replaced, and one for a control
\* plane that only has another ignition.
HelpMessages(c) ==
    /\ step(c, "help", "idle")
    /\ LET replaced == {r \in Roles : templateOf(c, r).image \in DOMAIN updates[c]} IN
       patches' = patches \cup {patchFor(c, r, TRUE) : r \in replaced}
           \cup {patchFor(c, r, FALSE) : r \in {q \in {"cp"} \ replaced : newIgnition(c) # {}}}
    /\ end(c, "done")
    /\ UNCHANGED <<images, released, templates, parents, annotated, kcp, edited>>

-----------------------------------------------------------------------------
(* Commands, users, OCI                                                     *)

Begin(c, kind, v) ==
    /\ phase[c] = "idle" /\ budget > 0
    /\ world.serial => \A d \in Clusters : phase[d] = "idle"
    /\ world.applies => \A p \in patches : p.cluster # c
    /\ CASE kind = "start" -> ~started(c)
         [] kind = "stage" -> started(c)
         [] kind = "upload" -> world.uploads /\ ~olvm(c)
    /\ job' = [job EXCEPT ![c] = [kind |-> kind, version |-> v]]
    /\ budget' = budget - 1
    /\ phase' = [phase EXCEPT ![c] =
           CASE kind = "start" -> IF olvm(c) THEN "template" ELSE "look"
             [] kind = "stage" -> "graph"
             [] kind = "upload" -> "look"]
    /\ todo' = [todo EXCEPT ![c] = IF olvm(c) THEN {} ELSE {archOf(c, r) : r \in Roles}]
    /\ updates' = [updates EXCEPT ![c] = nothing]
    /\ work' = [work EXCEPT ![c] = {}]
    /\ detailed' = [detailed EXCEPT ![c] = {}]
    /\ status' = [status EXCEPT ![c] = "runs"]
    /\ UNCHANGED <<storeVars, world>>

\* An upload makes an image without looking for one.
UploadOci(c) ==
    /\ phase[c] = "look" /\ job[c].kind = "upload"
    /\ \E a \in todo[c] : UploadAsync(c, job[c].version, a)
    /\ step(c, "look", "wait")
    /\ UNCHANGED <<released, templates, parents, annotated, kcp, edited, patches, todo, updates, detailed, status>>

fail(c) == step(c, phase[c], "idle") /\ end(c, "failed") /\ UNCHANGED storeVars

\* A call that fails, or a kill.
Fault(c) == phase[c] # "idle" /\ world.faults /\ fail(c)

\* kubectl patch, as printed, while no command runs for the cluster.  The
\* ignition is replaced as a whole.
Apply(p) ==
    /\ p \in patches
    /\ phase[p.cluster] = "idle"
    /\ parents' = IF ~p.replaced THEN parents ELSE [parents EXCEPT ![p.cluster][p.role] =
           [version |-> p.version, base |-> p.base, n |-> p.n]]
    /\ kcp' = [kcp EXCEPT ![p.cluster] =
           [ign |-> IF p.ign = {} THEN @.ign ELSE CHOOSE i \in p.ign : TRUE,
            join |-> @.join \cup p.join]]
    /\ patches' = patches \ {p}
    /\ UNCHANGED <<images, released, templates, annotated, edited, job, phase, localVars, status, budget, world>>

\* A user gives the control plane a file and a drop-in of their own.
Edit(c) ==
    /\ world.edits /\ olvm(c) /\ started(c) /\ c \notin edited
    /\ phase[c] = "idle"
    /\ world.applies => \A p \in patches : p.cluster # c
    /\ kcp' = [kcp EXCEPT ![c].ign = Merge(@, AddUnit(AddFile(NewIgnition, "mine", <<"mine">>),
           "keepalived.service", unit("unset", <<>>, "mine.conf" :> <<"mine">>)))]
    /\ edited' = edited \cup {c}
    /\ UNCHANGED <<images, released, templates, parents, annotated, patches, job, phase, localVars, status, budget, world>>

\* A newer container image of a version is published.
Release(v) ==
    /\ released[v] < Len(images) /\ budget > 0
    /\ \A c \in Clusters : phase[c] = "idle"
    /\ released' = [released EXCEPT ![v] = Len(images)]
    /\ UNCHANGED <<images, templates, parents, annotated, kcp, edited, patches, job, phase, localVars, status, budget, world>>

\* OCI ends an import.
Import(i) ==
    /\ i \in 1..Len(images)
    /\ images[i].state = "importing"
    /\ \E s \in {"available", "failed", "canceled"} :
        /\ s # "available" => world.faults
        /\ images' = [images EXCEPT ![i].state = s]
    /\ UNCHANGED <<released, templates, parents, annotated, kcp, edited, patches, job, phase, localVars, status, budget, world>>

Work(c) ==
    \/ EnsureImage(c) \/ UploadOci(c)
    \/ WaitForWorkRequests(c)
    \/ CreateEFIImageSchema(c) \/ EnsureCompatibleImageShapes(c) \/ DetailsDone(c)
    \/ GetTemplate(c)
    \/ PatchControlPlane(c) \/ FindUpdates(c) \/ StageImage(c) \/ StageVMTemplates(c)
    \/ CreateTemplates(c) \/ CreateRefused(c) \/ TemplatesDone(c) \/ HelpMessages(c)

Imports == \E i \in 1..Len(images) : Import(i)

Next ==
    \/ \E c \in Clusters, kind \in {"start", "stage", "upload"}, v \in Versions : Begin(c, kind, v)
    \/ \E c \in Clusters : Work(c) \/ Fault(c)
    \/ \E p \in patches : Apply(p)
    \/ \E c \in Clusters : Edit(c)
    \/ \E v \in Versions : Release(v)
    \/ Imports

\* Commands go on and OCI ends every import one way or the other.
Fairness == WF_vars(Imports) /\ \A c \in Clusters : WF_vars(Work(c))

Spec == Init /\ [][Next]_vars /\ Fairness
-----------------------------------------------------------------------------
(* Properties                                                               *)

\* State of the store and the commands; the name of a machine template says
\* which one it is, and control planes and deployments name ones that exist.
StageInv ==
    /\ images \in Seq([version : Versions, arch : Archs, schema : BOOLEAN, shapes : BOOLEAN,
                       state : {"importing", "available", "failed", "canceled"}])
    /\ released \in [Versions -> 0..Len(images)]
    /\ phase \in [Clusters -> Phases]
    /\ \A t, u \in templates : (t.cluster = u.cluster /\ t.base = u.base /\ t.n = u.n) => t = u
    /\ \A c \in Clusters : started(c) =>
           \A r \in Roles : \E t \in templates :
               t.cluster = c /\ t.base = parents[c][r].base /\ t.n = parents[c][r].n
    /\ \A c \in Clusters : work[c] \subseteq 1..Len(images) /\ detailed[c] \subseteq work[c]
    /\ annotated \subseteq Clusters /\ edited \subseteq Clusters
    /\ \A c \in Clusters : ~kcp[c].ign.err /\ kcp[c].join \subseteq {"patches", "preflight"}

imageVersion(c, i) == IF olvm(c) THEN i ELSE images[i].version

\* Stage: whatever patches are applied, and whatever failed before, a control
\* plane or deployment asks for the Kubernetes version that its image has,
\* and for an image of the architecture of its machines.
ParentsConsistent ==
    \A c \in Clusters : started(c) => \A r \in Roles :
        LET i == templateOf(c, r).image IN
        /\ imageVersion(c, i) = parents[c][r].version
        /\ ~olvm(c) => images[i].arch = archOf(c, r)

\* ensureImages and Stage: when nothing fails and commands do not overlap,
\* machines are only made from images that are imported and configured
\* (unless one came from image upload, which leaves out the details).
ImagesReady ==
    (world.serial /\ ~world.faults /\ ~world.uploads) =>
        \A t \in templates : t.cluster \notin world.olvm =>
            /\ images[t.image].state = "available"
            /\ images[t.image].schema /\ images[t.image].shapes

\* Stage: when nothing fails, commands do not overlap, every role has its own
\* template and patches are applied before the next stage, stage succeeds.
StageSucceeds ==
    (world.serial /\ ~world.faults /\ world.applies /\ world.shared = {}) =>
        \A c \in Clusters : status[c] # "failed"

\* UpdateIgnition: when a patch of the ignition has been applied, Stage finds
\* nothing to change in what it made.
AppliedIsSettled ==
    \A p \in patches \ patches' : p.ign # {} => newIgnition(p.cluster)' = {}

\* Stage of OLVM: when it succeeded and what it printed is applied, a control
\* plane has the check and, as a whole but for a user's drop-in, the units of
\* this ocne, and nothing is left of the scripts that it does without.  One
\* thing is not as it should be: where an older ocne left the path units out,
\* Stage adds them without enabling them.
theUnits == vipUnits({})
pathUnits == {"keepalived-refresh.path", "ocne-nginx-refresh.path"}
enabledBy(n) == IF world.made # "now" /\ n \in pathUnits THEN "unset" ELSE theUnits[n].enabled
isUnit(n, u, dropins) ==
    /\ u.enabled = enabledBy(n) /\ u.contents = theUnits[n].contents
    /\ without(u.dropins, dropins) = theUnits[n].dropins
current(ign) ==
    /\ retiredFiles \cap DOMAIN ign.files = {}
    /\ "nginx-refresh" \notin DOMAIN ign.directories
    /\ "check_apiserver.sh" \in DOMAIN ign.files
    /\ ign.files["check_apiserver.sh"] = GenerateKeepalivedCheckScript(apiPort, virtualIp)
    /\ \A n \in DOMAIN theUnits : n \in DOMAIN ign.units /\ isUnit(n, ign.units[n], {"mine.conf"})
StagedIsCurrent ==
    \A c \in world.olvm :
        (job[c].kind = "stage" /\ status[c] = "done" /\ \A p \in patches : p.cluster # c) =>
            current(kcp[c].ign)

\* GetControlPlanePatches: a control plane that makes machines from a template
\* that Stage made has new nodes join with the patches and without preflight.
JoinPrepared ==
    \A c \in Clusters : parents[c]["cp"].n > 1 => kcp[c].join = {"patches", "preflight"}

\* UpdateIgnition: when patches are applied before anything else is changed,
\* what a user added to the ignition of a control plane survives.
UserChangesKept ==
    world.applies => \A c \in edited :
        /\ "mine" \in DOMAIN kcp[c].ign.files
        /\ "keepalived.service" \in DOMAIN kcp[c].ign.units
        /\ "mine.conf" \in DOMAIN kcp[c].ign.units["keepalived.service"].dropins

\* WaitForWorkRequests and the rest: every command ends, unless an import it
\* waits for is canceled.
stuck(c) == \E i \in work[c] : images[i].state = "canceled"
CommandsEnd == \A c \in Clusters : phase[c] # "idle" ~> phase[c] = "idle" \/ stuck(c)

\* A stage that succeeds has the machines use the newest image of the
\* version that was staged, in a cluster that shares the compartment with no
\* other and without failures.
target(c, r) ==
    LET i == templateOf(c, r).image IN IF i \in DOMAIN updates[c] THEN updates[c][i] ELSE i
stagesLatest(c) ==
    (phase[c] = "help" /\ status'[c] = "done" /\ ~olvm(c)) =>
        \A r \in Roles : target(c, r) = GetImage(job[c].version, archOf(c, r))
StagedUsesLatest ==
    (/\ world.serial /\ ~world.faults /\ ~world.uploads /\ world.applies
     /\ world.shared = {}
     /\ \E c \in Clusters : Clusters \ world.olvm = {c}) => \A c \in Clusters : stagesLatest(c)

\* ensureImages and Stage: templates are never overwritten, fit the control
\* planes and deployments that use them, and name images that are ready.
TemplatesSound == StageInv /\ ParentsConsistent /\ ImagesReady

\* Stage and UpdateIgnition: stage succeeds without faults, and what it has
\* staged is current, prepared for joining nodes and keeps what the user added.
StagingWorks == StageSucceeds /\ StagedIsCurrent /\ UserChangesKept /\ JoinPrepared

\* Stage: one round is enough, for images and for ignition.
LatestAndSettled == [][StagedUsesLatest /\ AppliedIsSettled]_vars
-----------------------------------------------------------------------------
(* What holds between the steps of a command: the strengthenings from which *)
(* the properties follow                                                    *)

\* The state of the commands, and of what only they and the user write.
TypeInv ==
    /\ world \in Worlds
    /\ templates \subseteq [cluster : Clusters, base : Roles, n : Nat \ {0}, image : Nat]
    /\ parents \in [Clusters -> [Roles -> [version : Nat, base : Roles \cup {"none"}, n : Nat]]]
    /\ job \in [Clusters -> [kind : {"start", "stage", "upload"}, version : Nat]]
    /\ DOMAIN todo = Clusters /\ DOMAIN updates = Clusters /\ DOMAIN kcp = Clusters
    /\ work \in [Clusters -> SUBSET Nat] /\ detailed \in [Clusters -> SUBSET Nat]
    /\ status \in [Clusters -> {"new", "runs", "done", "failed"}]
    /\ \A c \in Clusters : \A i \in DOMAIN updates[c] : i \in Nat /\ updates[c][i] \in Nat
    /\ \A p \in patches :
           /\ p.cluster \in Clusters /\ p.role \in Roles /\ p.replaced \in BOOLEAN
           /\ p.version \in Nat /\ p.base \in Roles /\ p.n \in Nat

\* Phases and jobs fit each other.  A cluster is started once.
jobInv(c) ==
    /\ phase[c] # "idle" => job[c].version \in Versions
    /\ phase[c] \in {"graph", "updates", "images", "create", "help"} => job[c].kind = "stage"
    /\ phase[c] = "template" => job[c].kind = "start"
    /\ phase[c] = "look" => job[c].kind # "stage" /\ todo[c] \subseteq {archOf(c, r) : r \in Roles}
    /\ (phase[c] # "idle" /\ job[c].kind = "upload") => phase[c] \in {"look", "wait"} /\ world.uploads
    /\ (phase[c] # "idle" /\ job[c].kind # "upload") => (started(c) <=> job[c].kind = "stage")
    /\ olvm(c) => phase[c] \notin {"look", "wait", "details", "images"}

\* Image i has version v and the architecture of the machines of role r.
fits(c, r, v, i) ==
    /\ imageVersion(c, i) = v
    /\ ~olvm(c) => i \in 1..Len(images) /\ images[i].arch = archOf(c, r)

isNamed(t, c, base, n) == t.cluster = c /\ t.base = base /\ t.n = n

\* What a cluster uses, and what the patches will make it use.
parentInv(c) ==
    IF started(c)
    THEN \A r \in Roles :
             /\ parents[c][r].base = baseOf(c, r) /\ parents[c][r].n > 0
             /\ fits(c, r, parents[c][r].version, templateOf(c, r).image)
    ELSE /\ \A t \in templates : t.cluster # c
         /\ \A p \in patches : p.cluster # c
         /\ c \notin edited
patchInv(p) ==
    p.replaced =>
        /\ p.base = baseOf(p.cluster, p.role) /\ p.n > 1
        /\ \E t \in templates :
               /\ isNamed(t, p.cluster, p.base, p.n)
               /\ fits(p.cluster, p.role, p.version, t.image)

\* The updates that a stage has found: those it has dealt with name an image
\* that fits, and templates exist for those it has created them for.
staging(c) == job[c].kind = "stage" /\ phase[c] \in {"images", "wait", "details", "create", "help"}
dealtWith(c) == IF phase[c] = "images" THEN DOMAIN updates[c] \ todo[c] ELSE DOMAIN updates[c]
createdFor(c) ==
    CASE phase[c] = "create" -> usersOf(c, DOMAIN updates[c]) \ todo[c]
      [] phase[c] = "help" -> usersOf(c, DOMAIN updates[c])
      [] OTHER -> {}
updateInv(c) ==
    staging(c) =>
        /\ DOMAIN updates[c] \subseteq imagesOf(c)
        /\ phase[c] = "images" => todo[c] \subseteq imagesOf(c)
        /\ phase[c] = "create" => todo[c] \subseteq usersOf(c, DOMAIN updates[c])
        /\ \A i \in dealtWith(c) : \A r \in rolesOf(c, i) : fits(c, r, job[c].version, updates[c][i])
        /\ \A r \in createdFor(c) : newTemplate(c, r) \in templates

FitInv ==
    /\ \A c \in Clusters : jobInv(c) /\ parentInv(c) /\ updateInv(c)
    /\ \A p \in patches : patchInv(p)
    /\ \A t \in templates : ~olvm(t.cluster) => t.image \in 1..Len(images)

\* Imports: what a command has waited for and described stays so, and when
\* nothing fails an image is ready or a command that runs will make it so.
ready(i) == images[i].state = "available" /\ images[i].schema /\ images[i].shapes
importing(c) == phase[c] \in {"look", "images", "wait", "details"}
ReadyInv ==
    /\ \A c \in Clusters : \A i \in detailed[c] : images[i].schema /\ images[i].shapes
    /\ \A c \in Clusters : phase[c] = "details" => \A i \in work[c] : images[i].state = "available"
    /\ ~world.faults => \A i \in 1..Len(images) : images[i].state \in {"importing", "available"}
    /\ world.serial => \A c, d \in Clusters : (phase[c] # "idle" /\ phase[d] # "idle") => c = d
    /\ (world.serial /\ ~world.faults /\ ~world.uploads) =>
           /\ \A i \in 1..Len(images) : ready(i) \/ \E c \in Clusters : importing(c) /\ i \in work[c]
           /\ ImagesReady

\* When patches are applied first, a cluster that a command runs for has none.
\* Without failures a template is used, or is about to be: no name is taken.
comes(t) ==
    LET c == t.cluster IN
    /\ t.n = parents[c][t.base].n + 1
    /\ \/ t.base \in createdFor(c)
       \/ \E p \in patches : p.cluster = c /\ p.role = t.base /\ p.replaced
OrderInv ==
    world.applies =>
        /\ \A p \in patches : phase[p.cluster] = "idle"
        /\ \A p \in patches : p.replaced =>
               /\ p.n = parents[p.cluster][p.role].n + 1
               /\ \A q \in patches : (q.cluster = p.cluster /\ q.role = p.role /\ q.replaced) => p = q
        /\ (~world.faults /\ world.shared = {}) =>
               /\ \A c \in Clusters : status[c] # "failed"
               /\ \A t \in templates : t.n <= parents[t.cluster][t.base].n \/ comes(t)

\* The join configuration is not prepared by halves.
prepared == {"patches", "preflight"}
JoinInv ==
    /\ JoinPrepared
    /\ \A c \in Clusters : "patches" \in kcp[c].join => kcp[c].join = prepared
    /\ \A p \in patches :
           /\ p.join = {} \/ p.join \cup kcp[p.cluster].join = prepared
           /\ p.replaced /\ p.role = "cp" => p.join \cup kcp[p.cluster].join = prepared

\* The ignition of a control plane is one that Stage can bring up to date, and
\* that of a patch is up to date, so that Stage finds nothing more to change.
wellFormed(ign) ==
    /\ ign = [files |-> ign.files, directories |-> ign.directories, links |-> ign.links,
              disks |-> ign.disks, raid |-> ign.raid, filesystems |-> ign.filesystems,
              units |-> ign.units, users |-> ign.users, groups |-> ign.groups, err |-> FALSE]
    /\ IsFiniteSet(DOMAIN ign.files) /\ IsFiniteSet(DOMAIN ign.directories)
    /\ IsFiniteSet(DOMAIN ign.units)
    /\ \A n \in DOMAIN ign.units : LET u == ign.units[n] IN u = unit(u.enabled, u.contents, u.dropins)
hasUnits(ign) ==
    /\ \A n \in {"keepalived.service", "ocne-nginx.service"} :
           n \in DOMAIN ign.units /\ isUnit(n, ign.units[n], {"mine.conf", "copy-kubeconfig.conf"})
    /\ \A n \in DOMAIN controlPlaneUpdates(apiPort, virtualIp).updates.units :
           IF n \in DOMAIN ign.units THEN isUnit(n, ign.units[n], {"mine.conf"})
           ELSE enabledBy(n) = "unset"
kept(ign) ==
    /\ "mine" \in DOMAIN ign.files
    /\ "keepalived.service" \in DOMAIN ign.units
    /\ "mine.conf" \in DOMAIN ign.units["keepalived.service"].dropins
settled(ign) == ~controlPlaneIgnitionPatches(ign, apiPort, virtualIp).patch
IgnitionInv ==
    /\ \A c \in Clusters :
           /\ kcp[c] = [ign |-> kcp[c].ign, join |-> kcp[c].join]
           /\ wellFormed(kcp[c].ign)
           /\ olvm(c) /\ started(c) => hasUnits(kcp[c].ign)
           /\ world.applies /\ c \in edited => kept(kcp[c].ign)
           /\ olvm(c) /\ job[c].kind = "stage" /\ status[c] = "done" =>
                  current(kcp[c].ign) \/ \E p \in patches : p.cluster = c /\ p.ign # {}
    /\ \A p \in patches : \A ign \in p.ign :
           /\ olvm(p.cluster)
           /\ wellFormed(ign) /\ hasUnits(ign) /\ current(ign) /\ settled(ign)
           /\ world.applies /\ p.cluster \in edited => kept(ign)

\* In a cluster that has the compartment for itself, without failures: both
\* roles have the newest image of one version, or patches that give it to
\* them, until a stage has found newer ones.
lone ==
    /\ world.serial /\ ~world.faults /\ ~world.uploads /\ world.applies /\ world.shared = {}
    /\ \E c \in Clusters : Clusters \ world.olvm = {c}
latest(c, r, v, i) == i # 0 /\ i = GetImage(v, archOf(c, r))
hasLatest(c, v) ==
    \A r \in Roles : parents[c][r].version = v /\ latest(c, r, v, templateOf(c, r).image)
willHaveLatest(c, v) ==
    \A r \in Roles :
        IF \E p \in patches : p.cluster = c /\ p.role = r /\ p.replaced
        THEN \E p \in patches, t \in templates :
                 /\ p.cluster = c /\ p.role = r /\ p.replaced /\ p.version = v
                 /\ isNamed(t, c, p.base, p.n) /\ latest(c, r, v, t.image)
        ELSE parents[c][r].version = v /\ latest(c, r, v, templateOf(c, r).image)
stagesNewest(c, r) ==
    LET v == job[c].version
        i == templateOf(c, r).image IN
    IF phase[c] = "images" /\ i \in todo[c]
    THEN /\ parents[c][r].version = parents[c]["cp"].version
         /\ latest(c, r, parents[c][r].version, i)
         /\ i \in DOMAIN updates[c] <=> doUpdate(c, i)
    ELSE /\ latest(c, r, v, target(c, r))
         /\ parents[c][r].version = parents[c]["cp"].version
         /\ i \notin DOMAIN updates[c] => parents[c][r].version = v
latestInv(c) ==
    /\ (started(c) /\ phase[c] = "idle") => \E v \in Versions : willHaveLatest(c, v)
    /\ phase[c] \in {"graph", "updates"} => \E v \in Versions : hasLatest(c, v)
    /\ staging(c) =>
           /\ \A r, s \in Roles : archOf(c, r) = archOf(c, s) => templateOf(c, r).image = templateOf(c, s).image
           /\ \A r \in Roles : stagesNewest(c, r)
LatestInv == lone => \A c \in Clusters \ world.olvm : latestInv(c)

StoreInv ==
    /\ StageInv /\ TypeInv /\ FitInv /\ ReadyInv /\ OrderInv /\ JoinInv /\ IgnitionInv
    /\ LatestInv
=============================================================================
