-------------------------- MODULE CapiStage_proofs --------------------------
(***************************************************************************)
(* Theorems about CapiStage for any number of clusters, versions, images   *)
(* and commands: machine templates and images fit the roles that use them, *)
(* staging works when nothing fails, and one stage is enough.              *)
(***************************************************************************)
EXTENDS CapiStage, FiniteSetTheorems, SequenceTheorems, WellFoundedInduction, TLAPS

ImageRecord ==
    [version : Versions, arch : Archs, schema : BOOLEAN, shapes : BOOLEAN,
     state : {"importing", "available", "failed", "canceled"}]

\* The steps of the commands of one cluster.
ClusterStep(c) == Work(c) \/ Fault(c) \/ \E kind \in {"start", "stage", "upload"}, v \in Versions : Begin(c, kind, v)

-----------------------------------------------------------------------------
(* Types                                                                    *)

\* The circumstances that are considered.
LEMMA WorldType ==
    ASSUME TypeInv
    PROVE  /\ world.olvm \subseteq Clusters /\ world.shared \subseteq Clusters
           /\ world.arch \in [Clusters -> [Roles -> Archs]]
           /\ world.serial \in BOOLEAN /\ world.faults \in BOOLEAN
           /\ world.uploads \in BOOLEAN /\ world.applies \in BOOLEAN
           /\ world.made \in {"now", "before", "long ago"} /\ world.budget \in Nat
           /\ \A c \in world.shared : archOf(c, "cp") = archOf(c, "md")
  BY StageAssumption DEF TypeInv, archOf

LEMMA RoleTypes ==
    ASSUME TypeInv, NEW c \in Clusters, NEW r \in Roles
    PROVE  archOf(c, r) \in Archs /\ baseOf(c, r) \in Roles
  BY WorldType DEF archOf, baseOf, Roles

\* The types of the state, as far as the commands change it.
LEMMA StateTypes ==
    ASSUME StageInv, TypeInv
    PROVE  /\ images \in Seq(ImageRecord) /\ Len(images) \in Nat
           /\ \A i \in 1..Len(images) : images[i] \in ImageRecord
           /\ phase \in [Clusters -> Phases]
           /\ \A c \in Clusters : job[c].version \in Nat /\ job[c].kind \in {"start", "stage", "upload"}
           /\ \A c \in Clusters, r \in Roles : parents[c][r].n \in Nat /\ parents[c][r].version \in Nat
<1>1. images \in Seq(ImageRecord)
  BY DEF StageInv, ImageRecord
<1>2. Len(images) \in Nat /\ \A i \in 1..Len(images) : images[i] \in ImageRecord
  BY <1>1, ElementOfSeq, LenProperties
<1>3. phase \in [Clusters -> Phases]
  BY DEF StageInv
<1>4. \A c \in Clusters : job[c].version \in Nat /\ job[c].kind \in {"start", "stage", "upload"}
  BY DEF TypeInv
<1>5. \A c \in Clusters, r \in Roles : parents[c][r].n \in Nat /\ parents[c][r].version \in Nat
  BY DEF TypeInv
<1> QED
  BY <1>1, <1>2, <1>3, <1>4, <1>5

\* A set of numbers with an upper bound has a last one.
LEMMA LastOf ==
    ASSUME NEW n \in Nat, NEW M, M \subseteq 1..n, M # {}
    PROVE  \E i \in M : \A j \in M : j <= i
<1> DEFINE R == {ss \in Nat \X Nat : ss[1] < ss[2]}
           T == {n - i : i \in M}
<1>1. T \subseteq Nat /\ T # {}
  <2>1. \A i \in M : i \in 1..n /\ n - i \in Nat
    OBVIOUS
  <2> QED
    BY <2>1
<1>2. PICK x \in T : \A y \in T : <<y, x>> \notin R
  <2>1. IsWellFoundedOn(R, Nat)
    BY NatLessThanWellFounded, Zenon DEF OpToRel
  <2> HIDE DEF R, T
  <2> QED
    BY <2>1, <1>1, WFMin
<1>3. \A y \in T : ~(y < x)
  BY <1>1, <1>2
<1>4. PICK i \in M : x = n - i
  BY <1>2
<1>5. \A j \in M : j <= i
  <2> TAKE j \in M
  <2>1. n - j \in T
    OBVIOUS
  <2>2. ~(n - j < n - i)
    BY <2>1, <1>3, <1>4
  <2>3. i \in 1..n /\ j \in 1..n
    OBVIOUS
  <2> HIDE DEF R, T
  <2> QED
    BY <2>2, <2>3
<1> QED
  BY <1>5

\* GetImage answers with an image of the version and the architecture, the
\* latest one, if there is any.
LEMMA GetImageIs ==
    ASSUME images \in Seq(ImageRecord), NEW v, NEW a
    PROVE  /\ GetImage(v, a) = 0 <=> matching(v, a) = {}
           /\ GetImage(v, a) # 0 => GetImage(v, a) \in matching(v, a)
           /\ \A j \in matching(v, a) : j <= GetImage(v, a)
           /\ \A i \in matching(v, a) : (\A j \in matching(v, a) : j <= i) => GetImage(v, a) = i
           /\ matching(v, a) \subseteq 1..Len(images)
           /\ GetImage(v, a) \in 0..Len(images)
<1> DEFINE M == matching(v, a)
<1>1. Len(images) \in Nat /\ M \subseteq 1..Len(images)
  BY LenProperties DEF matching
<1>2. M # {} => \E i \in M : \A j \in M : j <= i
  BY <1>1, LastOf
<1>3. CASE M = {}
  BY <1>3 DEF GetImage
<1>4. CASE M # {}
  <2> DEFINE isLast(i) == i \in M /\ \A j \in M : j <= i
  <2>1. GetImage(v, a) = CHOOSE i \in M : \A j \in M : j <= i
    BY <1>4 DEF GetImage
  <2>2. GetImage(v, a) \in M /\ \A j \in M : j <= GetImage(v, a)
    BY <2>1, <1>2, <1>4
  <2>3. \A i \in M : (\A j \in M : j <= i) => GetImage(v, a) = i
    BY <2>2, <1>1
  <2>4. GetImage(v, a) # 0
    BY <2>2, <1>1
  <2> QED
    BY <2>2, <2>3, <2>4, <1>1, <1>4
<1> QED
  BY <1>1, <1>3, <1>4

-----------------------------------------------------------------------------
(* Images are only added, described and imported                            *)

ImagesKept ==
    /\ images' \in Seq(ImageRecord) /\ Len(images) <= Len(images')
    /\ \A i \in 1..Len(images) :
           /\ i \in 1..Len(images')
           /\ images'[i].version = images[i].version /\ images'[i].arch = images[i].arch
           /\ images[i].schema => images'[i].schema
           /\ images[i].shapes => images'[i].shapes
           /\ images[i].state # "importing" => images'[i].state = images[i].state

\* One image gets another state or another detail.
LEMMA ImageSet ==
    ASSUME images \in Seq(ImageRecord), NEW i \in 1..Len(images), NEW e \in ImageRecord,
           images' = [images EXCEPT ![i] = e]
    PROVE  /\ images' \in Seq(ImageRecord) /\ Len(images') = Len(images)
           /\ images'[i] = e
           /\ \A j \in 1..Len(images) : j # i => images'[j] = images[j]
  BY ExceptSeq

\* UploadAsync adds one.
LEMMA ImageAdded ==
    ASSUME StageInv, TypeInv, NEW c \in Clusters, NEW v \in Versions, NEW a \in Archs,
           UploadAsync(c, v, a)
    PROVE  /\ images' \in Seq(ImageRecord) /\ Len(images') = Len(images) + 1
           /\ \A i \in 1..Len(images) : images'[i] = images[i]
           /\ images'[Len(images) + 1] = [version |-> v, arch |-> a, state |-> "importing",
                                          schema |-> FALSE, shapes |-> a = "amd64"]
           /\ ImagesKept
<1> DEFINE e == [version |-> v, arch |-> a, state |-> "importing", schema |-> FALSE, shapes |-> a = "amd64"]
<1>1. e \in ImageRecord
  BY DEF ImageRecord
<1>2. images' = Append(images, e)
  BY DEF UploadAsync
<1>3. images \in Seq(ImageRecord) /\ Len(images) \in Nat
  BY StateTypes
<1> HIDE DEF e
<1>4. /\ images' \in Seq(ImageRecord) /\ Len(images') = Len(images) + 1
      /\ \A i \in 1..Len(images) : images'[i] = images[i]
      /\ images'[Len(images) + 1] = e
  BY <1>1, <1>2, <1>3, AppendProperties
<1>5. ImagesKept
  BY <1>3, <1>4 DEF ImagesKept
<1> QED
  BY <1>4, <1>5 DEF e

\* What the images that a command adds are for.
LEMMA UploadFor ==
    ASSUME StageInv, TypeInv, FitInv, NEW c \in Clusters
    PROVE  /\ \A a \in todo[c] : phase[c] = "look" => a \in Archs /\ job[c].version \in Versions
           /\ \A i \in todo[c] : phase[c] = "images" => archOfImage(c, i) \in Archs /\ job[c].version \in Versions
           /\ \A i \in todo[c] : phase[c] = "images" => i \in imagesOf(c) /\ rolesOf(c, i) # {}
<1>1. jobInv(c) /\ updateInv(c)
  BY DEF FitInv
<1>2. ASSUME phase[c] = "look", NEW a \in todo[c] PROVE a \in Archs /\ job[c].version \in Versions
  BY <1>1, <1>2, RoleTypes DEF jobInv
<1>3. ASSUME phase[c] = "images", NEW i \in todo[c]
      PROVE  /\ archOfImage(c, i) \in Archs /\ job[c].version \in Versions
             /\ i \in imagesOf(c) /\ rolesOf(c, i) # {}
  <2>1. i \in imagesOf(c) /\ job[c].version \in Versions
    BY <1>1, <1>3 DEF jobInv, updateInv, staging
  <2>2. rolesOf(c, i) # {} /\ rolesOf(c, i) \subseteq Roles
    BY <2>1 DEF imagesOf, rolesOf
  <2> QED
    BY <2>1, <2>2, RoleTypes DEF archOfImage
<1> QED
  BY <1>2, <1>3

\* No step takes an image away, changes what it is or takes back its details.
LEMMA ImagesStep ==
    ASSUME StageInv, TypeInv, FitInv, [Next]_vars
    PROVE  ImagesKept
<1> USE StateTypes
<1>0. ASSUME images' = images PROVE ImagesKept
  BY <1>0 DEF ImagesKept
<1>1. ASSUME NEW i \in 1..Len(images), NEW e \in ImageRecord, images' = [images EXCEPT ![i] = e],
             e.version = images[i].version, e.arch = images[i].arch,
             images[i].schema => e.schema, images[i].shapes => e.shapes,
             images[i].state # "importing" => e.state = images[i].state
      PROVE  ImagesKept
  BY <1>1, ImageSet DEF ImagesKept
<1>2. ASSUME NEW c \in Clusters, Work(c) PROVE ImagesKept
  <2>1. CASE EnsureImage(c)
    BY <2>1, <1>0, ImageAdded, UploadFor DEF EnsureImage
  <2>2. CASE UploadOci(c)
    BY <2>2, ImageAdded, UploadFor DEF UploadOci
  <2>3. CASE StageImage(c)
    BY <2>3, <1>0, ImageAdded, UploadFor DEF StageImage
  <2>4. CASE CreateEFIImageSchema(c)
    <3>1. PICK i \in work[c] \ detailed[c] : images' = [images EXCEPT ![i].schema = TRUE]
      BY <2>4 DEF CreateEFIImageSchema
    <3>2. i \in 1..Len(images)
      BY DEF StageInv
    <3>3. [images[i] EXCEPT !.schema = TRUE] \in ImageRecord
      BY <3>2 DEF ImageRecord
    <3> QED
      BY <3>1, <3>2, <3>3, <1>1 DEF ImageRecord
  <2>5. CASE EnsureCompatibleImageShapes(c)
    <3>1. PICK i \in work[c] \ detailed[c] : images' = [images EXCEPT ![i].shapes = TRUE]
      BY <2>5 DEF EnsureCompatibleImageShapes
    <3>2. i \in 1..Len(images)
      BY DEF StageInv
    <3>3. [images[i] EXCEPT !.shapes = TRUE] \in ImageRecord
      BY <3>2 DEF ImageRecord
    <3> QED
      BY <3>1, <3>2, <3>3, <1>1 DEF ImageRecord
  <2> QED
    BY <1>0, <1>2, <2>1, <2>2, <2>3, <2>4, <2>5
    DEF Work, WaitForWorkRequests, DetailsDone, GetTemplate, PatchControlPlane, FindUpdates,
        StageVMTemplates, CreateTemplates, CreateRefused, TemplatesDone, HelpMessages, storeVars
<1>3. ASSUME NEW i \in 1..Len(images), Import(i) PROVE ImagesKept
  <2>1. PICK s \in {"available", "failed", "canceled"} : images' = [images EXCEPT ![i].state = s]
    BY <1>3 DEF Import
  <2>2. [images[i] EXCEPT !.state = s] \in ImageRecord
    BY DEF ImageRecord
  <2> QED
    BY <2>1, <2>2, <1>1, <1>3 DEF ImageRecord, Import
<1> QED
  BY <1>0, <1>2, <1>3 DEF Next, Begin, Fault, fail, Apply, Edit, Release, Imports, storeVars, vars

-----------------------------------------------------------------------------
(* What a step leaves alone                                                 *)

LEMMA Domains ==
    ASSUME StageInv, TypeInv
    PROVE  /\ DOMAIN phase = Clusters /\ DOMAIN job = Clusters /\ DOMAIN status = Clusters
           /\ DOMAIN todo = Clusters /\ DOMAIN updates = Clusters
           /\ DOMAIN work = Clusters /\ DOMAIN detailed = Clusters
           /\ DOMAIN parents = Clusters /\ DOMAIN kcp = Clusters
  BY DEF StageInv, TypeInv

\* The command of one cluster does nothing to the others, but for the images
\* that it may add.
LEMMA Beside ==
    ASSUME StageInv, TypeInv, NEW c \in Clusters, ClusterStep(c), NEW d \in Clusters, d # c
    PROVE  /\ phase'[d] = phase[d] /\ job'[d] = job[d] /\ status'[d] = status[d]
           /\ todo'[d] = todo[d] /\ updates'[d] = updates[d]
           /\ work'[d] = work[d] /\ detailed'[d] = detailed[d]
           /\ parents'[d] = parents[d]
           /\ kcp'[d] = kcp[d]
<1> USE Domains DEF step, end, forget
<1>1. CASE Work(c)
  <2>1. CASE EnsureImage(c)
    BY <2>1 DEF EnsureImage, storeVars, localVars, UploadAsync
  <2>2. CASE UploadOci(c)
    BY <2>2 DEF UploadOci, storeVars, localVars, UploadAsync
  <2>3. CASE WaitForWorkRequests(c)
    BY <2>3 DEF WaitForWorkRequests, storeVars, localVars
  <2>4. CASE CreateEFIImageSchema(c)
    BY <2>4 DEF CreateEFIImageSchema, storeVars, localVars
  <2>5. CASE EnsureCompatibleImageShapes(c)
    BY <2>5 DEF EnsureCompatibleImageShapes, storeVars, localVars
  <2>6. CASE DetailsDone(c)
    BY <2>6 DEF DetailsDone, storeVars, localVars
  <2>7. CASE GetTemplate(c)
    BY <2>7 DEF GetTemplate, storeVars, localVars
  <2>8. CASE PatchControlPlane(c)
    BY <2>8 DEF PatchControlPlane, storeVars, localVars
  <2>9. CASE FindUpdates(c)
    BY <2>9 DEF FindUpdates, storeVars, localVars
  <2>10. CASE StageImage(c)
    BY <2>10 DEF StageImage, storeVars, localVars, UploadAsync
  <2>11. CASE StageVMTemplates(c)
    BY <2>11 DEF StageVMTemplates, storeVars, localVars
  <2>12. CASE CreateTemplates(c)
    BY <2>12 DEF CreateTemplates, storeVars, localVars
  <2>13. CASE CreateRefused(c)
    BY <2>13 DEF CreateRefused, storeVars, localVars
  <2>14. CASE TemplatesDone(c)
    BY <2>14 DEF TemplatesDone, storeVars, localVars
  <2>15. CASE HelpMessages(c)
    BY <2>15 DEF HelpMessages, storeVars, localVars
  <2> QED
    BY <1>1, <2>1, <2>2, <2>3, <2>4, <2>5, <2>6, <2>7, <2>8, <2>9, <2>10, <2>11, <2>12, <2>13, <2>14, <2>15 DEF Work
<1>2. CASE Fault(c)
  BY <1>2 DEF Fault, fail, storeVars
<1>3. CASE \E kind \in {"start", "stage", "upload"}, v \in Versions : Begin(c, kind, v)
  BY <1>3 DEF Begin, storeVars
<1> QED
  BY <1>1, <1>2, <1>3 DEF ClusterStep

\* A step is one of a cluster's command, or changes nothing that commands hold.
LEMMA Steps ==
    ASSUME [Next]_vars
    PROVE  \/ \E c \in Clusters : ClusterStep(c)
           \/ /\ UNCHANGED <<templates, job, phase, localVars, status, world>>
              /\ \/ \E p \in patches : Apply(p)
                 \/ \E c \in Clusters : Edit(c)
                 \/ /\ UNCHANGED <<parents, kcp, edited, patches>>
                    /\ UNCHANGED images \/ Imports
  BY DEF Next, ClusterStep, vars, storeVars, Apply, Edit, Release, Imports, Import, localVars

LEMMA WorldFixed == ASSUME [Next]_vars PROVE world' = world
<1>1. ASSUME NEW c \in Clusters, Work(c) PROVE world' = world
  BY <1>1 DEF Work, step,
     EnsureImage, UploadOci, WaitForWorkRequests, CreateEFIImageSchema,
     EnsureCompatibleImageShapes, DetailsDone, GetTemplate, PatchControlPlane, FindUpdates, StageImage,
     StageVMTemplates, CreateTemplates, CreateRefused, TemplatesDone, HelpMessages
<1>2. ASSUME NEW c \in Clusters, Fault(c) PROVE world' = world
  BY <1>2 DEF Fault, fail, step
<1> QED
  BY <1>1, <1>2 DEF Next, Begin, Apply, Edit, Release, Imports, Import, vars

\* The machine template that a role refers to.
LEMMA TemplateOf ==
    ASSUME StageInv, NEW c \in Clusters, started(c), NEW r \in Roles
    PROVE  /\ templateOf(c, r) \in templates
           /\ isNamed(templateOf(c, r), c, parents[c][r].base, parents[c][r].n)
           /\ \A t \in templates : isNamed(t, c, parents[c][r].base, parents[c][r].n) => t = templateOf(c, r)
<1>1. \E t \in templates : isNamed(t, c, parents[c][r].base, parents[c][r].n)
  BY DEF StageInv, isNamed
<1>2. \A t, u \in templates : (t.cluster = u.cluster /\ t.base = u.base /\ t.n = u.n) => t = u
  BY DEF StageInv
<1> QED
  BY <1>1, <1>2 DEF templateOf, isNamed

\* Templates with names of their own do not change which one it is.
LEMMA TemplateKept ==
    ASSUME StageInv, NEW c \in Clusters, started(c), NEW r \in Roles,
           templates \subseteq templates', parents'[c][r] = parents[c][r],
           \A t, u \in templates' : (t.cluster = u.cluster /\ t.base = u.base /\ t.n = u.n) => t = u
    PROVE  templateOf(c, r)' = templateOf(c, r)
<1>1. templateOf(c, r) \in templates /\ isNamed(templateOf(c, r), c, parents[c][r].base, parents[c][r].n)
  BY TemplateOf
<1>2. templateOf(c, r)' = CHOOSE t \in templates' :
          t.cluster = c /\ t.base = parents[c][r].base /\ t.n = parents[c][r].n
  BY DEF templateOf
<1> QED
  BY <1>1, <1>2 DEF isNamed

-----------------------------------------------------------------------------
(* Types are kept                                                           *)

\* A template that a stage makes, and the image of it.
LEMMA NewTemplate ==
    ASSUME StageInv, TypeInv, FitInv, NEW c \in Clusters, phase[c] \in {"create", "help"},
           NEW i \in DOMAIN updates[c], NEW r \in rolesOf(c, i)
    PROVE  /\ started(c) /\ r \in Roles /\ templateOf(c, r).image = i
           /\ newTemplate(c, r) = [cluster |-> c, base |-> baseOf(c, r), n |-> parents[c][r].n + 1,
                                   image |-> updates[c][i]]
           /\ newTemplate(c, r) \in [cluster : Clusters, base : Roles, n : Nat \ {0}, image : Nat]
           /\ parents[c][r].n \in Nat \ {0} /\ templateOf(c, r).n = parents[c][r].n
<1>1. jobInv(c) /\ parentInv(c)
  BY DEF FitInv
<1>2. started(c)
  BY <1>1 DEF jobInv
<1>3. r \in Roles /\ templateOf(c, r).image = i
  BY DEF rolesOf
<1>4. /\ templateOf(c, r) \in [cluster : Clusters, base : Roles, n : Nat \ {0}, image : Nat]
      /\ isNamed(templateOf(c, r), c, baseOf(c, r), parents[c][r].n)
  BY <1>1, <1>2, <1>3, TemplateOf DEF parentInv, TypeInv
<1>5. newTemplate(c, r) = [cluster |-> c, base |-> baseOf(c, r), n |-> parents[c][r].n + 1,
                           image |-> updates[c][i]]
  BY <1>3, <1>4 DEF newTemplate, isNamed
<1>6. updates[c][i] \in Nat
  BY DEF TypeInv
<1>7. newTemplate(c, r) \in [cluster : Clusters, base : Roles, n : Nat \ {0}, image : Nat]
  BY <1>3, <1>5, <1>6, <1>4, RoleTypes DEF isNamed
<1> QED
  BY <1>2, <1>3, <1>4, <1>5, <1>7 DEF isNamed

\* A role whose template is still to be created uses an image with an update.
LEMMA TodoRole ==
    ASSUME StageInv, TypeInv, FitInv, NEW c \in Clusters, phase[c] = "create", NEW r \in todo[c]
    PROVE  \E i \in DOMAIN updates[c] : r \in rolesOf(c, i)
<1>1. r \in usersOf(c, DOMAIN updates[c])
  BY DEF FitInv, updateInv, staging, jobInv
<1> QED
  BY <1>1 DEF usersOf, rolesOf

\* The templates and the parents that commands make.
LEMMA TemplatesType ==
    ASSUME StageInv, TypeInv, FitInv, [Next]_vars
    PROVE  /\ templates \subseteq templates'
           /\ templates' \subseteq [cluster : Clusters, base : Roles, n : Nat \ {0}, image : Nat]
           /\ parents' \in [Clusters -> [Roles -> [version : Nat, base : Roles \cup {"none"}, n : Nat]]]
<1> USE DEF TypeInv
<1>0. CASE UNCHANGED <<templates, parents>>
  BY <1>0
<1>1. ASSUME NEW c \in Clusters, GetTemplate(c)
      PROVE  /\ templates \subseteq templates'
             /\ templates' \subseteq [cluster : Clusters, base : Roles, n : Nat \ {0}, image : Nat]
             /\ parents' \in [Clusters -> [Roles -> [version : Nat, base : Roles \cup {"none"}, n : Nat]]]
  <2>1. ASSUME NEW r \in Roles PROVE templateImage(c, r) \in Nat
    <3>1. GetImage(job[c].version, archOf(c, r)) \in 0..Len(images) /\ Len(images) \in Nat
      BY StateTypes, GetImageIs
    <3> QED
      BY <3>1, StateTypes DEF templateImage
  <2>2. \A r \in Roles : baseOf(c, r) \in Roles
    BY RoleTypes
  <2> QED
    BY <1>1, <2>1, <2>2 DEF GetTemplate
<1>2. ASSUME NEW c \in Clusters, CreateTemplates(c)
      PROVE  /\ templates \subseteq templates' /\ UNCHANGED parents
             /\ templates' \subseteq [cluster : Clusters, base : Roles, n : Nat \ {0}, image : Nat]
  <2>1. phase[c] = "create" /\ UNCHANGED parents
    BY <1>2 DEF CreateTemplates, step
  <2>2. PICK r \in todo[c] : templates' = templates \cup {newTemplate(c, r)}
    BY <1>2 DEF CreateTemplates
  <2>3. PICK i \in DOMAIN updates[c] : r \in rolesOf(c, i)
    BY <2>1, TodoRole
  <2> QED
    BY <2>1, <2>2, <2>3, NewTemplate
<1>3. ASSUME NEW p \in patches, Apply(p)
      PROVE  /\ templates' = templates
             /\ parents' \in [Clusters -> [Roles -> [version : Nat, base : Roles \cup {"none"}, n : Nat]]]
  BY <1>3 DEF Apply
<1>4. ASSUME NEW c \in Clusters, ClusterStep(c) PROVE GetTemplate(c) \/ CreateTemplates(c)
          \/ UNCHANGED <<templates, parents>>
  BY <1>4 DEF ClusterStep, Work, Fault, fail, Begin, EnsureImage, UploadOci, WaitForWorkRequests,
     CreateEFIImageSchema, EnsureCompatibleImageShapes, DetailsDone, PatchControlPlane, FindUpdates,
     StageImage, StageVMTemplates, CreateRefused, TemplatesDone, HelpMessages, storeVars
<1>5. ASSUME NEW c \in Clusters, Edit(c) PROVE UNCHANGED <<templates, parents>>
  BY <1>5 DEF Edit
<1> QED
  BY <1>0, <1>1, <1>2, <1>3, <1>4, <1>5, Steps

LocalTypes ==
    /\ job \in [Clusters -> [kind : {"start", "stage", "upload"}, version : Nat]]
    /\ DOMAIN todo = Clusters /\ DOMAIN updates = Clusters
    /\ work \in [Clusters -> SUBSET Nat] /\ detailed \in [Clusters -> SUBSET Nat]
    /\ status \in [Clusters -> {"new", "runs", "done", "failed"}]
    /\ phase \in [Clusters -> Phases]

\* The variables of a command keep their types.
LEMMA LocalTypesStep ==
    ASSUME StageInv, TypeInv, NEW c \in Clusters, ClusterStep(c)
    PROVE  LocalTypes'
<1>1. LocalTypes /\ Len(images) \in Nat
  BY StateTypes DEF StageInv, TypeInv, LocalTypes
<1>2. \A i \in work[c] : i \in Nat
  BY <1>1 DEF LocalTypes
<1> USE Domains DEF step, end, forget, Phases, LocalTypes
<1>3. CASE Work(c)
  <2>1. CASE EnsureImage(c)
    <3>1. UNCHANGED work \/ work' = [work EXCEPT ![c] = @ \cup {Len(images) + 1}]
      BY <2>1 DEF EnsureImage, UploadAsync
    <3>2. UNCHANGED <<job, updates, detailed, status>>
      BY <2>1 DEF EnsureImage
    <3>3. DOMAIN todo' = Clusters
      BY <2>1 DEF EnsureImage
    <3>4. \E to \in {"wait", "look"} : phase' = [phase EXCEPT ![c] = to]
      BY <2>1 DEF EnsureImage
    <3>5. phase' \in [Clusters -> Phases]
      BY <1>1, <3>4
    <3>6. work' \in [Clusters -> SUBSET Nat]
      BY <1>1, <3>1
    <3> QED
      BY <1>1, <3>2, <3>3, <3>5, <3>6
  <2>2. CASE UploadOci(c)
    BY <1>1, <2>2 DEF UploadOci, UploadAsync
  <2>3. CASE WaitForWorkRequests(c)
    <3>1. CASE UNCHANGED <<job, localVars, status>>
      <4>1. phase' = [phase EXCEPT ![c] = "details"] \/ phase' = [phase EXCEPT ![c] = "idle"]
        BY <2>3 DEF WaitForWorkRequests
      <4>2. UNCHANGED job /\ UNCHANGED todo /\ UNCHANGED updates /\ UNCHANGED work /\ UNCHANGED detailed /\ UNCHANGED status
        BY <3>1 DEF localVars
      <4>3. phase' \in [Clusters -> Phases]
        BY <1>1, <4>1
      <4> QED
        BY <1>1, <4>2, <4>3
    <3>2. CASE phase' = [phase EXCEPT ![c] = "idle"] /\ UNCHANGED job /\ (end(c, "done") \/ end(c, "failed"))
      BY <1>1, <3>2
    <3> QED
      BY <2>3, <3>1, <3>2 DEF WaitForWorkRequests
  <2>4. CASE CreateEFIImageSchema(c)
    BY <1>1, <2>4 DEF CreateEFIImageSchema, localVars
  <2>5. CASE EnsureCompatibleImageShapes(c)
    BY <1>1, <1>2, <2>5 DEF EnsureCompatibleImageShapes
  <2>6. CASE DetailsDone(c)
    BY <1>1, <2>6 DEF DetailsDone
  <2>7. CASE GetTemplate(c)
    BY <1>1, <2>7 DEF GetTemplate
  <2>8. CASE PatchControlPlane(c)
    BY <1>1, <2>8 DEF PatchControlPlane, localVars
  <2>9. CASE FindUpdates(c)
    BY <1>1, <2>9 DEF FindUpdates
  <2>10. CASE StageImage(c)
    <3>1. UNCHANGED work \/ work' = [work EXCEPT ![c] = @ \cup {Len(images) + 1}]
      BY <2>10 DEF StageImage, UploadAsync
    <3>2. UNCHANGED <<job, detailed, status>>
      BY <2>10 DEF StageImage
    <3>3. DOMAIN todo' = Clusters
      BY <2>10 DEF StageImage
    <3>4. \E to \in {"wait", "images"} : phase' = [phase EXCEPT ![c] = to]
      BY <2>10 DEF StageImage
    <3>5. phase' \in [Clusters -> Phases]
      BY <1>1, <3>4
    <3>6. DOMAIN updates' = Clusters
      BY <2>10 DEF StageImage
    <3>7. work' \in [Clusters -> SUBSET Nat]
      BY <1>1, <3>1
    <3> QED
      BY <1>1, <3>2, <3>3, <3>5, <3>6, <3>7
  <2>11. CASE StageVMTemplates(c)
    BY <1>1, <2>11 DEF StageVMTemplates
  <2>12. CASE CreateTemplates(c)
    BY <1>1, <2>12 DEF CreateTemplates
  <2>13. CASE CreateRefused(c)
    BY <1>1, <2>13 DEF CreateRefused
  <2>14. CASE TemplatesDone(c)
    BY <1>1, <2>14 DEF TemplatesDone, localVars
  <2>15. CASE HelpMessages(c)
    BY <1>1, <2>15 DEF HelpMessages
  <2> QED
    BY <1>3, <2>1, <2>2, <2>3, <2>4, <2>5, <2>6, <2>7, <2>8, <2>9, <2>10, <2>11, <2>12, <2>13, <2>14, <2>15
    DEF Work
<1>4. CASE Fault(c)
  BY <1>1, <1>4 DEF Fault, fail
<1>5. CASE \E kind \in {"start", "stage", "upload"}, v \in Versions : Begin(c, kind, v)
  <2>1. PICK kind \in {"start", "stage", "upload"}, v \in Versions : Begin(c, kind, v)
    BY <1>5
  <2>2. v \in Nat
    BY StageAssumption
  <2>3. job' \in [Clusters -> [kind : {"start", "stage", "upload"}, version : Nat]]
    BY <1>1, <2>1, <2>2 DEF Begin
  <2>4. phase' \in [Clusters -> Phases]
    BY <1>1, <2>1 DEF Begin
  <2> QED
    BY <1>1, <2>1, <2>3, <2>4 DEF Begin
<1> QED
  BY <1>3, <1>4, <1>5 DEF ClusterStep

\* The images that a stage replaces, and those it replaces them with, are
\* numbers.
LEMMA UpdatesType ==
    ASSUME StageInv, TypeInv, FitInv, NEW c \in Clusters, ClusterStep(c)
    PROVE  \A i \in DOMAIN updates'[c] : i \in Nat /\ updates'[c][i] \in Nat
<1>1. \A i \in DOMAIN updates[c] : i \in Nat /\ updates[c][i] \in Nat
  BY DEF TypeInv
<1>2. CASE FindUpdates(c) \/ StageVMTemplates(c)
  <2>1. started(c)
    BY <1>2 DEF FindUpdates, StageVMTemplates, step, FitInv, jobInv
  <2>2. \A i \in imagesOf(c) : i \in Nat
    BY <2>1, TemplateOf DEF imagesOf, TypeInv
  <2>3. job[c].version \in Nat
    BY StateTypes
  <2>4. updates'[c] = [i \in {k \in imagesOf(c) : doUpdate(c, k)} |-> 0]
        \/ updates'[c] = [i \in {k \in imagesOf(c) : hasUpdate(c, k)} |-> job[c].version]
    BY <1>2, Domains DEF FindUpdates, StageVMTemplates
  <2> QED
    BY <2>2, <2>3, <2>4
<1>3. CASE StageImage(c)
  <2>1. PICK i \in todo[c] :
          \/ i \in DOMAIN updates[c] /\ updates' = [updates EXCEPT ![c][i] = Len(images) + 1]
          \/ \E n : /\ n = GetImage(job[c].version, archOfImage(c, i))
                    /\ updates' = [updates EXCEPT ![c] = [k \in DOMAIN @ \cup {i} |-> IF k = i THEN n ELSE @[k]]]
          \/ updates' = updates
    BY <1>3 DEF StageImage
  <2>2. Len(images) \in Nat /\ GetImage(job[c].version, archOfImage(c, i)) \in Nat
    BY StateTypes, GetImageIs
  <2>3. started(c) /\ phase[c] = "images"
    BY <1>3 DEF StageImage, FitInv, jobInv
  <2>4. i \in Nat
    BY <2>3, TemplateOf, UploadFor DEF imagesOf, TypeInv
  <2> QED
    BY <2>1, <2>2, <2>4, <1>1, Domains
<1>4. CASE UNCHANGED updates \/ updates' = [updates EXCEPT ![c] = nothing]
  BY <1>1, <1>4, Domains DEF nothing
<1> QED
  BY <1>2, <1>3, <1>4 DEF ClusterStep, Work, Fault, fail, Begin, EnsureImage, UploadOci, WaitForWorkRequests,
     CreateEFIImageSchema, EnsureCompatibleImageShapes, DetailsDone, GetTemplate, PatchControlPlane,
     CreateTemplates, CreateRefused, TemplatesDone, HelpMessages, localVars, end, forget

\* Patches are printed by HelpMessages and taken away by Apply.
LEMMA PatchSteps ==
    ASSUME [Next]_vars
    PROVE  \/ UNCHANGED patches
           \/ \E c \in Clusters : HelpMessages(c)
           \/ \E p \in patches : Apply(p)
<1>1. ASSUME NEW c \in Clusters, Work(c), ~HelpMessages(c) PROVE UNCHANGED patches
  <2>1. CASE EnsureImage(c) \/ UploadOci(c)
    BY <2>1 DEF EnsureImage, UploadOci
  <2>2. CASE WaitForWorkRequests(c)
    BY <2>2 DEF WaitForWorkRequests, storeVars
  <2>3. CASE CreateEFIImageSchema(c) \/ EnsureCompatibleImageShapes(c)
    BY <2>3 DEF CreateEFIImageSchema, EnsureCompatibleImageShapes
  <2>4. CASE DetailsDone(c) \/ FindUpdates(c) \/ StageVMTemplates(c) \/ TemplatesDone(c)
    BY <2>4 DEF DetailsDone, FindUpdates, StageVMTemplates, TemplatesDone, storeVars
  <2>5. CASE GetTemplate(c) \/ PatchControlPlane(c)
    BY <2>5 DEF GetTemplate, PatchControlPlane
  <2>6. CASE StageImage(c)
    BY <2>6 DEF StageImage
  <2>7. CASE CreateTemplates(c) \/ CreateRefused(c)
    BY <2>7 DEF CreateTemplates, CreateRefused, storeVars
  <2> QED
    BY <1>1, <2>1, <2>2, <2>3, <2>4, <2>5, <2>6, <2>7 DEF Work
<1>2. ASSUME NEW c \in Clusters, Fault(c) PROVE UNCHANGED patches
  BY <1>2 DEF Fault, fail, storeVars
<1>3. ASSUME NEW c, NEW k, NEW v, Begin(c, k, v) PROVE UNCHANGED patches
  BY <1>3 DEF Begin, storeVars
<1>4. ASSUME NEW c, Edit(c) PROVE UNCHANGED patches
  BY <1>4 DEF Edit
<1>5. ASSUME NEW v, Release(v) PROVE UNCHANGED patches
  BY <1>5 DEF Release
<1>6. ASSUME Imports PROVE UNCHANGED patches
  BY <1>6 DEF Imports, Import
<1>7. ASSUME UNCHANGED vars PROVE UNCHANGED patches
  BY <1>7 DEF vars, storeVars
<1> QED
  BY <1>1, <1>2, <1>3, <1>4, <1>5, <1>6, <1>7 DEF Next

\* The patches that HelpMessages prints.
LEMMA PatchesType ==
    ASSUME StageInv, TypeInv, FitInv, [Next]_vars, NEW p \in patches'
    PROVE  /\ p.cluster \in Clusters /\ p.role \in Roles /\ p.replaced \in BOOLEAN
           /\ p.version \in Nat /\ p.base \in Roles /\ p.n \in Nat
<1>1. CASE p \in patches
  BY <1>1 DEF TypeInv
<1>2. ASSUME NEW c \in Clusters, HelpMessages(c), p \notin patches
      PROVE  /\ p.cluster \in Clusters /\ p.role \in Roles /\ p.replaced \in BOOLEAN
             /\ p.version \in Nat /\ p.base \in Roles /\ p.n \in Nat
  <2>1. PICK r \in Roles, b \in BOOLEAN : p = patchFor(c, r, b)
    BY <1>2 DEF HelpMessages, Roles
  <2>2. started(c)
    BY <1>2 DEF HelpMessages, step, FitInv, jobInv
  <2>3. parents[c][r].base \in Roles /\ parents[c][r].n \in Nat /\ job[c].version \in Nat
    BY <2>2, StateTypes, RoleTypes DEF FitInv, parentInv
  <2> QED
    BY <2>1, <2>3 DEF patchFor
<1>3. p \in patches \/ \E c \in Clusters : HelpMessages(c)
  BY PatchSteps DEF Apply
<1> QED
  BY <1>1, <1>2, <1>3

LEMMA TypeStep == ASSUME StageInv, TypeInv, FitInv, [Next]_vars PROVE TypeInv'
<1>1. world' \in Worlds
  BY WorldFixed DEF TypeInv
<1>2. LocalTypes'
  <2>1. CASE \E c \in Clusters : ClusterStep(c)
    BY <2>1, LocalTypesStep
  <2>2. CASE UNCHANGED <<job, phase, localVars, status>>
    BY <2>2 DEF LocalTypes, TypeInv, StageInv, localVars
  <2> QED
    BY <2>1, <2>2, Steps
<1>3. \A c \in Clusters : \A i \in DOMAIN updates'[c] : i \in Nat /\ updates'[c][i] \in Nat
  <2>1. ASSUME NEW d \in Clusters, ClusterStep(d), NEW c \in Clusters
        PROVE  \A i \in DOMAIN updates'[c] : i \in Nat /\ updates'[c][i] \in Nat
    <3>1. c # d => updates'[c] = updates[c]
      BY <2>1, Beside
    <3> QED
      BY <2>1, <3>1, UpdatesType DEF TypeInv
  <2> QED
    BY <2>1, Steps DEF TypeInv, localVars
<1>4. DOMAIN kcp' = Clusters
  <2>1. ASSUME NEW c \in Clusters, ClusterStep(c) PROVE DOMAIN kcp' = Clusters
    BY <2>1, Domains DEF ClusterStep, Work, Fault, fail, Begin, EnsureImage, UploadOci, WaitForWorkRequests,
       CreateEFIImageSchema, EnsureCompatibleImageShapes, DetailsDone, GetTemplate, PatchControlPlane,
       FindUpdates, StageImage, StageVMTemplates,
       CreateTemplates, CreateRefused, TemplatesDone, HelpMessages, storeVars
  <2> QED
    BY <2>1, Steps, Domains DEF Apply, Edit
<1> QED
  BY <1>1, <1>2, <1>3, <1>4, TemplatesType, PatchesType DEF TypeInv, LocalTypes

-----------------------------------------------------------------------------
(* Names                                                                    *)

\* What an applied patch is for.
LEMMA PatchFor ==
    ASSUME StageInv, TypeInv, FitInv, NEW p \in patches
    PROVE  /\ p.cluster \in Clusters /\ p.role \in Roles /\ started(p.cluster)
           /\ patchInv(p)
  BY DEF TypeInv, FitInv, parentInv

\* The templates of a cluster that is started, one for each role.
LEMMA FirstTemplates ==
    ASSUME StageInv, TypeInv, FitInv, NEW c \in Clusters, GetTemplate(c)
    PROVE  /\ \A t \in templates : t.cluster # c
           /\ \A p \in patches : p.cluster # c
           /\ ~started(c) /\ c \notin edited
           /\ \A r, s \in Roles : baseOf(c, r) = baseOf(c, s) => templateImage(c, r) = templateImage(c, s)
           /\ \A r \in Roles : parents'[c][r] = [version |-> job[c].version, base |-> baseOf(c, r), n |-> 1]
           /\ started(c)'
<1>1. ~started(c)
  BY DEF GetTemplate, step, FitInv, jobInv
<1>2. /\ \A t \in templates : t.cluster # c
      /\ \A p \in patches : p.cluster # c
      /\ c \notin edited
  BY <1>1 DEF FitInv, parentInv
<1>3. \A r, s \in Roles : baseOf(c, r) = baseOf(c, s) => templateImage(c, r) = templateImage(c, s)
  BY WorldType DEF baseOf, templateImage, Roles
<1>4. \A r \in Roles : parents'[c][r] = [version |-> job[c].version, base |-> baseOf(c, r), n |-> 1]
  BY Domains DEF GetTemplate
<1>5. started(c)'
  <2>1. "cp" \in Roles
    BY DEF Roles
  <2>2. parents'[c]["cp"] = [version |-> job[c].version, base |-> baseOf(c, "cp"), n |-> 1]
    BY <1>4, <2>1
  <2>3. parents'[c]["cp"] # NoParent
    BY <2>2 DEF NoParent
  <2> QED
    BY <2>3 DEF started
<1> QED
  BY <1>1, <1>2, <1>3, <1>4, <1>5

\* Only commands that create machine templates add some; a machine template
\* has a name of its own.
UniqueNames(T) == \A t, u \in T : (t.cluster = u.cluster /\ t.base = u.base /\ t.n = u.n) => t = u
LEMMA NamesUnique ==
    ASSUME StageInv, TypeInv, FitInv, [Next]_vars
    PROVE  UniqueNames(templates')
<1>0. UniqueNames(templates)
  BY DEF StageInv, UniqueNames
<1>1. ASSUME NEW c \in Clusters, GetTemplate(c) PROVE UniqueNames(templates')
  <2>1. templates' = templates \cup
            {[cluster |-> c, base |-> baseOf(c, r), n |-> 1, image |-> templateImage(c, r)] : r \in Roles}
    BY <1>1 DEF GetTemplate
  <2> QED
    BY <1>0, <1>1, <2>1, FirstTemplates DEF UniqueNames
<1>2. ASSUME NEW c \in Clusters, CreateTemplates(c) PROVE UniqueNames(templates')
  <2>1. PICK r \in todo[c] : ~taken(newTemplate(c, r)) /\ templates' = templates \cup {newTemplate(c, r)}
    BY <1>2 DEF CreateTemplates
  <2>2. PICK t : t = newTemplate(c, r)
    OBVIOUS
  <2> QED
    BY <1>0, <2>1, <2>2 DEF UniqueNames, taken
<1>3. ASSUME NEW c \in Clusters, ClusterStep(c) PROVE GetTemplate(c) \/ CreateTemplates(c)
          \/ UNCHANGED templates
  BY <1>3 DEF ClusterStep, Work, Fault, fail, Begin, EnsureImage, UploadOci, WaitForWorkRequests,
     CreateEFIImageSchema, EnsureCompatibleImageShapes, DetailsDone, PatchControlPlane, FindUpdates,
     StageImage, StageVMTemplates, CreateRefused, TemplatesDone, HelpMessages, storeVars
<1> QED
  BY <1>0, <1>1, <1>2, <1>3, Steps

-----------------------------------------------------------------------------
(* What clusters use fits them                                              *)

\* An image keeps its version and its architecture.
LEMMA FitsKept ==
    ASSUME StageInv, TypeInv, FitInv, [Next]_vars, NEW c \in Clusters, NEW r \in Roles, NEW v, NEW i,
           fits(c, r, v, i), olvm(c) \/ i \in 1..Len(images)
    PROVE  fits(c, r, v, i)'
<1>1. ImagesKept /\ world' = world
  BY ImagesStep, WorldFixed
<1>2. /\ olvm(c)' = olvm(c)
      /\ archOf(c, r)' = archOf(c, r)
  BY <1>1 DEF olvm, archOf
<1>3. CASE olvm(c)
  BY <1>2, <1>3 DEF fits, imageVersion
<1>4. CASE ~olvm(c)
  BY <1>1, <1>2, <1>4 DEF fits, imageVersion, ImagesKept
<1> QED
  BY <1>3, <1>4

\* The steps that change which templates there are or which are used.
LEMMA ParentSteps ==
    ASSUME [Next]_vars
    PROVE  \/ UNCHANGED <<templates, parents>>
           \/ \E c \in Clusters : GetTemplate(c)
           \/ \E c \in Clusters : CreateTemplates(c) /\ UNCHANGED parents
           \/ \E p \in patches : Apply(p)
<1>1. ASSUME NEW c \in Clusters, ClusterStep(c)
      PROVE  \/ UNCHANGED <<templates, parents>>
             \/ GetTemplate(c)
             \/ CreateTemplates(c) /\ UNCHANGED parents
  BY <1>1 DEF ClusterStep, Work, Fault, fail, Begin, EnsureImage, UploadOci, WaitForWorkRequests,
     CreateEFIImageSchema, EnsureCompatibleImageShapes, DetailsDone, PatchControlPlane, FindUpdates,
     StageImage, StageVMTemplates, CreateTemplates, CreateRefused, TemplatesDone, HelpMessages, storeVars
<1> QED
  BY <1>1, Steps DEF Edit

\* What Apply does to the parents.
LEMMA AppliedParents ==
    ASSUME StageInv, TypeInv, FitInv, NEW p \in patches, Apply(p)
    PROVE  /\ p.replaced => parents'[p.cluster][p.role] = [version |-> p.version, base |-> p.base, n |-> p.n]
           /\ ~p.replaced => parents' = parents
           /\ \A c \in Clusters, r \in Roles : (c # p.cluster \/ r # p.role) => parents'[c][r] = parents[c][r]
           /\ \A c \in Clusters : started(c)' <=> started(c)
<1>1. p.cluster \in Clusters /\ p.role \in Roles /\ started(p.cluster) /\ patchInv(p)
  BY PatchFor
<1>2. DOMAIN parents = Clusters /\ DOMAIN parents[p.cluster] = Roles
  BY <1>1 DEF TypeInv
<1>3. /\ p.replaced => parents'[p.cluster][p.role] = [version |-> p.version, base |-> p.base, n |-> p.n]
      /\ ~p.replaced => parents' = parents
      /\ \A c \in Clusters, r \in Roles : (c # p.cluster \/ r # p.role) => parents'[c][r] = parents[c][r]
  BY <1>1, <1>2 DEF Apply
<1>4. "cp" \in Roles
  BY DEF Roles
<1>5. p.replaced => [version |-> p.version, base |-> p.base, n |-> p.n] # NoParent
  <2>1. ASSUME p.replaced PROVE [version |-> p.version, base |-> p.base, n |-> p.n].n # NoParent.n
    <3>1. p.n > 1 /\ p.n \in Nat
      BY <1>1, <2>1 DEF patchInv, TypeInv
    <3> QED
      BY <3>1 DEF NoParent
  <2> QED
    BY <2>1
<1>6. \A c \in Clusters : started(c)' <=> started(c)
  BY <1>1, <1>3, <1>4, <1>5 DEF started
<1> QED
  BY <1>3, <1>6

\* Every role of a started cluster refers to a template that exists.
LEMMA ParentsExist ==
    ASSUME StageInv, TypeInv, FitInv, [Next]_vars, NEW c \in Clusters, started(c)', NEW r \in Roles
    PROVE  \E t \in templates' : t.cluster = c /\ t.base = parents'[c][r].base /\ t.n = parents'[c][r].n
<1>0. ASSUME started(c), parents'[c][r] = parents[c][r]
      PROVE  \E t \in templates' : t.cluster = c /\ t.base = parents'[c][r].base /\ t.n = parents'[c][r].n
  BY <1>0, TemplatesType DEF StageInv
<1>1. CASE UNCHANGED parents
  BY <1>0, <1>1 DEF started
<1>2. ASSUME NEW d \in Clusters, GetTemplate(d)
      PROVE  \E t \in templates' : t.cluster = c /\ t.base = parents'[c][r].base /\ t.n = parents'[c][r].n
  <2>1. CASE c = d
    <3>1. [cluster |-> c, base |-> baseOf(c, r), n |-> 1, image |-> templateImage(c, r)] \in templates'
      BY <1>2, <2>1 DEF GetTemplate
    <3>2. parents'[c][r] = [version |-> job[c].version, base |-> baseOf(c, r), n |-> 1]
      BY <1>2, <2>1, FirstTemplates
    <3> QED
      BY <3>1, <3>2
  <2>2. CASE c # d
    <3>1. parents'[c] = parents[c]
      BY <1>2, <2>2, Beside DEF ClusterStep, Work
    <3> QED
      BY <1>0, <3>1 DEF started
  <2> QED
    BY <2>1, <2>2
<1>3. ASSUME NEW p \in patches, Apply(p)
      PROVE  \E t \in templates' : t.cluster = c /\ t.base = parents'[c][r].base /\ t.n = parents'[c][r].n
  <2>1. CASE c = p.cluster /\ r = p.role /\ p.replaced
    <3>1. \E t \in templates : isNamed(t, c, p.base, p.n)
      BY <2>1, PatchFor DEF patchInv
    <3>2. parents'[c][r] = [version |-> p.version, base |-> p.base, n |-> p.n]
      BY <1>3, <2>1, AppliedParents
    <3> QED
      BY <3>1, <3>2, TemplatesType DEF isNamed
  <2>2. CASE ~(c = p.cluster /\ r = p.role /\ p.replaced)
    <3>1. started(c)
      BY <1>3, AppliedParents
    <3>2. CASE ~p.replaced
      <4>1. parents' = parents
        BY <1>3, <3>2, AppliedParents
      <4> QED
        BY <1>0, <3>1, <4>1
    <3>3. CASE c # p.cluster \/ r # p.role
      <4>1. parents'[c][r] = parents[c][r]
        <5>1. \A d \in Clusters, s \in Roles : (d # p.cluster \/ s # p.role) => parents'[d][s] = parents[d][s]
          BY <1>3, AppliedParents
        <5> QED
          BY <3>3, <5>1
      <4> QED
        BY <1>0, <3>1, <4>1
    <3> QED
      BY <2>2, <3>2, <3>3
  <2> QED
    BY <2>1, <2>2
<1> QED
  BY <1>1, <1>2, <1>3, ParentSteps

\* A cluster is started by its own GetTemplate only.
LEMMA StartedKept ==
    ASSUME StageInv, TypeInv, FitInv, [Next]_vars, NEW c \in Clusters
    PROVE  \/ started(c)' <=> started(c)
           \/ GetTemplate(c)
<1>1. CASE UNCHANGED parents
  BY <1>1 DEF started
<1>2. ASSUME NEW d \in Clusters, GetTemplate(d), d # c PROVE started(c)' <=> started(c)
  <2>1. parents'[c] = parents[c]
    BY <1>2, Beside DEF ClusterStep, Work
  <2> QED
    BY <2>1 DEF started
<1>3. ASSUME NEW p \in patches, Apply(p) PROVE started(c)' <=> started(c)
  BY <1>3, AppliedParents
<1> QED
  BY <1>1, <1>2, <1>3, ParentSteps

\* jobInv depends on the cluster's own command only.
LEMMA JobBeside ==
    ASSUME NEW c \in Clusters, jobInv(c), phase'[c] = phase[c], job'[c] = job[c], todo'[c] = todo[c],
           started(c)' <=> started(c), world' = world
    PROVE  jobInv(c)'
  BY DEF jobInv, olvm, archOf

LEMMA JobStep ==
    ASSUME StageInv, TypeInv, FitInv, [Next]_vars, NEW c \in Clusters
    PROVE  jobInv(c)'
<1>1. jobInv(c) /\ world' = world /\ (olvm(c)' <=> olvm(c)) /\ \A r \in Roles : archOf(c, r)' = archOf(c, r)
  BY WorldFixed DEF FitInv, olvm, archOf
<1>2. ASSUME NEW d \in Clusters, ClusterStep(d), d # c PROVE jobInv(c)'
  <2>1. ~GetTemplate(c)
    BY <1>2, Beside, Domains DEF GetTemplate, step, StageInv
  <2> QED
    BY <1>1, <1>2, <2>1, Beside, StartedKept, JobBeside
<1>3. CASE GetTemplate(c)
  <2>1. phase'[c] = "idle"
    BY <1>3, Domains DEF GetTemplate, step
  <2> QED
    BY <2>1, <1>1 DEF jobInv
<1>4. ASSUME ClusterStep(c), started(c)' <=> started(c) PROVE jobInv(c)'
  <2> USE <1>1, <1>4, Domains DEF jobInv, step
  <2>1. CASE Work(c)
    <3>1. CASE EnsureImage(c)
      BY <3>1 DEF EnsureImage
    <3>2. CASE UploadOci(c)
      BY <3>2 DEF UploadOci
    <3>3. CASE WaitForWorkRequests(c)
      BY <3>3 DEF WaitForWorkRequests, localVars
    <3>4. CASE CreateEFIImageSchema(c) \/ EnsureCompatibleImageShapes(c) \/ DetailsDone(c)
      BY <3>4, StateTypes DEF CreateEFIImageSchema, EnsureCompatibleImageShapes, DetailsDone
    <3>5. CASE GetTemplate(c) \/ PatchControlPlane(c)
      BY <3>5 DEF GetTemplate, PatchControlPlane
    <3>6. CASE FindUpdates(c) \/ StageVMTemplates(c)
      BY <3>6 DEF FindUpdates, StageVMTemplates
    <3>7. CASE StageImage(c)
      BY <3>7 DEF StageImage
    <3>8. CASE CreateTemplates(c)
      BY <3>8 DEF CreateTemplates
    <3>9. CASE CreateRefused(c)
      BY <3>9 DEF CreateRefused
    <3>10. CASE TemplatesDone(c)
      BY <3>10 DEF TemplatesDone, localVars
    <3>11. CASE HelpMessages(c)
      BY <3>11 DEF HelpMessages
    <3> QED
      BY <2>1, <3>1, <3>2, <3>3, <3>4, <3>5, <3>6, <3>7, <3>8, <3>9, <3>10, <3>11 DEF Work
  <2>2. CASE Fault(c)
    BY <2>2 DEF Fault, fail
  <2>3. ASSUME NEW kind \in {"start", "stage", "upload"}, NEW v \in Versions, Begin(c, kind, v) PROVE jobInv(c)'
    <3>1. /\ job'[c].kind = kind /\ job'[c].version = v
          /\ todo'[c] = IF olvm(c) THEN {} ELSE {archOf(c, r) : r \in Roles}
          /\ phase'[c] = CASE kind = "start" -> IF olvm(c) THEN "template" ELSE "look"
                           [] kind = "stage" -> "graph"
                           [] kind = "upload" -> "look"
      BY <2>3 DEF Begin
    <3>2. /\ kind = "start" => ~started(c)
          /\ kind = "stage" => started(c)
          /\ kind = "upload" => world.uploads /\ ~olvm(c)
      BY <2>3 DEF Begin
    <3> QED
      BY <3>1, <3>2
  <2> QED
    BY <2>1, <2>2, <2>3 DEF ClusterStep
<1>5. ASSUME UNCHANGED <<job, phase, localVars>>, ~GetTemplate(c) PROVE jobInv(c)'
  BY <1>1, <1>5, StartedKept, JobBeside DEF localVars
<1>6. GetTemplate(c) => ClusterStep(c)
  BY DEF ClusterStep, Work
<1> QED
  BY <1>2, <1>3, <1>4, <1>5, Steps, StartedKept

\* What is fixed for a cluster.
LEMMA ClusterFixed ==
    ASSUME [Next]_vars, NEW c
    PROVE  /\ world' = world /\ (olvm(c)' <=> olvm(c))
           /\ \A r : archOf(c, r)' = archOf(c, r) /\ baseOf(c, r)' = baseOf(c, r)
  BY WorldFixed DEF olvm, archOf, baseOf

\* What a stage found out about the machine templates stays true.
LEMMA GraphKept ==
    ASSUME StageInv, TypeInv, FitInv, [Next]_vars, NEW c \in Clusters, started(c), parents'[c] = parents[c]
    PROVE  /\ \A r \in Roles : templateOf(c, r)' = templateOf(c, r)
           /\ imagesOf(c)' = imagesOf(c)
           /\ \A i : rolesOf(c, i)' = rolesOf(c, i)
           /\ \A I : usersOf(c, I)' = usersOf(c, I)
           /\ updates'[c] = updates[c] => \A r \in Roles : newTemplate(c, r)' = newTemplate(c, r)
<1>1. \A t, u \in templates' : (t.cluster = u.cluster /\ t.base = u.base /\ t.n = u.n) => t = u
  BY NamesUnique DEF UniqueNames
<1>2. \A r \in Roles : templateOf(c, r)' = templateOf(c, r)
  BY <1>1, TemplatesType, TemplateKept
<1> QED
  BY <1>2 DEF imagesOf, rolesOf, usersOf, newTemplate

\* So does which templates it has created.
LEMMA CreatedKept ==
    ASSUME StageInv, TypeInv, FitInv, [Next]_vars, NEW c \in Clusters, phase'[c] = phase[c],
           parents'[c] = parents[c], todo'[c] = todo[c], updates'[c] = updates[c]
    PROVE  createdFor(c)' = createdFor(c)
<1>1. CASE phase[c] \notin {"create", "help"}
  BY <1>1 DEF createdFor
<1>2. CASE phase[c] \in {"create", "help"}
  <2>1. started(c)
    BY <1>2 DEF FitInv, jobInv
  <2>2. PICK I : I = DOMAIN updates[c]
    OBVIOUS
  <2>3. usersOf(c, I)' = usersOf(c, I)
    BY <2>1, GraphKept
  <2>4. PICK U : U = usersOf(c, I)
    OBVIOUS
  <2>5. createdFor(c) = IF phase[c] = "create" THEN U \ todo[c] ELSE U
    BY <1>2, <2>2, <2>4 DEF createdFor
  <2>6. usersOf(c, DOMAIN updates[c])' = U
    BY <2>2, <2>3, <2>4 DEF usersOf
  <2>7. createdFor(c)' = IF phase'[c] = "create" THEN U \ todo'[c] ELSE U
    BY <1>2, <2>6 DEF createdFor
  <2> QED
    BY <2>5, <2>7
<1> QED
  BY <1>1, <1>2

LEMMA ParentStep ==
    ASSUME StageInv, TypeInv, FitInv, [Next]_vars, NEW c \in Clusters, started(c)', NEW r \in Roles
    PROVE  /\ parents'[c][r].base = baseOf(c, r) /\ parents'[c][r].n > 0
           /\ fits(c, r, parents[c][r].version, templateOf(c, r).image)'
<1> DEFINE goal == /\ parents'[c][r].base = baseOf(c, r) /\ parents'[c][r].n > 0
                   /\ fits(c, r, parents[c][r].version, templateOf(c, r).image)'
<1> SUFFICES goal
  OBVIOUS
<1>1. \A t, u \in templates' : (t.cluster = u.cluster /\ t.base = u.base /\ t.n = u.n) => t = u
  BY NamesUnique DEF UniqueNames
<1>2. \A t \in templates' : isNamed(t, c, parents'[c][r].base, parents'[c][r].n) => templateOf(c, r)' = t
  BY <1>1 DEF templateOf, isNamed
<1>3. ASSUME started(c), parents'[c][r] = parents[c][r] PROVE goal
  <2>1. /\ parents[c][r].base = baseOf(c, r) /\ parents[c][r].n > 0
        /\ fits(c, r, parents[c][r].version, templateOf(c, r).image)
    BY <1>3 DEF FitInv, parentInv
  <2>2. templateOf(c, r)' = templateOf(c, r)
    BY <1>1, <1>3, TemplatesType, TemplateKept
  <2>3. PICK v, i : v = parents[c][r].version /\ i = templateOf(c, r).image
    OBVIOUS
  <2>4. olvm(c) \/ i \in 1..Len(images)
    BY <2>1, <2>3 DEF fits
  <2>5. fits(c, r, v, i)'
    BY <2>1, <2>3, <2>4, FitsKept
  <2> QED
    BY <1>3, <2>1, <2>2, <2>3, <2>5 DEF fits
<1>4. CASE UNCHANGED parents
  BY <1>3, <1>4 DEF started
<1>5. ASSUME NEW d \in Clusters, GetTemplate(d) PROVE goal
  <2>1. CASE d = c
    <3> DEFINE t == [cluster |-> c, base |-> baseOf(c, r), n |-> 1, image |-> templateImage(c, r)]
    <3>1. t \in templates' /\ images' = images /\ templateImage(c, r) # 0 /\ phase[c] = "template"
      BY <1>5, <2>1 DEF GetTemplate, step
    <3>2. parents'[c][r] = [version |-> job[c].version, base |-> baseOf(c, r), n |-> 1]
      BY <1>5, <2>1, FirstTemplates
    <3>3. templateOf(c, r)' = t
      BY <1>2, <3>1, <3>2 DEF isNamed
    <3>4. CASE olvm(c)
      BY <3>2, <3>3, <3>4, ClusterFixed DEF fits, imageVersion, templateImage
    <3>5. CASE ~olvm(c)
      <4>1. templateImage(c, r) \in matching(job[c].version, archOf(c, r))
        BY <3>1, <3>5, StateTypes, GetImageIs DEF templateImage
      <4> QED
        BY <3>1, <3>2, <3>3, <3>5, <4>1, ClusterFixed DEF fits, imageVersion, matching
    <3> QED
      BY <3>4, <3>5
  <2>2. CASE d # c
    <3>1. parents'[c] = parents[c]
      BY <1>5, <2>2, Beside DEF ClusterStep, Work
    <3> QED
      BY <1>3, <3>1 DEF started
  <2> QED
    BY <2>1, <2>2
<1>6. ASSUME NEW p \in patches, Apply(p) PROVE goal
  <2>1. CASE c = p.cluster /\ r = p.role /\ p.replaced
    <3>1. PICK t \in templates : isNamed(t, c, p.base, p.n) /\ fits(c, r, p.version, t.image)
      BY <2>1, PatchFor DEF patchInv
    <3>2. parents'[c][r] = [version |-> p.version, base |-> p.base, n |-> p.n]
      BY <1>6, <2>1, AppliedParents
    <3>3. templateOf(c, r)' = t
      BY <1>2, <3>1, <3>2, TemplatesType
    <3>4. olvm(c) \/ t.image \in 1..Len(images)
      BY <3>1 DEF fits
    <3> DEFINE v == p.version
               i == t.image
    <3>5. fits(c, r, v, i)'
      <4> HIDE DEF v, i
      <4> QED
        BY <3>1, <3>4, FitsKept DEF v, i
    <3>6. p.base = baseOf(c, r) /\ p.n > 1 /\ p.n \in Nat
      BY <2>1, PatchFor DEF patchInv, TypeInv
    <3> QED
      BY <3>2, <3>3, <3>5, <3>6
  <2>2. CASE ~(c = p.cluster /\ r = p.role /\ p.replaced)
    <3>1. started(c)
      BY <1>6, AppliedParents
    <3>2. parents'[c][r] = parents[c][r]
      <4>1. ~p.replaced => parents' = parents
        BY <1>6, AppliedParents
      <4>2. \A d \in Clusters, s \in Roles : (d # p.cluster \/ s # p.role) => parents'[d][s] = parents[d][s]
        BY <1>6, AppliedParents
      <4> QED
        BY <2>2, <4>1, <4>2
    <3> QED
      BY <1>3, <3>1, <3>2
  <2> QED
    BY <2>1, <2>2
<1> QED
  BY <1>4, <1>5, <1>6, ParentSteps

\* What a cluster that is not started does not have.
LEMMA UnusedStep ==
    ASSUME StageInv, TypeInv, FitInv, [Next]_vars, NEW c \in Clusters, ~started(c)'
    PROVE  /\ \A t \in templates' : t.cluster # c
           /\ \A p \in patches' : p.cluster # c
           /\ c \notin edited'
<1>1. ~started(c)
  BY StartedKept, FirstTemplates
<1>2. (\A t \in templates : t.cluster # c) /\ (\A p \in patches : p.cluster # c) /\ c \notin edited
  BY <1>1 DEF FitInv, parentInv
<1>3. ~GetTemplate(c)
  BY FirstTemplates
<1>4. ASSUME NEW d \in Clusters, CreateTemplates(d)
      PROVE  \A t \in templates' : t.cluster # c
  <2>1. PICK r \in todo[d] : templates' = templates \cup {newTemplate(d, r)}
    BY <1>4 DEF CreateTemplates
  <2>2. phase[d] = "create"
    BY <1>4 DEF CreateTemplates, step
  <2>3. newTemplate(d, r).cluster = d /\ started(d)
    BY <2>2, TodoRole, NewTemplate
  <2> QED
    BY <1>1, <1>2, <2>1, <2>3
<1>5. ASSUME NEW d \in Clusters, GetTemplate(d) PROVE \A t \in templates' : t.cluster # c
  <2>1. d # c
    BY <1>3, <1>5
  <2> QED
    BY <1>2, <1>5, <2>1 DEF GetTemplate
<1>6. \A t \in templates' : t.cluster # c
  <2>1. CASE UNCHANGED templates
    BY <1>2, <2>1
  <2>2. UNCHANGED templates \/ (\E d \in Clusters : GetTemplate(d)) \/ \E d \in Clusters : CreateTemplates(d)
    BY ParentSteps DEF Apply
  <2> QED
    BY <1>4, <1>5, <2>1, <2>2
<1>7. ASSUME NEW d \in Clusters, HelpMessages(d) PROVE \A p \in patches' : p.cluster # c
  <2>1. started(d)
    BY <1>7 DEF HelpMessages, step, FitInv, jobInv
  <2> QED
    BY <1>1, <1>2, <1>7, <2>1 DEF HelpMessages, patchFor
<1>8. \A p \in patches' : p.cluster # c
  <2>1. patches' \subseteq patches \/ \E d \in Clusters : HelpMessages(d)
    BY PatchSteps DEF Apply
  <2> QED
    BY <1>2, <1>7, <2>1
<1>9. c \notin edited'
  <2>1. ASSUME NEW d \in Clusters, ClusterStep(d) PROVE UNCHANGED edited
    BY <2>1 DEF ClusterStep, Begin, Fault, fail, Work, storeVars,
       EnsureImage, UploadOci, WaitForWorkRequests,
       CreateEFIImageSchema, EnsureCompatibleImageShapes, DetailsDone, GetTemplate, PatchControlPlane,
       FindUpdates, StageImage, StageVMTemplates, CreateTemplates, CreateRefused, TemplatesDone, HelpMessages
  <2>2. ASSUME NEW d \in Clusters, Edit(d) PROVE c \notin edited'
    BY <1>1, <1>2, <2>2 DEF Edit
  <2>3. ASSUME NEW p \in patches, Apply(p) PROVE UNCHANGED edited
    BY <2>3 DEF Apply
  <2> QED
    BY <1>2, <2>1, <2>2, <2>3, Steps
<1> QED
  BY <1>6, <1>8, <1>9

\* A printed patch names a template that was made for it.
LEMMA PrintedFits ==
    ASSUME StageInv, TypeInv, FitInv, NEW c \in Clusters, HelpMessages(c), NEW p \in patches', p \notin patches
    PROVE  /\ p.cluster = c /\ p.role \in Roles /\ p.version = job[c].version /\ job[c].version \in Versions
           /\ p.n = parents[c][p.role].n + 1 /\ p.base = baseOf(c, p.role) /\ started(c)
           /\ p.replaced \in BOOLEAN
           /\ p = patchFor(c, p.role, p.replaced)
           /\ ~p.replaced => p.role = "cp" /\ newIgnition(c) # {}
           /\ p.replaced <=> templateOf(c, p.role).image \in DOMAIN updates[c]
           /\ p.replaced =>
                  /\ newTemplate(c, p.role) \in templates
                  /\ isNamed(newTemplate(c, p.role), c, p.base, p.n)
                  /\ newTemplate(c, p.role).image = target(c, p.role)
                  /\ fits(c, p.role, p.version, newTemplate(c, p.role).image)
<1>1. phase[c] = "help" /\ job[c].kind = "stage" /\ started(c) /\ updateInv(c) /\ parentInv(c)
      /\ job[c].version \in Versions
  BY DEF HelpMessages, step, FitInv, jobInv
<1>2. PICK r \in Roles, b \in BOOLEAN :
          /\ p = patchFor(c, r, b) /\ (b <=> templateOf(c, r).image \in DOMAIN updates[c])
          /\ ~b => r = "cp" /\ newIgnition(c) # {}
  BY DEF HelpMessages, Roles
<1>3. /\ p.cluster = c /\ p.role = r /\ p.replaced = b /\ p.version = job[c].version
      /\ p.n = parents[c][r].n + 1 /\ p.base = baseOf(c, r)
  BY <1>1, <1>2 DEF patchFor, parentInv
<1>4. ASSUME b
      PROVE  /\ newTemplate(c, r) \in templates
             /\ isNamed(newTemplate(c, r), c, p.base, p.n)
             /\ newTemplate(c, r).image = target(c, r)
             /\ fits(c, r, p.version, newTemplate(c, r).image)
  <2> DEFINE i == templateOf(c, r).image
  <2>1. i \in DOMAIN updates[c] /\ r \in rolesOf(c, i) /\ r \in usersOf(c, DOMAIN updates[c])
    BY <1>2, <1>4 DEF rolesOf, usersOf
  <2>2. newTemplate(c, r) \in templates /\ fits(c, r, job[c].version, updates[c][i])
    BY <1>1, <2>1 DEF updateInv, staging, createdFor, dealtWith
  <2>3. newTemplate(c, r) = [cluster |-> c, base |-> baseOf(c, r), n |-> parents[c][r].n + 1, image |-> updates[c][i]]
    BY <1>1, <2>1, NewTemplate
  <2> QED
    BY <1>3, <2>1, <2>2, <2>3 DEF isNamed, target
<1> QED
  BY <1>1, <1>2, <1>3, <1>4

LEMMA PatchStep ==
    ASSUME StageInv, TypeInv, FitInv, [Next]_vars, NEW p \in patches'
    PROVE  patchInv(p)'
<1>1. SUFFICES ASSUME p.replaced
               PROVE  /\ p.base = baseOf(p.cluster, p.role) /\ p.n > 1
                      /\ \E t \in templates' :
                             /\ isNamed(t, p.cluster, p.base, p.n)
                             /\ fits(p.cluster, p.role, p.version, t.image)'
  BY ClusterFixed DEF patchInv
<1>2. /\ p.cluster \in Clusters /\ p.role \in Roles
      /\ p.base = baseOf(p.cluster, p.role) /\ p.n > 1
      /\ \E t \in templates : isNamed(t, p.cluster, p.base, p.n) /\ fits(p.cluster, p.role, p.version, t.image)
  <2>1. CASE p \in patches
    BY <1>1, <2>1, PatchFor DEF patchInv
  <2>2. ASSUME NEW c \in Clusters, HelpMessages(c), p \notin patches
      PROVE  /\ p.cluster \in Clusters /\ p.role \in Roles
             /\ p.base = baseOf(p.cluster, p.role) /\ p.n > 1
             /\ \E t \in templates :
                    isNamed(t, p.cluster, p.base, p.n) /\ fits(p.cluster, p.role, p.version, t.image)
    <3>1. /\ p.cluster = c /\ p.role \in Roles /\ p.base = baseOf(c, p.role) /\ p.n = parents[c][p.role].n + 1
          /\ newTemplate(c, p.role) \in templates /\ started(c)
          /\ isNamed(newTemplate(c, p.role), c, p.base, p.n)
          /\ fits(c, p.role, p.version, newTemplate(c, p.role).image)
      BY <1>1, <2>2, PrintedFits
    <3>2. parents[c][p.role].n \in Nat /\ parents[c][p.role].n > 0
      BY <3>1, StateTypes DEF FitInv, parentInv
    <3> QED
      BY <3>1, <3>2
  <2> QED
    BY <2>1, <2>2, PatchSteps DEF Apply
<1>3. PICK t \in templates : isNamed(t, p.cluster, p.base, p.n) /\ fits(p.cluster, p.role, p.version, t.image)
  BY <1>2
<1>4. fits(p.cluster, p.role, p.version, t.image)'
  <2>1. olvm(p.cluster) \/ t.image \in 1..Len(images)
    BY <1>3 DEF fits
  <2> QED
    BY <1>2, <1>3, <2>1, FitsKept
<1> QED
  BY <1>2, <1>3, <1>4, TemplatesType

\* Templates name images that exist.
LEMMA TemplateImagesExist ==
    ASSUME StageInv, TypeInv, FitInv, [Next]_vars, NEW t \in templates', ~olvm(t.cluster)
    PROVE  t.image \in 1..Len(images')
<1>1. Len(images) \in Nat /\ Len(images') \in Nat /\ Len(images) <= Len(images')
  BY ImagesStep, StateTypes, LenProperties DEF ImagesKept
<1>2. SUFFICES t.image \in 1..Len(images)
  BY <1>1
<1>3. CASE t \in templates
  BY <1>3 DEF FitInv
<1>4. ASSUME NEW c \in Clusters, GetTemplate(c), t \notin templates PROVE t.image \in 1..Len(images)
  <2>1. PICK r \in Roles : t = [cluster |-> c, base |-> baseOf(c, r), n |-> 1, image |-> templateImage(c, r)]
    BY <1>4 DEF GetTemplate
  <2>2. t.image = GetImage(job[c].version, archOf(c, r)) /\ t.image # 0
    BY <1>4, <2>1 DEF templateImage, GetTemplate
  <2> QED
    BY <1>1, <2>2, StateTypes, GetImageIs
<1>5. ASSUME NEW c \in Clusters, CreateTemplates(c), t \notin templates
      PROVE  t.image \in 1..Len(images)
  <2>1. PICK r \in todo[c] : t = newTemplate(c, r)
    BY <1>5 DEF CreateTemplates
  <2>2. phase[c] = "create" /\ job[c].kind = "stage"
    BY <1>5 DEF CreateTemplates, step, FitInv, jobInv
  <2>3. PICK i \in DOMAIN updates[c] : r \in rolesOf(c, i)
    BY <2>2, TodoRole
  <2>4. t = newTemplate(c, r)
    BY <2>1
  <2>5. t.image = updates[c][i] /\ t.cluster = c
    BY <2>2, <2>3, <2>4, NewTemplate
  <2>6. fits(c, r, job[c].version, updates[c][i])
    BY <2>2, <2>3 DEF FitInv, updateInv, staging, dealtWith
  <2> QED
    BY <2>5, <2>6 DEF fits
<1> QED
  BY <1>3, <1>4, <1>5, ParentSteps DEF Apply

\* The updates of a stage that goes on with those it has.
LEMMA UpdateSame ==
    ASSUME StageInv, TypeInv, FitInv, [Next]_vars, NEW c \in Clusters, staging(c),
           parents'[c] = parents[c], updates'[c] = updates[c], job'[c] = job[c],
           dealtWith(c)' \subseteq dealtWith(c), createdFor(c)' \subseteq createdFor(c),
           phase'[c] = "images" => todo'[c] \subseteq imagesOf(c),
           phase'[c] = "create" => todo'[c] \subseteq usersOf(c, DOMAIN updates[c])
    PROVE  updateInv(c)'
<1>1. started(c) /\ updateInv(c) /\ parentInv(c)
  BY DEF staging, FitInv, jobInv
<1>2. /\ \A r \in Roles : templateOf(c, r)' = templateOf(c, r)
      /\ imagesOf(c)' = imagesOf(c)
      /\ \A i : rolesOf(c, i)' = rolesOf(c, i)
      /\ \A I : usersOf(c, I)' = usersOf(c, I)
      /\ \A r \in Roles : newTemplate(c, r)' = newTemplate(c, r)
  BY <1>1, GraphKept
<1>3. DOMAIN updates'[c] \subseteq imagesOf(c)
  BY <1>1 DEF updateInv
<1>4. ASSUME NEW i \in dealtWith(c)', NEW r \in rolesOf(c, i) PROVE fits(c, r, job[c].version, updates[c][i])'
  <2>1. fits(c, r, job[c].version, updates[c][i]) /\ r \in Roles
    BY <1>1, <1>4 DEF updateInv, rolesOf
  <2>2. PICK v, k : v = job[c].version /\ k = updates[c][i]
    OBVIOUS
  <2>3. olvm(c) \/ k \in 1..Len(images)
    BY <2>1, <2>2 DEF fits
  <2>4. fits(c, r, v, k)'
    BY <2>1, <2>2, <2>3, FitsKept
  <2> QED
    BY <2>2, <2>4 DEF fits
<1>5. ASSUME NEW r \in createdFor(c)' PROVE newTemplate(c, r)' \in templates'
  <2>1. r \in createdFor(c) /\ createdFor(c) \subseteq Roles
    BY <1>5 DEF createdFor, usersOf
  <2>2. newTemplate(c, r) \in templates
    BY <1>1, <2>1 DEF updateInv
  <2> QED
    BY <1>2, <2>1, <2>2, TemplatesType
<1>6. \A i \in dealtWith(c)' : \A r \in rolesOf(c, i)' : fits(c, r, job[c].version, updates[c][i])'
  BY <1>2, <1>4
<1>7. phase'[c] = "create" => todo'[c] \subseteq usersOf(c, DOMAIN updates[c])'
  <2>1. PICK I : I = DOMAIN updates[c]
    OBVIOUS
  <2>2. usersOf(c, I)' = usersOf(c, DOMAIN updates[c])'
    BY <2>1 DEF usersOf
  <2> QED
    BY <1>2, <2>1, <2>2
<1> QED
  BY <1>2, <1>3, <1>5, <1>6, <1>7 DEF updateInv

\* The images of a stage: one more is dealt with.
LEMMA StagedImage ==
    ASSUME StageInv, TypeInv, FitInv, [Next]_vars, NEW c \in Clusters, StageImage(c)
    PROVE  updateInv(c)'
<1>1. /\ jobInv(c) /\ parentInv(c) /\ updateInv(c) /\ phase[c] = "images" /\ started(c)
      /\ job[c].kind = "stage" /\ ~olvm(c) /\ job[c].version \in Versions
  BY DEF StageImage, FitInv, jobInv
<1>2. /\ parents'[c] = parents[c] /\ job'[c] = job[c] /\ templates' = templates
  BY DEF StageImage, step
<1>3. /\ \A r \in Roles : templateOf(c, r)' = templateOf(c, r)
      /\ imagesOf(c)' = imagesOf(c)
      /\ \A i : rolesOf(c, i)' = rolesOf(c, i)
  BY <1>1, <1>2, GraphKept
<1>4. PICK i \in todo[c] :
          /\ step(c, "images", IF todo[c] = {i} THEN "wait" ELSE "images")
          /\ todo' = [todo EXCEPT ![c] = @ \ {i}]
          /\ \/ /\ i \in DOMAIN updates[c]
                /\ UploadAsync(c, job[c].version, archOfImage(c, i))
                /\ updates' = [updates EXCEPT ![c][i] = Len(images) + 1]
             \/ /\ i \notin DOMAIN updates[c]
                /\ GetImage(job[c].version, archOfImage(c, i)) # 0
                /\ updates' = [updates EXCEPT ![c] = [k \in DOMAIN @ \cup {i} |->
                                  IF k = i THEN GetImage(job[c].version, archOfImage(c, i)) ELSE @[k]]]
                /\ UNCHANGED images
             \/ i \notin DOMAIN updates[c] /\ UNCHANGED <<images, updates>>
  BY Zenon DEF StageImage
<1>4a. /\ phase'[c] = IF todo[c] = {i} THEN "wait" ELSE "images"
       /\ todo'[c] = todo[c] \ {i}
  BY <1>4, Domains DEF step
<1>5. /\ i \in imagesOf(c) /\ rolesOf(c, i) # {} /\ archOfImage(c, i) \in Archs
      /\ DOMAIN updates[c] \subseteq imagesOf(c) /\ todo[c] \subseteq imagesOf(c)
  BY <1>1, UploadFor DEF updateInv, staging
<1>6. \A r \in rolesOf(c, i) : r \in Roles /\ archOf(c, r) = archOfImage(c, i)
  <2>1. \A r \in rolesOf(c, i) : r \in Roles /\ archOf(c, r) = images[i].arch
    BY <1>1 DEF parentInv, rolesOf, fits
  <2> QED
    BY <1>5, <2>1 DEF archOfImage
<1>7. /\ \A k \in DOMAIN updates[c] : k # i => k \in DOMAIN updates'[c] /\ updates'[c][k] = updates[c][k]
      /\ DOMAIN updates'[c] \subseteq DOMAIN updates[c] \cup {i}
  BY <1>4, Domains
<1>8. ASSUME NEW r \in rolesOf(c, i), i \in DOMAIN updates'[c]
      PROVE  fits(c, r, job[c].version, updates[c][i])'
  <2> DEFINE n == updates'[c][i]
  <2>0. r \in Roles /\ archOf(c, r) = archOfImage(c, i)
    BY <1>6, <1>8
  <2>1. n \in 1..Len(images') /\ images'[n].version = job[c].version /\ images'[n].arch = archOf(c, r)
    <3>1. CASE i \in DOMAIN updates[c]
      <4>1. n = Len(images) + 1 /\ UploadAsync(c, job[c].version, archOfImage(c, i))
        BY <1>4, <3>1, Domains
      <4>2. /\ Len(images') = Len(images) + 1
            /\ images'[Len(images) + 1] = [version |-> job[c].version, arch |-> archOfImage(c, i), state |-> "importing",
                                           schema |-> FALSE, shapes |-> archOfImage(c, i) = "amd64"]
        BY <1>1, <1>5, <4>1, ImageAdded
      <4> QED
        BY <2>0, <4>1, <4>2, StateTypes
    <3>2. CASE i \notin DOMAIN updates[c]
      <4>1. n = GetImage(job[c].version, archOfImage(c, i)) /\ n # 0 /\ images' = images
        BY <1>4, <1>8, <3>2, Domains
      <4>2. n \in matching(job[c].version, archOfImage(c, i))
        BY <4>1, StateTypes, GetImageIs
      <4> QED
        BY <2>0, <4>1, <4>2 DEF matching
    <3> QED
      BY <3>1, <3>2
  <2> QED
    BY <1>1, <1>2, <2>1, ClusterFixed DEF fits, imageVersion
<1>9. ASSUME NEW k \in dealtWith(c)', NEW r \in rolesOf(c, k)
      PROVE  fits(c, r, job[c].version, updates[c][k])'
  <2>1. k \in DOMAIN updates'[c]
    BY <1>9 DEF dealtWith
  <2>2. CASE k = i
    BY <1>8, <1>9, <2>1, <2>2
  <2>3. CASE k # i
    <3>1. k \in DOMAIN updates[c] \ todo[c]
      BY <1>4a, <1>7, <1>9, <2>1, <2>3 DEF dealtWith
    <3>2. fits(c, r, job[c].version, updates[c][k]) /\ r \in Roles
      BY <1>1, <1>9, <3>1 DEF updateInv, staging, dealtWith, rolesOf
    <3>3. PICK v, n : v = job[c].version /\ n = updates[c][k]
      OBVIOUS
    <3>4. olvm(c) \/ n \in 1..Len(images)
      BY <3>2, <3>3 DEF fits
    <3>5. fits(c, r, v, n)'
      BY <3>2, <3>3, <3>4, FitsKept
    <3>6. updates'[c][k] = n
      BY <1>7, <2>3, <3>1, <3>3
    <3> QED
      BY <1>2, <3>3, <3>5, <3>6 DEF fits
  <2> QED
    BY <2>2, <2>3
<1>10. \A k \in dealtWith(c)' : \A r \in rolesOf(c, k)' : fits(c, r, job[c].version, updates[c][k])'
  BY <1>3, <1>9
<1>11. createdFor(c)' = {} /\ phase'[c] # "create"
  BY <1>4a DEF createdFor
<1>12. DOMAIN updates'[c] \subseteq imagesOf(c)' /\ todo'[c] \subseteq imagesOf(c)'
  BY <1>3, <1>4a, <1>5, <1>7
<1> QED
  BY <1>10, <1>11, <1>12 DEF updateInv

\* The VM templates of a stage: all of them at once.
LEMMA StagedTemplates ==
    ASSUME StageInv, TypeInv, FitInv, [Next]_vars, NEW c \in Clusters, StageVMTemplates(c)
    PROVE  updateInv(c)'
<1>1. started(c) /\ olvm(c)
  BY DEF StageVMTemplates, step, FitInv, jobInv
<1>2. /\ parents'[c] = parents[c] /\ job'[c] = job[c] /\ phase'[c] = "create"
      /\ updates'[c] = [i \in {k \in imagesOf(c) : hasUpdate(c, k)} |-> job[c].version]
      /\ todo'[c] = usersOf(c, {i \in imagesOf(c) : hasUpdate(c, i)})
  BY Domains DEF StageVMTemplates, step, storeVars
<1>3. /\ imagesOf(c)' = imagesOf(c) /\ \A i : rolesOf(c, i)' = rolesOf(c, i)
      /\ \A I : usersOf(c, I)' = usersOf(c, I)
  BY <1>1, <1>2, GraphKept
<1>4. todo'[c] = usersOf(c, DOMAIN updates[c])'
  <2>1. PICK I : I = {i \in imagesOf(c) : hasUpdate(c, i)}
    OBVIOUS
  <2>2. DOMAIN updates'[c] = I
    BY <1>2, <2>1
  <2>3. usersOf(c, I)' = usersOf(c, DOMAIN updates[c])'
    BY <2>2 DEF usersOf
  <2> QED
    BY <1>2, <1>3, <2>1, <2>3
<1>5. \A i \in DOMAIN updates'[c] : \A r : fits(c, r, job[c].version, updates[c][i])'
  BY <1>1, <1>2, ClusterFixed DEF fits, imageVersion
<1>6. createdFor(c)' = {}
  BY <1>2, <1>4 DEF createdFor
<1> QED
  BY <1>2, <1>3, <1>4, <1>5, <1>6 DEF updateInv, dealtWith

\* The machine templates of a stage: one more exists.
LEMMA StagedCreated ==
    ASSUME StageInv, TypeInv, FitInv, [Next]_vars, NEW c \in Clusters, CreateTemplates(c)
    PROVE  updateInv(c)'
<1>1. started(c) /\ updateInv(c) /\ phase[c] = "create" /\ job[c].kind = "stage" /\ staging(c)
  BY DEF CreateTemplates, step, FitInv, jobInv, staging
<1>2. /\ parents'[c] = parents[c] /\ job'[c] = job[c] /\ phase'[c] = "create" /\ updates' = updates
  BY Domains DEF CreateTemplates, step
<1>3. PICK q \in todo[c] : todo'[c] = todo[c] \ {q} /\ newTemplate(c, q) \in templates'
  BY Domains DEF CreateTemplates
<1>4. /\ imagesOf(c)' = imagesOf(c) /\ \A k : rolesOf(c, k)' = rolesOf(c, k)
      /\ \A I : usersOf(c, I)' = usersOf(c, I)
      /\ \A r \in Roles : newTemplate(c, r)' = newTemplate(c, r)
  BY <1>1, <1>2, GraphKept
<1>5. PICK U : U = usersOf(c, DOMAIN updates[c]) /\ U \subseteq Roles
  BY DEF usersOf
<1>5a. usersOf(c, DOMAIN updates[c])' = U
  <2>1. PICK I : I = DOMAIN updates[c]
    OBVIOUS
  <2>2. usersOf(c, I)' = usersOf(c, DOMAIN updates[c])'
    BY <1>2, <2>1 DEF usersOf
  <2> QED
    BY <1>4, <1>5, <2>1, <2>2
<1>5b. createdFor(c) = U \ todo[c] /\ createdFor(c)' = U \ todo'[c] /\ todo[c] \subseteq U
  BY <1>1, <1>2, <1>5, <1>5a DEF createdFor, updateInv
<1>5c. ASSUME NEW r \in createdFor(c)' PROVE newTemplate(c, r)' \in templates'
  <2>1. r \in Roles /\ (r = q \/ r \in createdFor(c))
    BY <1>3, <1>5, <1>5b, <1>5c
  <2> QED
    BY <1>1, <1>3, <1>4, <2>1, TemplatesType DEF updateInv
<1>6. ASSUME NEW k \in DOMAIN updates[c], NEW r \in rolesOf(c, k) PROVE fits(c, r, job[c].version, updates[c][k])'
  <2>1. fits(c, r, job[c].version, updates[c][k]) /\ r \in Roles
    BY <1>1, <1>6 DEF updateInv, dealtWith, rolesOf
  <2>2. PICK v, n : v = job[c].version /\ n = updates[c][k]
    OBVIOUS
  <2>3. olvm(c) \/ n \in 1..Len(images)
    BY <2>1, <2>2 DEF fits
  <2>4. fits(c, r, v, n)'
    BY <2>1, <2>2, <2>3, FitsKept
  <2> QED
    BY <1>2, <2>2, <2>4 DEF fits
<1>7. \A k \in dealtWith(c)' : \A r \in rolesOf(c, k)' : fits(c, r, job[c].version, updates[c][k])'
  BY <1>2, <1>4, <1>6 DEF dealtWith
<1>8. DOMAIN updates'[c] \subseteq imagesOf(c)' /\ todo'[c] \subseteq usersOf(c, DOMAIN updates[c])'
  BY <1>1, <1>2, <1>3, <1>4, <1>5a, <1>5b DEF updateInv
<1> QED
  BY <1>2, <1>5c, <1>7, <1>8 DEF updateInv

LEMMA UpdateStep ==
    ASSUME StageInv, TypeInv, FitInv, [Next]_vars, NEW c \in Clusters
    PROVE  updateInv(c)'
<1>0. SUFFICES ASSUME staging(c)' PROVE updateInv(c)'
  BY DEF updateInv
<1>1. jobInv(c) /\ updateInv(c)
  BY DEF FitInv
<1>2. ASSUME phase'[c] = phase[c], job'[c] = job[c], todo'[c] = todo[c], updates'[c] = updates[c],
             parents'[c] = parents[c]
      PROVE  updateInv(c)'
  <2>1. staging(c)
    BY <1>0, <1>2 DEF staging
  <2>2. dealtWith(c)' = dealtWith(c) /\ createdFor(c)' = createdFor(c)
    BY <1>2, CreatedKept DEF dealtWith
  <2>3. phase'[c] = "images" => todo'[c] \subseteq imagesOf(c)
    BY <1>1, <1>2, <2>1 DEF updateInv
  <2>4. phase'[c] = "create" => todo'[c] \subseteq usersOf(c, DOMAIN updates[c])
    BY <1>1, <1>2, <2>1 DEF updateInv
  <2> QED
    BY <1>2, <2>1, <2>2, <2>3, <2>4, UpdateSame
<1>3. ASSUME NEW d \in Clusters, ClusterStep(d), d # c PROVE updateInv(c)'
  BY <1>2, <1>3, Beside
<1>4. ASSUME Work(c) PROVE updateInv(c)'
  <2> USE Domains DEF step
  <2>1. CASE EnsureImage(c) \/ UploadOci(c)
    <3>1. job'[c].kind # "stage"
      BY <1>1, <2>1 DEF EnsureImage, UploadOci, jobInv
    <3> QED
      BY <1>0, <3>1 DEF staging
  <2>2. CASE WaitForWorkRequests(c)
    <3>1. phase[c] = "wait" /\ phase'[c] \in {"idle", "details"} /\ job'[c] = job[c]
          /\ (phase'[c] = "details" => UNCHANGED localVars) /\ parents' = parents
      BY <2>2 DEF WaitForWorkRequests, storeVars
    <3>2. phase'[c] = "details" /\ staging(c) /\ updates'[c] = updates[c]
      BY <1>0, <3>1 DEF staging, localVars
    <3>3. dealtWith(c)' = dealtWith(c) /\ createdFor(c)' = createdFor(c)
      BY <3>1, <3>2 DEF dealtWith, createdFor
    <3> QED
      BY <3>1, <3>2, <3>3, UpdateSame
  <2>3. CASE CreateEFIImageSchema(c)
    <3>1. phase'[c] = phase[c]
      BY <2>3 DEF CreateEFIImageSchema
    <3> QED
      BY <1>2, <2>3, <3>1 DEF CreateEFIImageSchema, localVars
  <2>4. CASE EnsureCompatibleImageShapes(c)
    <3>1. phase'[c] = phase[c]
      BY <2>4 DEF EnsureCompatibleImageShapes
    <3> QED
      BY <1>2, <2>4, <3>1 DEF EnsureCompatibleImageShapes
  <2>5. CASE DetailsDone(c)
    <3>1. phase[c] = "details" /\ job'[c] = job[c] /\ updates' = updates /\ parents' = parents
          /\ phase'[c] \in {"template", "create"} /\ todo'[c] = usersOf(c, DOMAIN updates[c])
      BY <2>5 DEF DetailsDone, storeVars
    <3>2. staging(c) /\ started(c) /\ phase'[c] = "create"
      BY <1>0, <1>1, <3>1 DEF staging, jobInv
    <3>3. dealtWith(c)' = dealtWith(c) /\ createdFor(c)' = {}
      <4>1. PICK I : I = DOMAIN updates[c]
        OBVIOUS
      <4>2. usersOf(c, I)' = usersOf(c, DOMAIN updates[c])'
        BY <3>1, <4>1 DEF usersOf
      <4>3. usersOf(c, I)' = usersOf(c, I)
        BY <3>1, <3>2, GraphKept
      <4> QED
        BY <3>1, <3>2, <4>1, <4>2, <4>3 DEF dealtWith, createdFor
    <3> QED
      BY <1>0, <3>1, <3>2, <3>3, UpdateSame DEF staging
  <2>6. CASE FindUpdates(c)
    <3>1. phase'[c] = "images" /\ todo'[c] = imagesOf(c) /\ parents' = parents /\ started(c)
          /\ updates'[c] = [i \in {k \in imagesOf(c) : doUpdate(c, k)} |-> 0]
      BY <1>1, <2>6 DEF FindUpdates, storeVars, jobInv
    <3>2. imagesOf(c)' = imagesOf(c)
      BY <3>1, GraphKept
    <3>3. dealtWith(c)' = {} /\ createdFor(c)' = {} /\ DOMAIN updates'[c] \subseteq imagesOf(c)
      BY <3>1 DEF dealtWith, createdFor
    <3> QED
      BY <3>1, <3>2, <3>3 DEF updateInv
  <2>7. CASE TemplatesDone(c)
    <3>1. phase[c] = "create" /\ phase'[c] = "help" /\ job'[c] = job[c] /\ updates' = updates
          /\ parents' = parents /\ todo[c] = {}
      BY <2>7 DEF TemplatesDone, storeVars, localVars
    <3>2. staging(c) /\ started(c)
      BY <1>1, <3>1 DEF staging, jobInv
    <3>3. dealtWith(c)' = dealtWith(c) /\ createdFor(c)' = createdFor(c)
      <4>1. PICK I : I = DOMAIN updates[c]
        OBVIOUS
      <4>2. usersOf(c, I)' = usersOf(c, DOMAIN updates[c])'
        BY <3>1, <4>1 DEF usersOf
      <4>3. usersOf(c, I)' = usersOf(c, I)
        BY <3>1, <3>2, GraphKept
      <4> QED
        BY <3>1, <4>1, <4>2, <4>3 DEF dealtWith, createdFor
    <3> QED
      BY <3>1, <3>2, <3>3, UpdateSame
  <2>8. CASE GetTemplate(c) \/ CreateRefused(c) \/ HelpMessages(c) \/ PatchControlPlane(c)
    <3>1. phase'[c] \in {"idle", "updates"}
      BY <2>8 DEF GetTemplate, CreateRefused, HelpMessages, PatchControlPlane
    <3> QED
      BY <1>0, <3>1 DEF staging
  <2> QED
    BY <1>4, <2>1, <2>2, <2>3, <2>4, <2>5, <2>6, <2>7, <2>8, StagedImage, StagedTemplates, StagedCreated
    DEF Work
<1>5. ASSUME ClusterStep(c), ~Work(c) PROVE updateInv(c)'
  <2>1. phase'[c] \notin {"images", "wait", "details", "create", "help"}
    BY <1>5, Domains DEF ClusterStep, Fault, fail, step, Begin
  <2> QED
    BY <1>0, <2>1 DEF staging
<1>6. ASSUME UNCHANGED <<job, phase, localVars>>, parents'[c] = parents[c] PROVE updateInv(c)'
  BY <1>2, <1>6 DEF localVars
<1>7. ASSUME UNCHANGED <<job, phase, localVars>>, NEW p \in patches, Apply(p) PROVE updateInv(c)'
  <2>1. phase[p.cluster] = "idle" /\ phase[c] # "idle"
    BY <1>0, <1>7 DEF Apply, staging
  <2>2. parents'[c] = parents[c]
    BY <2>1, Domains, <1>7 DEF Apply
  <2> QED
    BY <1>6, <1>7, <2>2
<1> QED
  BY <1>3, <1>4, <1>5, <1>6, <1>7, Steps DEF Edit

LEMMA FitStep == ASSUME StageInv, TypeInv, FitInv, [Next]_vars PROVE FitInv'
<1>1. ASSUME NEW c \in Clusters PROVE jobInv(c)' /\ parentInv(c)' /\ updateInv(c)'
  <2>1. parentInv(c)'
    <3>1. CASE started(c)'
      BY <3>1, ParentStep, ClusterFixed DEF parentInv
    <3>2. CASE ~started(c)'
      BY <3>2, UnusedStep DEF parentInv
    <3> QED
      BY <3>1, <3>2
  <2> QED
    BY <2>1, JobStep, UpdateStep
<1>2. \A t \in templates' : ~olvm(t.cluster)' => t.image \in 1..Len(images')
  BY TemplateImagesExist, ClusterFixed
<1> QED
  BY <1>1, <1>2, PatchStep DEF FitInv

-----------------------------------------------------------------------------
(* The imports that a command has started                                   *)

\* What a step does to them: it starts one, or it goes on to the next phase.
LEMMA WorkSteps ==
    ASSUME StageInv, TypeInv, FitInv, NEW c \in Clusters, ClusterStep(c)
    PROVE  \/ /\ phase[c] \in {"look", "images"} /\ phase'[c] \in {"look", "images", "wait"}
              /\ detailed'[c] = detailed[c] /\ UNCHANGED templates
              /\ \/ \E v \in Versions, a \in Archs : UploadAsync(c, v, a)
                 \/ UNCHANGED images /\ work'[c] = work[c]
           \/ /\ phase[c] = "wait" /\ phase'[c] = "details" /\ UNCHANGED <<images, templates>>
              /\ work'[c] = work[c] /\ detailed'[c] = detailed[c]
              /\ \A i \in work[c] : images[i].state = "available"
           \/ /\ phase[c] = "details" /\ phase'[c] = "details" /\ UNCHANGED templates
              /\ work'[c] = work[c]
              /\ \/ \E i \in work[c] : images' = [images EXCEPT ![i].schema = TRUE] /\ detailed'[c] = detailed[c]
                 \/ \E i \in work[c] : /\ images[i].schema /\ images' = [images EXCEPT ![i].shapes = TRUE]
                                       /\ detailed'[c] = detailed[c] \cup {i}
           \/ /\ phase'[c] \in {"template", "create"} /\ phase[c] = "details" /\ detailed[c] = work[c]
              /\ UNCHANGED <<images, templates>> /\ work'[c] = work[c] /\ detailed'[c] = detailed[c]
           \/ /\ phase[c] \notin {"look", "images", "wait", "details"} /\ UNCHANGED images
              /\ phase'[c] \notin {"look", "wait", "details"}
              /\ work'[c] = work[c] /\ detailed'[c] = detailed[c]
           \/ /\ phase[c] \notin {"look", "images", "wait", "details"} /\ UNCHANGED images
              /\ work'[c] = {} /\ detailed'[c] = {}
           \/ /\ phase'[c] = "idle" /\ UNCHANGED <<images, templates>> /\ work'[c] = {} /\ detailed'[c] = {}
              /\ \/ world.faults \/ \E i \in work[c] : images[i].state = "failed"
                 \/ phase[c] = "wait" /\ world.uploads
<1> USE Domains DEF step, end, forget
<1>1. CASE Work(c)
  <2>1. CASE EnsureImage(c)
    <3>1. PICK a \in todo[c] :
            /\ step(c, "look", IF todo[c] = {a} THEN "wait" ELSE "look")
            /\ UploadAsync(c, job[c].version, a) \/ UNCHANGED <<images, work>>
      BY <2>1 DEF EnsureImage
    <3>2. phase[c] = "look" /\ UNCHANGED <<templates, detailed>>
      BY <2>1 DEF EnsureImage
    <3>3. a \in Archs /\ job[c].version \in Versions
      BY <3>2, UploadFor
    <3>4. phase'[c] \in {"look", "images", "wait"}
      BY <3>1
    <3> HIDE DEF step
    <3> QED
      BY <3>1, <3>2, <3>3, <3>4
  <2>2. CASE UploadOci(c)
    <3>1. PICK a \in todo[c] : UploadAsync(c, job[c].version, a)
      BY <2>2 DEF UploadOci
    <3>2. phase[c] = "look" /\ phase'[c] = "wait" /\ UNCHANGED <<templates, detailed>>
      BY <2>2 DEF UploadOci
    <3>3. a \in Archs /\ job[c].version \in Versions
      BY <3>2, UploadFor
    <3> QED
      BY <3>1, <3>2, <3>3
  <2>3. CASE StageImage(c)
    <3>1. PICK i \in todo[c] :
            /\ step(c, "images", IF todo[c] = {i} THEN "wait" ELSE "images")
            /\ UploadAsync(c, job[c].version, archOfImage(c, i)) \/ UNCHANGED <<images, work>>
      BY <2>3 DEF StageImage
    <3>2. phase[c] = "images" /\ UNCHANGED <<templates, detailed>>
      BY <2>3 DEF StageImage
    <3>3. archOfImage(c, i) \in Archs /\ job[c].version \in Versions
      BY <3>2, UploadFor
    <3>4. phase'[c] \in {"look", "images", "wait"}
      BY <3>1
    <3> HIDE DEF step
    <3> QED
      BY <3>1, <3>2, <3>3, <3>4
  <2>4. CASE WaitForWorkRequests(c)
    <3>1. phase[c] = "wait" /\ UNCHANGED <<images, templates>>
      BY <2>4 DEF WaitForWorkRequests, storeVars
    <3>2. phase[c] # "idle" /\ (job[c].kind = "upload" => world.uploads)
      BY <3>1 DEF FitInv, jobInv
    <3>3. \A i \in work[c] : images[i].state \in {"available", "failed"}
      BY <2>4 DEF WaitForWorkRequests
    <3>4. \/ /\ \E i \in work[c] : images[i].state = "failed"
             /\ phase'[c] = "idle" /\ work'[c] = {} /\ detailed'[c] = {}
          \/ /\ job[c].kind = "upload" /\ phase'[c] = "idle" /\ work'[c] = {} /\ detailed'[c] = {}
          \/ /\ phase'[c] = "details" /\ UNCHANGED localVars
             /\ ~\E i \in work[c] : images[i].state = "failed"
      BY <2>4 DEF WaitForWorkRequests
    <3> QED
      BY <3>1, <3>2, <3>3, <3>4 DEF localVars
  <2>5. CASE CreateEFIImageSchema(c)
    <3>1. phase[c] = "details" /\ phase'[c] = "details" /\ UNCHANGED <<templates, localVars>>
      BY <2>5 DEF CreateEFIImageSchema
    <3>2. \E i \in work[c] : images' = [images EXCEPT ![i].schema = TRUE]
      BY <2>5 DEF CreateEFIImageSchema
    <3> QED
      BY <3>1, <3>2 DEF localVars
  <2>6. CASE EnsureCompatibleImageShapes(c)
    <3>1. phase[c] = "details" /\ phase'[c] = "details" /\ UNCHANGED <<templates, work>>
      BY <2>6 DEF EnsureCompatibleImageShapes
    <3>2. \E i \in work[c] : /\ images[i].schema /\ images' = [images EXCEPT ![i].shapes = TRUE]
                             /\ detailed'[c] = detailed[c] \cup {i}
      BY <2>6 DEF EnsureCompatibleImageShapes
    <3> QED
      BY <3>1, <3>2
  <2>7. CASE DetailsDone(c)
    BY <2>7 DEF DetailsDone, storeVars
  <2>8. CASE GetTemplate(c)
    BY <2>8 DEF GetTemplate
  <2>9. CASE PatchControlPlane(c)
    BY <2>9 DEF PatchControlPlane, localVars
  <2>10. CASE FindUpdates(c)
    BY <2>10 DEF FindUpdates, storeVars
  <2>11. CASE StageVMTemplates(c)
    BY <2>11 DEF StageVMTemplates, storeVars
  <2>12. CASE CreateTemplates(c)
    <3>1. phase[c] = "create" /\ phase'[c] = "create" /\ UNCHANGED <<images, work, detailed>>
      BY <2>12 DEF CreateTemplates
    <3> QED
      BY <3>1
  <2>13. CASE CreateRefused(c)
    <3>1. phase[c] = "create" /\ UNCHANGED images /\ work'[c] = {} /\ detailed'[c] = {}
      BY <2>13 DEF CreateRefused, storeVars
    <3> QED
      BY <3>1
  <2>14. CASE TemplatesDone(c)
    BY <2>14 DEF TemplatesDone, storeVars, localVars
  <2>15. CASE HelpMessages(c)
    <3>1. phase[c] = "help" /\ UNCHANGED images /\ work'[c] = {} /\ detailed'[c] = {}
      BY <2>15 DEF HelpMessages
    <3> QED
      BY <3>1
  <2> QED
    BY <1>1, <2>1, <2>2, <2>3, <2>4, <2>5, <2>6, <2>7, <2>8, <2>9, <2>10, <2>11, <2>12, <2>13, <2>14, <2>15
    DEF Work
<1>2. CASE Fault(c)
  <2>1. phase'[c] = "idle" /\ work'[c] = {} /\ detailed'[c] = {} /\ world.faults /\ UNCHANGED storeVars
    BY <1>2 DEF Fault, fail
  <2> QED
    BY <2>1 DEF storeVars
<1>3. CASE \E kind \in {"start", "stage", "upload"}, v \in Versions : Begin(c, kind, v)
  <2>1. phase[c] = "idle" /\ work'[c] = {} /\ detailed'[c] = {} /\ UNCHANGED storeVars
    BY <1>3 DEF Begin
  <2> QED
    BY <2>1 DEF storeVars
<1> QED
  BY <1>1, <1>2, <1>3 DEF ClusterStep

\* The state of the images after a step.
LEMMA ImagesAfter ==
    ASSUME StageInv, TypeInv, FitInv, [Next]_vars
    PROVE  /\ images' \in Seq(ImageRecord) /\ Len(images) \in Nat /\ Len(images') \in Nat
           /\ Len(images) <= Len(images')
           /\ \A i \in 1..Len(images) : i \in 1..Len(images') /\ images[i] \in ImageRecord
           /\ \A i \in 1..Len(images') : images'[i] \in ImageRecord
           /\ \A c \in Clusters : work[c] \subseteq 1..Len(images) /\ detailed[c] \subseteq work[c]
           /\ ImagesKept
  BY StateTypes, ImagesStep, LenProperties, ElementOfSeq DEF ImagesKept, StageInv

LEMMA WorkRange ==
    ASSUME StageInv, TypeInv, FitInv, [Next]_vars, NEW c \in Clusters
    PROVE  work'[c] \subseteq 1..Len(images') /\ detailed'[c] \subseteq work'[c]
<1>1. /\ Len(images) \in Nat /\ Len(images') \in Nat /\ Len(images) <= Len(images')
      /\ work[c] \subseteq 1..Len(images) /\ detailed[c] \subseteq work[c]
  BY ImagesAfter
<1>2. ASSUME work'[c] = work[c], detailed'[c] = detailed[c]
      PROVE  work'[c] \subseteq 1..Len(images') /\ detailed'[c] \subseteq work'[c]
  BY <1>1, <1>2
<1>3. ASSUME ClusterStep(c) PROVE work'[c] \subseteq 1..Len(images') /\ detailed'[c] \subseteq work'[c]
  <2>1. CASE detailed'[c] = detailed[c] /\ \E v \in Versions, a \in Archs : UploadAsync(c, v, a)
    <3>1. PICK v \in Versions, a \in Archs : UploadAsync(c, v, a)
      BY <2>1
    <3>2. Len(images') = Len(images) + 1
      BY <3>1, ImageAdded
    <3>3. work'[c] = work[c] \cup {Len(images) + 1}
      BY <3>1, Domains DEF UploadAsync
    <3> QED
      BY <1>1, <2>1, <3>2, <3>3
  <2>2. CASE work'[c] = work[c] /\ detailed'[c] \subseteq work[c]
    BY <1>1, <2>2
  <2>3. CASE work'[c] = {} /\ detailed'[c] = {}
    BY <2>3
  <2> QED
    BY <1>1, <1>3, <2>1, <2>2, <2>3, WorkSteps
<1>4. ASSUME NEW d \in Clusters, ClusterStep(d), d # c
      PROVE  work'[c] \subseteq 1..Len(images') /\ detailed'[c] \subseteq work'[c]
  BY <1>2, <1>4, Beside
<1> QED
  BY <1>2, <1>3, <1>4, Steps DEF localVars

-----------------------------------------------------------------------------
(* Imports                                                                  *)

\* Commands run one at a time where they are serial.
LEMMA SerialStep ==
    ASSUME StageInv, TypeInv, FitInv, ReadyInv, [Next]_vars, world.serial,
           NEW c \in Clusters, NEW d \in Clusters, phase'[c] # "idle", phase'[d] # "idle"
    PROVE  c = d
<1>1. \A e, f \in Clusters : (phase[e] # "idle" /\ phase[f] # "idle") => e = f
  BY DEF ReadyInv
<1>2. ASSUME NEW e \in Clusters, Work(e) \/ Fault(e) PROVE c = d
  <2>1. phase[e] # "idle"
    BY <1>2 DEF Work, Fault, step, EnsureImage, UploadOci, WaitForWorkRequests,
       CreateEFIImageSchema, EnsureCompatibleImageShapes, DetailsDone, GetTemplate, PatchControlPlane,
       FindUpdates, StageImage, StageVMTemplates, CreateTemplates, CreateRefused, TemplatesDone, HelpMessages
  <2>2. \A f \in Clusters : f # e => phase'[f] = phase[f]
    BY <1>2, Beside DEF ClusterStep
  <2> QED
    BY <1>1, <2>1, <2>2
<1>3. ASSUME NEW e \in Clusters, NEW kind \in {"start", "stage", "upload"}, NEW v \in Versions, Begin(e, kind, v)
      PROVE  c = d
  <2>1. \A f \in Clusters : phase[f] = "idle"
    BY <1>3 DEF Begin
  <2>2. \A f \in Clusters : f # e => phase'[f] = phase[f]
    BY <1>3, Beside DEF ClusterStep
  <2> QED
    BY <2>1, <2>2
<1>4. CASE UNCHANGED phase
  BY <1>1, <1>4
<1> QED
  BY <1>2, <1>3, <1>4, Steps DEF ClusterStep

\* Without failures no import fails or is canceled.
LEMMA NoneFails ==
    ASSUME StageInv, TypeInv, FitInv, ReadyInv, [Next]_vars, ~world.faults, NEW i \in 1..Len(images')
    PROVE  images'[i].state \in {"importing", "available"}
<1>1. \A j \in 1..Len(images) : images[j].state \in {"importing", "available"}
  BY DEF ReadyInv
<1>2. CASE UNCHANGED images
  BY <1>1, <1>2
<1>3. ASSUME NEW c \in Clusters, NEW v \in Versions, NEW a \in Archs, UploadAsync(c, v, a)
      PROVE  images'[i].state \in {"importing", "available"}
  <2>1. /\ Len(images') = Len(images) + 1 /\ Len(images) \in Nat
        /\ \A j \in 1..Len(images) : images'[j] = images[j]
        /\ images'[Len(images) + 1].state = "importing"
    <3>1. /\ Len(images') = Len(images) + 1
          /\ \A j \in 1..Len(images) : images'[j] = images[j]
          /\ images'[Len(images) + 1] = [version |-> v, arch |-> a, state |-> "importing",
                                         schema |-> FALSE, shapes |-> a = "amd64"]
      BY <1>3, ImageAdded
    <3> QED
      BY <3>1, ImagesAfter
  <2> QED
    BY <1>1, <2>1
<1>4. ASSUME NEW j \in 1..Len(images), NEW e \in ImageRecord, images' = [images EXCEPT ![j] = e], e.state \in {"importing", "available"}
      PROVE  images'[i].state \in {"importing", "available"}
  BY <1>1, <1>4, ImageSet, StateTypes
<1>5. ASSUME NEW j \in 1..Len(images), \/ images' = [images EXCEPT ![j].schema = TRUE]
                                       \/ images' = [images EXCEPT ![j].shapes = TRUE]
      PROVE  images'[i].state \in {"importing", "available"}
  <2>1. images[j] \in ImageRecord
    BY StateTypes
  <2>2. /\ [images[j] EXCEPT !.schema = TRUE] \in ImageRecord
        /\ [images[j] EXCEPT !.shapes = TRUE] \in ImageRecord
        /\ [images[j] EXCEPT !.schema = TRUE].state = images[j].state
        /\ [images[j] EXCEPT !.shapes = TRUE].state = images[j].state
    BY <2>1 DEF ImageRecord
  <2> QED
    BY <1>1, <1>4, <1>5, <2>2
<1>6. ASSUME NEW j \in 1..Len(images), Import(j) PROVE images'[i].state \in {"importing", "available"}
  <2>1. images[j] \in ImageRecord /\ images' = [images EXCEPT ![j].state = "available"]
    BY <1>6, StateTypes DEF Import
  <2>2. [images[j] EXCEPT !.state = "available"] \in ImageRecord
    BY <2>1 DEF ImageRecord
  <2> QED
    BY <1>4, <2>1, <2>2 DEF ImageRecord
<1>7. ASSUME NEW c \in Clusters, ClusterStep(c) PROVE images'[i].state \in {"importing", "available"}
  <2>1. work[c] \subseteq 1..Len(images)
    BY ImagesAfter
  <2> QED
    BY <1>2, <1>3, <1>5, <1>7, <2>1, WorkSteps
<1>8. ASSUME ~\E c \in Clusters : ClusterStep(c) PROVE images'[i].state \in {"importing", "available"}
  BY <1>2, <1>6, <1>8, Steps DEF Imports, Apply, Edit
<1> QED
  BY <1>7, <1>8

\* What a command has waited for is imported, and what it has described is.
LEMMA DescribedStep ==
    ASSUME StageInv, TypeInv, FitInv, ReadyInv, [Next]_vars, NEW c \in Clusters
    PROVE  /\ \A i \in detailed'[c] : images'[i].schema /\ images'[i].shapes
           /\ phase'[c] = "details" => \A i \in work'[c] : images'[i].state = "available"
<1> DEFINE goal == /\ \A i \in detailed'[c] : images'[i].schema /\ images'[i].shapes
                   /\ phase'[c] = "details" => \A i \in work'[c] : images'[i].state = "available"
<1>1. /\ \A i \in detailed[c] : i \in 1..Len(images) /\ images[i].schema /\ images[i].shapes
      /\ \A i \in work[c] : i \in 1..Len(images) /\ images[i] \in ImageRecord
      /\ phase[c] = "details" => \A i \in work[c] : images[i].state = "available"
      /\ ImagesKept
  BY ImagesAfter DEF ReadyInv
<1>2. /\ \A i \in detailed[c] : images'[i].schema /\ images'[i].shapes
      /\ \A i \in work[c] : images[i].state = "available" => images'[i].state = "available"
  BY <1>1 DEF ImagesKept
<1>3. ASSUME phase'[c] = phase[c], work'[c] = work[c], detailed'[c] = detailed[c] PROVE goal
  BY <1>1, <1>2, <1>3
<1>4. ASSUME ClusterStep(c) PROVE goal
  <2>1. CASE detailed'[c] = detailed[c] /\ phase'[c] # "details"
    BY <1>2, <2>1
  <2>2. CASE detailed'[c] = {} /\ work'[c] = {}
    BY <2>2
  <2>3. CASE detailed'[c] = detailed[c] /\ work'[c] = work[c] /\ \A i \in work[c] : images[i].state = "available"
    BY <1>1, <1>2, <2>3 DEF ImageRecord
  <2>4. CASE phase[c] = "details" /\ work'[c] = work[c] /\ detailed'[c] = detailed[c]
    BY <1>1, <1>2, <2>4
  <2>5. ASSUME NEW i \in work[c], images[i].schema, images' = [images EXCEPT ![i].shapes = TRUE],
               detailed'[c] = detailed[c] \cup {i}, phase[c] = "details", work'[c] = work[c]
        PROVE  goal
    <3>1. i \in 1..Len(images) /\ images[i] \in ImageRecord /\ images \in Seq(ImageRecord)
      BY <1>1, StateTypes
    <3>2. [images[i] EXCEPT !.shapes = TRUE] \in ImageRecord
      BY <3>1 DEF ImageRecord
    <3>3. images'[i] = [images[i] EXCEPT !.shapes = TRUE]
      BY <2>5, <3>1, <3>2, ImageSet
    <3>4. images'[i].schema /\ images'[i].shapes
      BY <2>5, <3>1, <3>3 DEF ImageRecord
    <3> QED
      BY <1>1, <1>2, <2>5, <3>4
  <2> HIDE DEF goal
  <2> QED
    BY <1>4, <2>1, <2>2, <2>3, <2>4, <2>5, WorkSteps
<1>5. ASSUME NEW d \in Clusters, ClusterStep(d), d # c PROVE goal
  BY <1>3, <1>5, Beside
<1> QED
  BY <1>3, <1>4, <1>5, Steps DEF localVars

\* Without failures every image is ready, or a command that runs will have it so.
LEMMA SoonReady ==
    ASSUME StageInv, TypeInv, FitInv, ReadyInv, [Next]_vars,
           world.serial, ~world.faults, ~world.uploads, NEW i \in 1..Len(images')
    PROVE  ready(i)' \/ \E c \in Clusters : importing(c)' /\ i \in work'[c]
<1>1. \A j \in 1..Len(images) : ready(j) \/ \E c \in Clusters : importing(c) /\ j \in work[c]
  BY DEF ReadyInv
<1>2. ImagesKept /\ Len(images) \in Nat /\ \A c \in Clusters : work[c] \subseteq 1..Len(images)
  BY ImagesAfter
<1>3. \A j \in 1..Len(images) : ready(j) => ready(j)'
  BY <1>2 DEF ready, ImagesKept
<1>4. ASSUME i \in 1..Len(images), NEW c \in Clusters, importing(c), i \in work[c],
             importing(c)', work[c] \subseteq work'[c]
      PROVE  ready(i)' \/ \E d \in Clusters : importing(d)' /\ i \in work'[d]
  BY <1>4
<1>5. ASSUME NEW c \in Clusters, ClusterStep(c), i \in 1..Len(images), ~ready(i)
      PROVE  ready(i)' \/ \E d \in Clusters : importing(d)' /\ i \in work'[d]
  <2>1. PICK d \in Clusters : importing(d) /\ i \in work[d]
    BY <1>1, <1>5
  <2>2. CASE d # c
    <3>1. phase'[d] = phase[d] /\ work'[d] = work[d]
      BY <1>5, <2>2, Beside
    <3> QED
      BY <1>4, <1>5, <2>1, <3>1 DEF importing
  <2>3. CASE d = c
    <3>1. CASE /\ phase'[c] \in {"look", "images", "wait"}
               /\ (\E v \in Versions, a \in Archs : UploadAsync(c, v, a)) \/ work'[c] = work[c]
      <4>1. work[c] \subseteq work'[c]
        BY <3>1, Domains DEF UploadAsync
      <4> QED
        BY <1>4, <1>5, <2>1, <2>3, <3>1, <4>1 DEF importing
    <3>2. CASE phase'[c] = "details" /\ work'[c] = work[c]
      BY <1>4, <1>5, <2>1, <2>3, <3>2 DEF importing
    <3>3. CASE phase[c] = "details" /\ detailed[c] = work[c]
      <4>1. ready(i)
        BY <2>1, <2>3, <3>3 DEF ReadyInv, ready
      <4> QED
        BY <1>5, <4>1
    <3>4. ~\E j \in work[c] : images[j].state = "failed"
      BY <1>2 DEF ReadyInv
    <3>5. phase[c] \in {"look", "images", "wait", "details"}
      BY <2>1, <2>3 DEF importing
    <3>6. \/ /\ phase'[c] \in {"look", "images", "wait"}
             /\ (\E v \in Versions, a \in Archs : UploadAsync(c, v, a)) \/ work'[c] = work[c]
          \/ phase'[c] = "details" /\ work'[c] = work[c]
          \/ phase[c] = "details" /\ detailed[c] = work[c]
      BY <1>5, <3>4, <3>5, WorkSteps
    <3> QED
      BY <3>1, <3>2, <3>3, <3>6
  <2> QED
    BY <2>2, <2>3
<1>6. ASSUME NEW c \in Clusters, ClusterStep(c), i \notin 1..Len(images)
      PROVE  \E d \in Clusters : importing(d)' /\ i \in work'[d]
  <2>0. Len(images') # Len(images)
    BY <1>2, <1>6
  <2>1. ASSUME NEW j \in work[c], NEW e \in ImageRecord, images' = [images EXCEPT ![j] = e] PROVE FALSE
    BY <2>0, <2>1, <1>2, StateTypes, ImageSet
  <2>2. ASSUME NEW j \in work[c], \/ images' = [images EXCEPT ![j].schema = TRUE]
                                  \/ images' = [images EXCEPT ![j].shapes = TRUE]
        PROVE  FALSE
    <3>1. images[j] \in ImageRecord
      BY <1>2, StateTypes
    <3>2. /\ [images[j] EXCEPT !.schema = TRUE] \in ImageRecord
          /\ [images[j] EXCEPT !.shapes = TRUE] \in ImageRecord
      BY <3>1 DEF ImageRecord
    <3> QED
      BY <2>1, <2>2, <3>2
  <2>3. /\ phase'[c] \in {"look", "images", "wait"}
        /\ \E v \in Versions, a \in Archs : UploadAsync(c, v, a)
    BY <1>6, <2>0, <2>2, WorkSteps
  <2>4. PICK v \in Versions, a \in Archs : UploadAsync(c, v, a)
    BY <2>3
  <2>5. Len(images') = Len(images) + 1
    BY <2>4, ImageAdded
  <2>6. work'[c] = work[c] \cup {Len(images) + 1}
    BY <2>4, Domains DEF UploadAsync
  <2> QED
    BY <1>2, <1>6, <2>3, <2>5, <2>6 DEF importing
<1>7. ASSUME ~\E c \in Clusters : ClusterStep(c)
      PROVE  ready(i)' \/ \E d \in Clusters : importing(d)' /\ i \in work'[d]
  <2>1. UNCHANGED <<phase, work>> /\ (UNCHANGED images \/ \E j \in 1..Len(images) : Import(j))
    BY <1>7, Steps DEF localVars, Imports, Apply, Edit
  <2>2. i \in 1..Len(images)
    <3>1. ASSUME NEW j \in 1..Len(images), Import(j) PROVE Len(images') = Len(images)
      <4>1. PICK s \in {"available", "failed", "canceled"} : images' = [images EXCEPT ![j].state = s]
        BY <3>1 DEF Import
      <4>2. images[j] \in ImageRecord
        BY StateTypes
      <4>3. [images[j] EXCEPT !.state = s] \in ImageRecord
        BY <4>2 DEF ImageRecord
      <4> QED
        BY <4>1, <4>3, ImageSet, StateTypes
    <3> QED
      BY <2>1, <3>1
  <2> QED
    BY <1>1, <1>3, <2>1, <2>2 DEF importing
<1> QED
  BY <1>3, <1>5, <1>6, <1>7

\* Machine templates are made when every image is ready.
LEMMA ImagesReadyStep ==
    ASSUME StageInv, TypeInv, FitInv, ReadyInv, [Next]_vars,
           world.serial, ~world.faults, ~world.uploads, NEW t \in templates', ~olvm(t.cluster)
    PROVE  ready(t.image)'
<1>1. ImagesKept
  BY ImagesAfter
<1>2. CASE t \in templates
  <2>1. t.image \in 1..Len(images) /\ ready(t.image)
    BY <1>2 DEF FitInv, ReadyInv, ImagesReady, ready, olvm
  <2> QED
    BY <1>1, <2>1 DEF ready, ImagesKept
<1>3. CASE t \notin templates
  <2>1. PICK c \in Clusters : GetTemplate(c) \/ CreateTemplates(c)
    BY <1>3, ParentSteps DEF Apply
  <2>2. phase[c] \in {"template", "create"} /\ images' = images
    BY <2>1 DEF GetTemplate, CreateTemplates, step
  <2>3. \A d \in Clusters : ~importing(d)
    BY <2>2 DEF ReadyInv, importing
  <2>4. t.image \in 1..Len(images)
    BY <2>2, TemplateImagesExist
  <2> QED
    BY <2>2, <2>3, <2>4 DEF ReadyInv, ready
<1> QED
  BY <1>2, <1>3

LEMMA ReadyStep == ASSUME StageInv, TypeInv, FitInv, ReadyInv, [Next]_vars PROVE ReadyInv'
<1>1. world' = world
  BY WorldFixed
<1>2. (world.serial /\ ~world.faults /\ ~world.uploads) => ImagesReady'
  BY <1>1, ImagesReadyStep DEF ImagesReady, ready, olvm
<1>3. (world.serial /\ ~world.faults /\ ~world.uploads) =>
          \A i \in 1..Len(images') : ready(i)' \/ \E c \in Clusters : importing(c)' /\ i \in work'[c]
  BY SoonReady
<1>4. ~world.faults => \A i \in 1..Len(images') : images'[i].state \in {"importing", "available"}
  BY NoneFails
<1>5. world.serial => \A c, d \in Clusters : (phase'[c] # "idle" /\ phase'[d] # "idle") => c = d
  BY SerialStep
<1> QED
  BY <1>1, <1>2, <1>3, <1>4, <1>5, DescribedStep DEF ReadyInv

-----------------------------------------------------------------------------
(* Ignition                                                                 *)

LEMMA One == ASSUME NEW x, NEW y PROVE (x :> y) = [z \in {x} |-> y]
  BY DEF :>

\* What f @@ g is.
isJoined(h, f, g) ==
    /\ DOMAIN h = DOMAIN f \cup DOMAIN g
    /\ \A x \in DOMAIN f : h[x] = f[x]
    /\ \A x \in DOMAIN g : x \notin DOMAIN f => h[x] = g[x]
    /\ h = [x \in DOMAIN h |-> h[x]]
LEMMA Joined == \A f, g : isJoined(f @@ g, f, g)
<1> SUFFICES ASSUME NEW f, NEW g PROVE isJoined(f @@ g, f, g)
  OBVIOUS
<1>1. f @@ g = joined(f, g)
  BY DEF @@
<1> QED
  BY <1>1 DEF joined, isJoined

\* A configuration with fields of its own.
LEMMA WellFormedNew ==
    /\ wellFormed(NewIgnition)
    /\ NewIgnition.files = Nothing /\ NewIgnition.directories = Nothing /\ NewIgnition.units = Nothing
    /\ DOMAIN Nothing = {}
<1>1. DOMAIN Nothing = {}
  BY DEF Nothing
<1>2. IsFiniteSet({})
  BY FS_EmptySet
<1> QED
  BY <1>1, <1>2 DEF wellFormed, NewIgnition

\* A configuration has these fields and no others.
ignitionOf(f, d, l, k, r, s, u, v, g) ==
    [files |-> f, directories |-> d, links |-> l, disks |-> k, raid |-> r, filesystems |-> s,
     units |-> u, users |-> v, groups |-> g, err |-> FALSE]
isIgnition(ign) ==
    ign = [files |-> ign.files, directories |-> ign.directories, links |-> ign.links,
           disks |-> ign.disks, raid |-> ign.raid, filesystems |-> ign.filesystems,
           units |-> ign.units, users |-> ign.users, groups |-> ign.groups, err |-> FALSE]
LEMMA IgnitionOf ==
    \A ign, f, d, l, k, r, s, u, v, g : ign = ignitionOf(f, d, l, k, r, s, u, v, g) => isIgnition(ign)
  BY DEF ignitionOf, isIgnition

\* One field of a configuration is replaced.
LEMMA FieldReplaced ==
    ASSUME NEW ign, NEW x, NEW i, isIgnition(ign),
           \/ i = [ign EXCEPT !.files = x]
           \/ i = [ign EXCEPT !.directories = x] \/ i = [ign EXCEPT !.units = x]
           \/ i = [ign EXCEPT !.users = x] \/ i = [ign EXCEPT !.groups = x]
    PROVE  isIgnition(i)
<1>1. ign = ignitionOf(ign.files, ign.directories, ign.links, ign.disks, ign.raid, ign.filesystems,
                       ign.units, ign.users, ign.groups)
  BY DEF isIgnition, ignitionOf
<1>2. PICK f, d, l, k, r, s, u, v, g : ign = ignitionOf(f, d, l, k, r, s, u, v, g)
  BY <1>1
<1>3. i = [ign EXCEPT !.files = x] => i = ignitionOf(x, d, l, k, r, s, u, v, g)
  BY <1>2, Zenon DEF ignitionOf
<1>4. i = [ign EXCEPT !.units = x] => i = ignitionOf(f, d, l, k, r, s, x, v, g)
  BY <1>2, Zenon DEF ignitionOf
<1>5. i = [ign EXCEPT !.directories = x] => i = ignitionOf(f, x, l, k, r, s, u, v, g)
  BY <1>2, Zenon DEF ignitionOf
<1>6. i = [ign EXCEPT !.users = x] => i = ignitionOf(f, d, l, k, r, s, u, x, g)
  BY <1>2, Zenon DEF ignitionOf
<1>7. i = [ign EXCEPT !.groups = x] => i = ignitionOf(f, d, l, k, r, s, u, v, x)
  BY <1>2, Zenon DEF ignitionOf
<1> QED
  BY <1>3, <1>4, <1>5, <1>6, <1>7, IgnitionOf

\* Merge: the second has precedence, units are merged.
MergedUnits(u, f, g) ==
    /\ DOMAIN u = DOMAIN f \cup DOMAIN g
    /\ \A n \in DOMAIN f \cap DOMAIN g : u[n] = mergeUnit(f[n], g[n])
    /\ \A n \in DOMAIN f \ DOMAIN g : u[n] = f[n]
    /\ \A n \in DOMAIN g \ DOMAIN f : u[n] = g[n]
LEMMA UnitsMerged ==
    ASSUME NEW f, NEW g
    PROVE  MergedUnits([n \in both(f, g) |-> mergeUnit(f[n], g[n])] @@ g @@ f, f, g)
<1>1. PICK u : u = [n \in both(f, g) |-> mergeUnit(f[n], g[n])]
  OBVIOUS
<1>2. /\ DOMAIN u = DOMAIN f \cap DOMAIN g
      /\ \A n \in DOMAIN f \cap DOMAIN g : u[n] = mergeUnit(f[n], g[n])
  BY <1>1 DEF both
<1>3. PICK v : v = u @@ g
  OBVIOUS
<1>4. isJoined(v, u, g)
  BY <1>3, Joined
<1>5. PICK w : w = v @@ f
  OBVIOUS
<1>6. isJoined(w, v, f)
  BY <1>5, Joined
<1>7. MergedUnits(w, f, g)
  BY <1>2, <1>4, <1>6 DEF MergedUnits, isJoined
<1> QED
  BY <1>1, <1>3, <1>5, <1>7

LEMMA Merged ==
    ASSUME NEW a, NEW b, wellFormed(a), wellFormed(b)
    PROVE  /\ wellFormed(Merge(a, b)) /\ Merge(a, b) = merged(a, b)
           /\ Merge(a, b).files = b.files @@ a.files
           /\ Merge(a, b).directories = b.directories @@ a.directories
           /\ MergedUnits(Merge(a, b).units, a.units, b.units)
<1>1. PICK m : m = Merge(a, b) /\ m = merged(a, b)
  BY DEF Merge
<1>2. m.units = [n \in both(a.units, b.units) |-> mergeUnit(a.units[n], b.units[n])] @@ b.units @@ a.units
  BY <1>1 DEF merged
<1>3. m.files = b.files @@ a.files /\ m.directories = b.directories @@ a.directories
  BY <1>1 DEF merged
<1>4. MergedUnits(m.units, a.units, b.units)
  BY <1>2, UnitsMerged
<1>5. \A n \in DOMAIN m.units : LET x == m.units[n] IN x = unit(x.enabled, x.contents, x.dropins)
  <2>1. \A x, y : LET z == mergeUnit(x, y) IN z = unit(z.enabled, z.contents, z.dropins)
    BY DEF mergeUnit, unit
  <2>2. \A n \in DOMAIN a.units : LET x == a.units[n] IN x = unit(x.enabled, x.contents, x.dropins)
    BY DEF wellFormed
  <2>3. \A n \in DOMAIN b.units : LET x == b.units[n] IN x = unit(x.enabled, x.contents, x.dropins)
    BY DEF wellFormed
  <2> QED
    BY <1>4, <2>1, <2>2, <2>3 DEF MergedUnits
<1>6. IsFiniteSet(DOMAIN m.files) /\ IsFiniteSet(DOMAIN m.directories) /\ IsFiniteSet(DOMAIN m.units)
  <2>1. \A f, g : DOMAIN (f @@ g) = DOMAIN f \cup DOMAIN g
    BY Joined DEF isJoined
  <2>2. /\ DOMAIN m.files = DOMAIN b.files \cup DOMAIN a.files
        /\ DOMAIN m.directories = DOMAIN b.directories \cup DOMAIN a.directories
    BY <1>3, <2>1
  <2>3. DOMAIN m.units = DOMAIN a.units \cup DOMAIN b.units
    BY <1>4 DEF MergedUnits
  <2>4. /\ IsFiniteSet(DOMAIN a.files) /\ IsFiniteSet(DOMAIN a.directories) /\ IsFiniteSet(DOMAIN a.units)
        /\ IsFiniteSet(DOMAIN b.files) /\ IsFiniteSet(DOMAIN b.directories) /\ IsFiniteSet(DOMAIN b.units)
    BY DEF wellFormed
  <2>5. \A S, T : IsFiniteSet(S) /\ IsFiniteSet(T) => IsFiniteSet(S \cup T)
    BY FS_Union
  <2> QED
    BY <2>2, <2>3, <2>4, <2>5
<1>7. isIgnition(m)
  <2>1. (a.err \/ b.err) = FALSE
    BY DEF wellFormed
  <2>2. PICK e : e = (a.err \/ b.err)
    OBVIOUS
  <2>3. \A f, d, l, k, r, s, u, v, g :
            m = [files |-> f, directories |-> d, links |-> l, disks |-> k, raid |-> r, filesystems |-> s,
                 units |-> u, users |-> v, groups |-> g, err |-> e] => isIgnition(m)
    <3> TAKE f, d, l, k, r, s, u, v, g
    <3> HAVE m = [files |-> f, directories |-> d, links |-> l, disks |-> k, raid |-> r, filesystems |-> s,
                  units |-> u, users |-> v, groups |-> g, err |-> e]
    <3>1. e = FALSE
      BY <2>1, <2>2
    <3>2. m = ignitionOf(f, d, l, k, r, s, u, v, g)
      BY <3>1 DEF ignitionOf
    <3> QED
      BY <3>2, IgnitionOf, Zenon
  <2> QED
    BY <1>1, <2>2, <2>3 DEF merged
<1>8. wellFormed(m)
  BY <1>5, <1>6, <1>7 DEF wellFormed, isIgnition
<1> QED
  BY <1>1, <1>3, <1>4, <1>8

\* What replacing a field leaves well formed.
LEMMA WithFiles ==
    ASSUME NEW ign, wellFormed(ign), NEW f, IsFiniteSet(DOMAIN f), NEW i, i = [ign EXCEPT !.files = f]
    PROVE  wellFormed(i) /\ i.files = f /\ i.directories = ign.directories /\ i.units = ign.units
<1>1. isIgnition(ign)
  BY DEF wellFormed, isIgnition
<1>2. isIgnition(i)
  BY <1>1, FieldReplaced
<1>3. i.files = f /\ i.directories = ign.directories /\ i.units = ign.units
  BY <1>1 DEF isIgnition
<1> QED
  BY <1>2, <1>3 DEF wellFormed, isIgnition
LEMMA WithDirectories ==
    ASSUME NEW ign, wellFormed(ign), NEW f, IsFiniteSet(DOMAIN f), NEW i, i = [ign EXCEPT !.directories = f]
    PROVE  wellFormed(i) /\ i.files = ign.files /\ i.directories = f /\ i.units = ign.units
<1>1. isIgnition(ign)
  BY DEF wellFormed, isIgnition
<1>2. isIgnition(i)
  BY <1>1, FieldReplaced
<1>3. i.files = ign.files /\ i.directories = f /\ i.units = ign.units
  BY <1>1 DEF isIgnition
<1> QED
  BY <1>2, <1>3 DEF wellFormed, isIgnition
LEMMA WithUsers ==
    ASSUME NEW ign, wellFormed(ign), NEW f, NEW i, i = [ign EXCEPT !.users = f] \/ i = [ign EXCEPT !.groups = f]
    PROVE  wellFormed(i) /\ i.files = ign.files /\ i.directories = ign.directories /\ i.units = ign.units
<1>1. isIgnition(ign)
  BY DEF wellFormed, isIgnition
<1>2. isIgnition(i)
  BY <1>1, FieldReplaced
<1>3. i.files = ign.files /\ i.directories = ign.directories /\ i.units = ign.units
  BY <1>1 DEF isIgnition
<1> QED
  BY <1>2, <1>3 DEF wellFormed, isIgnition
LEMMA WithUnits ==
    ASSUME NEW ign, wellFormed(ign), NEW f, IsFiniteSet(DOMAIN f), NEW i, i = [ign EXCEPT !.units = f],
           \A n \in DOMAIN f : LET u == f[n] IN u = unit(u.enabled, u.contents, u.dropins)
    PROVE  wellFormed(i) /\ i.files = ign.files /\ i.directories = ign.directories /\ i.units = f
<1>1. isIgnition(ign)
  BY DEF wellFormed, isIgnition
<1>2. isIgnition(i)
  BY <1>1, FieldReplaced
<1>3. i.files = ign.files /\ i.directories = ign.directories /\ i.units = f
  BY <1>1 DEF isIgnition
<1> QED
  BY <1>2, <1>3 DEF wellFormed, isIgnition

\* What is put together has these files and units.
shape(ign, F, U) == wellFormed(ign) /\ DOMAIN ign.files = F /\ DOMAIN ign.units = U

\* What f @@ (x :> y) is.
isExtended(h, f, x, y) ==
    /\ DOMAIN h = DOMAIN f \cup {x}
    /\ x \notin DOMAIN f => h[x] = y
    /\ \A z \in DOMAIN f : h[z] = f[z]
LEMMA Extended == \A f, x, y : isExtended(f @@ (x :> y), f, x, y)
<1> SUFFICES ASSUME NEW f, NEW x, NEW y PROVE isExtended(f @@ (x :> y), f, x, y)
  OBVIOUS
<1>1. PICK g : g = (x :> y)
  OBVIOUS
<1>2. DOMAIN g = {x} /\ g[x] = y
  BY <1>1, One
<1>3. PICK h : h = f @@ (x :> y)
  OBVIOUS
<1>4. isJoined(h, f, g)
  BY <1>1, <1>3, Joined
<1>5. isExtended(h, f, x, y)
  BY <1>2, <1>4 DEF isJoined, isExtended
<1> QED
  BY <1>3, <1>5

LEMMA FileAdded ==
    ASSUME NEW ign, NEW F, NEW U, shape(ign, F, U), NEW x, NEW y
    PROVE  shape(AddFile(ign, x, y), F \cup {x}, U)
<1>1. PICK f : f = ign.files @@ (x :> y)
  OBVIOUS
<1>2. DOMAIN f = DOMAIN ign.files \cup {x}
  BY <1>1, Extended DEF isExtended
<1>3. IsFiniteSet(DOMAIN f)
  BY <1>2, FS_AddElement DEF shape, wellFormed
<1>4. PICK i : i = AddFile(ign, x, y)
  OBVIOUS
<1>5. i = [ign EXCEPT !.files = f]
  BY <1>1, <1>4 DEF AddFile
<1>6. wellFormed(i) /\ i.files = f /\ i.units = ign.units
  BY <1>3, <1>5, WithFiles DEF shape
<1> QED
  BY <1>2, <1>4, <1>6 DEF shape

LEMMA DirectoryAdded ==
    ASSUME NEW ign, NEW F, NEW U, shape(ign, F, U), NEW x
    PROVE  shape(AddDir(ign, x), F, U)
<1>1. PICK f : f = ign.directories @@ (x :> TRUE)
  OBVIOUS
<1>2. DOMAIN f = DOMAIN ign.directories \cup {x}
  BY <1>1, Extended DEF isExtended
<1>3. IsFiniteSet(DOMAIN f)
  BY <1>2, FS_AddElement DEF shape, wellFormed
<1>4. PICK i : i = AddDir(ign, x)
  OBVIOUS
<1>5. i = [ign EXCEPT !.directories = f]
  BY <1>1, <1>4 DEF AddDir
<1>6. wellFormed(i) /\ i.files = ign.files /\ i.units = ign.units
  BY <1>3, <1>5, WithDirectories DEF shape
<1> QED
  BY <1>4, <1>6 DEF shape

LEMMA UserAdded ==
    ASSUME NEW ign, NEW F, NEW U, shape(ign, F, U), NEW x, NEW y, NEW z
    PROVE  shape(AddUser(ign, x, y, z), F, U) /\ shape(AddGroup(ign, x), F, U)
<1>1. PICK i : i = AddUser(ign, x, y, z)
  OBVIOUS
<1>2. PICK f : i = [ign EXCEPT !.users = f]
  BY <1>1 DEF AddUser
<1>3. PICK j : j = AddGroup(ign, x)
  OBVIOUS
<1>4. PICK g : j = [ign EXCEPT !.groups = g]
  BY <1>3 DEF AddGroup
<1>5. wellFormed(i) /\ i.files = ign.files /\ i.units = ign.units
  BY <1>2, WithUsers DEF shape
<1>6. wellFormed(j) /\ j.files = ign.files /\ j.units = ign.units
  BY <1>4, WithUsers DEF shape
<1> QED
  BY <1>1, <1>3, <1>5, <1>6 DEF shape

LEMMA ShapesMerged ==
    ASSUME NEW a, NEW F, NEW U, shape(a, F, U), NEW b, NEW G, NEW V, shape(b, G, V)
    PROVE  shape(Merge(a, b), F \cup G, U \cup V)
<1>1. PICK m : m = Merge(a, b)
  OBVIOUS
<1>2. wellFormed(m) /\ m.files = b.files @@ a.files /\ MergedUnits(m.units, a.units, b.units)
  BY <1>1, Merged DEF shape
<1>3. isJoined(m.files, b.files, a.files)
  BY <1>2, Joined
<1> QED
  BY <1>1, <1>2, <1>3 DEF shape, isJoined, MergedUnits

\* A configuration of nothing but units, or of files and units.
LEMMA OnlyUnits ==
    ASSUME NEW f, IsFiniteSet(DOMAIN f), NEW i, i = [NewIgnition EXCEPT !.units = f],
           \A n \in DOMAIN f : LET u == f[n] IN u = unit(u.enabled, u.contents, u.dropins)
    PROVE  shape(i, {}, DOMAIN f) /\ i.units = f /\ i.files = Nothing /\ i.directories = Nothing
<1>1. wellFormed(NewIgnition) /\ NewIgnition.files = Nothing /\ NewIgnition.directories = Nothing
      /\ DOMAIN Nothing = {}
  BY WellFormedNew
<1>2. wellFormed(i) /\ i.files = NewIgnition.files /\ i.directories = NewIgnition.directories /\ i.units = f
  BY <1>1, WithUnits
<1> QED
  BY <1>1, <1>2 DEF shape

LEMMA UnitAdded ==
    ASSUME NEW ign, NEW F, NEW U, shape(ign, F, U), NEW x, NEW e, NEW y, NEW d
    PROVE  shape(AddUnit(ign, x, unit(e, y, d)), F, U \cup {x})
<1>1. PICK f : f = (x :> unit(e, y, d))
  OBVIOUS
<1>2. DOMAIN f = {x} /\ f[x] = unit(e, y, d)
  BY <1>1, One
<1>3. IsFiniteSet(DOMAIN f)
  BY <1>2, FS_Singleton
<1>4. \A n \in DOMAIN f : LET u == f[n] IN u = unit(u.enabled, u.contents, u.dropins)
  BY <1>2 DEF unit
<1>5. PICK i : i = [NewIgnition EXCEPT !.units = f]
  OBVIOUS
<1>6. shape(i, {}, {x})
  BY <1>2, <1>3, <1>4, <1>5, OnlyUnits
<1>7. AddUnit(ign, x, unit(e, y, d)) = Merge(ign, i)
  BY <1>1, <1>5 DEF AddUnit
<1>8. shape(Merge(ign, i), F \cup {}, U \cup {x})
  BY <1>6, ShapesMerged
<1> QED
  BY <1>7, <1>8

\* The units of a virtual IP.
LEMMA VipUnits ==
    ASSUME NEW u, u = vipUnits({})
    PROVE  /\ DOMAIN u = {"ocne-nginx.service", "ocne-nginx-refresh.service", "ocne-nginx-refresh.path",
                          "keepalived.service", "keepalived-refresh.service", "keepalived-refresh.path"}
           /\ u["ocne-nginx.service"] = unit("yes", <<"nginx">>, Nothing)
           /\ u["ocne-nginx-refresh.service"] = unit("yes", GetNginxRefreshUnit, Nothing)
           /\ u["ocne-nginx-refresh.path"] = unit("yes", GetNginxRefreshPathUnit, Nothing)
           /\ u["keepalived.service"] = unit("yes", <<>>, Nothing)
           /\ u["keepalived-refresh.service"] = unit("yes", GetKeepalivedRefreshUnit, Nothing)
           /\ u["keepalived-refresh.path"] = unit("yes", GetKeepalivedRefreshPathUnit, Nothing)
<1>1. PICK f1 : f1 = ("ocne-nginx.service" :> unit("yes", <<"nginx">>, Nothing))
  OBVIOUS
<1>2. PICK f2 : f2 = f1 @@ ("ocne-nginx-refresh.service" :> unit("yes", GetNginxRefreshUnit, Nothing))
  OBVIOUS
<1>3. PICK f3 : f3 = f2 @@ ("ocne-nginx-refresh.path" :> unit("yes", GetNginxRefreshPathUnit, Nothing))
  OBVIOUS
<1>4. PICK f4 : f4 = f3 @@ ("keepalived.service" :> unit("yes", <<>>, Nothing))
  OBVIOUS
<1>5. PICK f5 : f5 = f4 @@ ("keepalived-refresh.service" :> unit("yes", GetKeepalivedRefreshUnit, Nothing))
  OBVIOUS
<1>6. PICK f6 : f6 = f5 @@ ("keepalived-refresh.path" :> unit("yes", GetKeepalivedRefreshPathUnit, Nothing))
  OBVIOUS
<1>7. u = f6
  BY <1>1, <1>2, <1>3, <1>4, <1>5, <1>6 DEF vipUnits, enabledUnit
<1>8. DOMAIN f1 = {"ocne-nginx.service"} /\ f1["ocne-nginx.service"] = unit("yes", <<"nginx">>, Nothing)
  BY <1>1, One
<1>9. isExtended(f2, f1, "ocne-nginx-refresh.service", unit("yes", GetNginxRefreshUnit, Nothing))
  BY <1>2, Extended
<1>10. isExtended(f3, f2, "ocne-nginx-refresh.path", unit("yes", GetNginxRefreshPathUnit, Nothing))
  BY <1>3, Extended
<1>11. isExtended(f4, f3, "keepalived.service", unit("yes", <<>>, Nothing))
  BY <1>4, Extended
<1>12. isExtended(f5, f4, "keepalived-refresh.service", unit("yes", GetKeepalivedRefreshUnit, Nothing))
  BY <1>5, Extended
<1>13. isExtended(f6, f5, "keepalived-refresh.path", unit("yes", GetKeepalivedRefreshPathUnit, Nothing))
  BY <1>6, Extended
<1> QED
  BY <1>7, <1>8, <1>9, <1>10, <1>11, <1>12, <1>13 DEF isExtended

VipFiles == {"keepalived.conf", "check_apiserver.sh", "keepalived_state.sh", "keepalived/log",
             "nginx.conf", "pull_ocne_nginx", "start_ocne_nginx", "nginx/image"}

\* Its files.
LEMMA VipFileNames == ASSUME NEW f, f = vipFiles(apiPort, 6444, virtualIp, "eth0") PROVE DOMAIN f = VipFiles
<1>1. PICK k, c, n : /\ k = keepalivedConfig("eth0", virtualIp, {})
                     /\ c = GenerateKeepalivedCheckScript(apiPort, virtualIp)
                     /\ n = generateNginxConfig(apiPort, 6444)
  OBVIOUS
<1>2. PICK f1 : f1 = ("keepalived.conf" :> k)
  OBVIOUS
<1>3. PICK f2 : f2 = f1 @@ ("check_apiserver.sh" :> c)
  OBVIOUS
<1>4. PICK f3 : f3 = f2 @@ ("keepalived_state.sh" :> <<"state">>)
  OBVIOUS
<1>5. PICK f4 : f4 = f3 @@ ("keepalived/log" :> <<>>)
  OBVIOUS
<1>6. PICK f5 : f5 = f4 @@ ("nginx.conf" :> n)
  OBVIOUS
<1>7. PICK f6 : f6 = f5 @@ ("pull_ocne_nginx" :> <<"pull">>)
  OBVIOUS
<1>8. PICK f7 : f7 = f6 @@ ("start_ocne_nginx" :> <<"start">>)
  OBVIOUS
<1>9. PICK f8 : f8 = f7 @@ ("nginx/image" :> <<"image">>)
  OBVIOUS
<1>10. f = f8
  BY <1>1, <1>2, <1>3, <1>4, <1>5, <1>6, <1>7, <1>8, <1>9 DEF vipFiles
<1>11. DOMAIN f1 = {"keepalived.conf"}
  BY <1>2, One
<1>12. DOMAIN f2 = DOMAIN f1 \cup {"check_apiserver.sh"}
  <2>1. isExtended(f1 @@ ("check_apiserver.sh" :> c), f1, "check_apiserver.sh", c)
    BY Extended
  <2> QED
    BY <1>3, <2>1 DEF isExtended
<1>13. DOMAIN f3 = DOMAIN f2 \cup {"keepalived_state.sh"}
  <2>1. isExtended(f2 @@ ("keepalived_state.sh" :> <<"state">>), f2, "keepalived_state.sh", <<"state">>)
    BY Extended
  <2> QED
    BY <1>4, <2>1 DEF isExtended
<1>14. DOMAIN f4 = DOMAIN f3 \cup {"keepalived/log"}
  <2>1. isExtended(f3 @@ ("keepalived/log" :> <<>>), f3, "keepalived/log", <<>>)
    BY Extended
  <2> QED
    BY <1>5, <2>1 DEF isExtended
<1>15. DOMAIN f5 = DOMAIN f4 \cup {"nginx.conf"}
  <2>1. isExtended(f4 @@ ("nginx.conf" :> n), f4, "nginx.conf", n)
    BY Extended
  <2> QED
    BY <1>6, <2>1 DEF isExtended
<1>16. DOMAIN f6 = DOMAIN f5 \cup {"pull_ocne_nginx"}
  <2>1. isExtended(f5 @@ ("pull_ocne_nginx" :> <<"pull">>), f5, "pull_ocne_nginx", <<"pull">>)
    BY Extended
  <2> QED
    BY <1>7, <2>1 DEF isExtended
<1>17. DOMAIN f7 = DOMAIN f6 \cup {"start_ocne_nginx"}
  <2>1. isExtended(f6 @@ ("start_ocne_nginx" :> <<"start">>), f6, "start_ocne_nginx", <<"start">>)
    BY Extended
  <2> QED
    BY <1>8, <2>1 DEF isExtended
<1>18. DOMAIN f8 = DOMAIN f7 \cup {"nginx/image"}
  <2>1. isExtended(f7 @@ ("nginx/image" :> <<"image">>), f7, "nginx/image", <<"image">>)
    BY Extended
  <2> QED
    BY <1>9, <2>1 DEF isExtended
<1> QED
  BY <1>10, <1>11, <1>12, <1>13, <1>14, <1>15, <1>16, <1>17, <1>18 DEF VipFiles

ExtraFiles ==
    {"10-ocne.preset", "80-ocne.preset", "update.yaml", "enableServices.sh", "registries.conf",
     "ocne-kubeadm-upgrade.sh"}
ExtraUnits == {"ocne.service", "ocne-update.service", "crio.service", "kubelet.service"}

\* The ignition of OLVM before the virtual IP is added.
LEMMA WithoutVip ==
    \E ign, known :
        /\ getExtraIgnition = IgnitionForVirtualIp(ign, apiPort, 6444, virtualIp, {}, "eth0")
        /\ known = AddUser(AddGroup(ign, "nginx_script"), "nginx_script", "unset", {})
        /\ shape(ign, ExtraFiles, ExtraUnits) /\ shape(known, ExtraFiles, ExtraUnits)
<1>1. shape(NewIgnition, {}, {})
  BY WellFormedNew DEF shape
<1>2. PICK i1 : i1 = ("pre-kubeadm.conf" :> <<"before">>) @@ ("enable-services.conf" :> <<"exec">>)
  OBVIOUS
<1>3. PICK i2 : i2 = AddUnit(NewIgnition, "ocne.service", unit("no", <<>>, Nothing))
  OBVIOUS
<1>4. shape(i2, {}, ({} \cup {"ocne.service"}))
  BY <1>1, <1>3, UnitAdded
<1>5. PICK i3 : i3 = AddUnit(i2, "ocne-update.service", unit("yes", <<>>, i1))
  OBVIOUS
<1>6. shape(i3, {}, (({} \cup {"ocne.service"}) \cup {"ocne-update.service"}))
  BY <1>4, <1>5, UnitAdded
<1>7. shape(i3, {}, {"ocne.service", "ocne-update.service"})
  BY <1>6
<1>8. PICK i4 : i4 = AddFile(i3, "10-ocne.preset", <<"preset">>)
  OBVIOUS
<1>9. shape(i4, ({} \cup {"10-ocne.preset"}), {"ocne.service", "ocne-update.service"})
  BY <1>7, <1>8, FileAdded
<1>10. PICK i5 : i5 = AddFile(i4, "80-ocne.preset", <<"preset">>)
  OBVIOUS
<1>11. shape(i5, (({} \cup {"10-ocne.preset"}) \cup {"80-ocne.preset"}), {"ocne.service", "ocne-update.service"})
  BY <1>9, <1>10, FileAdded
<1>12. PICK i6 : i6 = AddFile(i5, "update.yaml", updateFile("good", "tag"))
  OBVIOUS
<1>13. shape(i6, ((({} \cup {"10-ocne.preset"}) \cup {"80-ocne.preset"}) \cup {"update.yaml"}), {"ocne.service", "ocne-update.service"})
  BY <1>11, <1>12, FileAdded
<1>14. PICK i7 : i7 = AddFile(i6, "enableServices.sh", <<"enable">>)
  OBVIOUS
<1>15. shape(i7, (((({} \cup {"10-ocne.preset"}) \cup {"80-ocne.preset"}) \cup {"update.yaml"}) \cup {"enableServices.sh"}), {"ocne.service", "ocne-update.service"})
  BY <1>13, <1>14, FileAdded
<1>16. shape(i7, {"10-ocne.preset", "80-ocne.preset", "update.yaml", "enableServices.sh"}, {"ocne.service", "ocne-update.service"})
  BY <1>15
<1>17. PICK i8 : i8 = AddUnit(NewIgnition, "crio.service", unit("yes", <<>>, Nothing))
  OBVIOUS
<1>18. shape(i8, {}, ({} \cup {"crio.service"}))
  BY <1>1, <1>17, UnitAdded
<1>19. PICK i9 : i9 = AddUnit(i8, "kubelet.service", unit("yes", <<>>, Nothing))
  OBVIOUS
<1>20. shape(i9, {}, (({} \cup {"crio.service"}) \cup {"kubelet.service"}))
  BY <1>18, <1>19, UnitAdded
<1>21. PICK i10 : i10 = AddFile(i9, "registries.conf", <<"registry">>)
  OBVIOUS
<1>22. shape(i10, ({} \cup {"registries.conf"}), (({} \cup {"crio.service"}) \cup {"kubelet.service"}))
  BY <1>20, <1>21, FileAdded
<1>23. shape(i10, {"registries.conf"}, {"crio.service", "kubelet.service"})
  BY <1>22
<1>24. PICK i11 : i11 = OcneUser({"key"}, "unset")
  OBVIOUS
<1>25. shape(i11, {}, {})
  BY <1>1, <1>24, UserAdded DEF OcneUser
<1>26. PICK i12 : i12 = AddFile(NewIgnition, "ocne-kubeadm-upgrade.sh", <<"exit 0">>)
  OBVIOUS
<1>27. shape(i12, ({} \cup {"ocne-kubeadm-upgrade.sh"}), {})
  BY <1>1, <1>26, FileAdded
<1>28. PICK i13 : i13 = AddDir(i12, "ock/patches")
  OBVIOUS
<1>29. shape(i13, ({} \cup {"ocne-kubeadm-upgrade.sh"}), {})
  BY <1>27, <1>28, DirectoryAdded
<1>30. PICK i14 : i14 = Merge(i7, i10)
  OBVIOUS
<1>31. shape(i14, ({"10-ocne.preset", "80-ocne.preset", "update.yaml", "enableServices.sh"} \cup {"registries.conf"}), ({"ocne.service", "ocne-update.service"} \cup {"crio.service", "kubelet.service"}))
  BY <1>16, <1>23, <1>30, ShapesMerged
<1>32. PICK i15 : i15 = Merge(i14, i11)
  OBVIOUS
<1>33. shape(i15, (({"10-ocne.preset", "80-ocne.preset", "update.yaml", "enableServices.sh"} \cup {"registries.conf"}) \cup {}), (({"ocne.service", "ocne-update.service"} \cup {"crio.service", "kubelet.service"}) \cup {}))
  BY <1>31, <1>25, <1>32, ShapesMerged
<1>34. PICK i16 : i16 = Merge(i15, i13)
  OBVIOUS
<1>35. shape(i16, ((({"10-ocne.preset", "80-ocne.preset", "update.yaml", "enableServices.sh"} \cup {"registries.conf"}) \cup {}) \cup ({} \cup {"ocne-kubeadm-upgrade.sh"})), ((({"ocne.service", "ocne-update.service"} \cup {"crio.service", "kubelet.service"}) \cup {}) \cup {}))
  BY <1>33, <1>29, <1>34, ShapesMerged
<1>36. shape(i16, ExtraFiles, ExtraUnits)
  BY <1>35 DEF ExtraFiles, ExtraUnits
<1>37. PICK i17 : i17 = AddGroup(i16, "nginx_script")
  OBVIOUS
<1>38. shape(i17, ExtraFiles, ExtraUnits)
  BY <1>36, <1>37, UserAdded
<1>39. PICK i18 : i18 = AddUser(i17, "nginx_script", "unset", {})
  OBVIOUS
<1>40. shape(i18, ExtraFiles, ExtraUnits)
  BY <1>38, <1>39, UserAdded
<1>41. getExtraIgnition = IgnitionForVirtualIp(i16, apiPort, 6444, virtualIp, {}, "eth0")
  <2>1. i10 = ContainerConfiguration("registry")
    BY <1>17, <1>19, <1>21 DEF ContainerConfiguration, enabledUnit
  <2>2. i13 = KubeadmPatches
    BY <1>26, <1>28 DEF KubeadmPatches
  <2>3. i16 = Merge(Merge(Merge(i7, ContainerConfiguration("registry")), OcneUser({"key"}, "unset")), KubeadmPatches)
    BY <2>1, <2>2, <1>24, <1>30, <1>32, <1>34
  <2>4. i7 = AddFile(AddFile(AddFile(AddFile(i3, "10-ocne.preset", <<"preset">>),
                     "80-ocne.preset", <<"preset">>), "update.yaml", updateFile("good", "tag")),
                     "enableServices.sh", <<"enable">>)
    BY <1>8, <1>10, <1>12, <1>14
  <2>5. i3 = AddUnit(AddUnit(NewIgnition, "ocne.service", unit("no", <<>>, Nothing)),
                     "ocne-update.service",
                     unit("yes", <<>>, ("pre-kubeadm.conf" :> <<"before">>)
                                           @@ ("enable-services.conf" :> <<"exec">>)))
    BY <1>2, <1>3, <1>5
  <2>6. getExtraIgnition = IgnitionForVirtualIp(Merge(Merge(Merge(AddFile(AddFile(AddFile(AddFile(
                     AddUnit(AddUnit(NewIgnition, "ocne.service", unit("no", <<>>, Nothing)),
                     "ocne-update.service",
                     unit("yes", <<>>, ("pre-kubeadm.conf" :> <<"before">>)
                                           @@ ("enable-services.conf" :> <<"exec">>))),
                     "10-ocne.preset", <<"preset">>),
                     "80-ocne.preset", <<"preset">>), "update.yaml", updateFile("good", "tag")),
                     "enableServices.sh", <<"enable">>), ContainerConfiguration("registry")),
                   OcneUser({"key"}, "unset")), KubeadmPatches), apiPort, 6444, virtualIp, {}, "eth0")
    BY DEF getExtraIgnition
  <2> QED
    BY <2>3, <2>4, <2>5, <2>6
<1>42. i18 = AddUser(AddGroup(i16, "nginx_script"), "nginx_script", "unset", {})
  BY <1>37, <1>39
<1> QED
  BY <1>36, <1>40, <1>41, <1>42

LEMMA FiniteEight ==
    ASSUME NEW a, NEW b, NEW c, NEW d, NEW e, NEW f, NEW g, NEW h
    PROVE  IsFiniteSet({a, b, c, d, e, f, g, h})
<1>1. \A x : IsFiniteSet({x})
  BY FS_Singleton
<1>2. \A S, T : IsFiniteSet(S) /\ IsFiniteSet(T) => IsFiniteSet(S \cup T)
  BY FS_Union
<1>3. IsFiniteSet((({a} \cup {b}) \cup ({c} \cup {d})) \cup (({e} \cup {f}) \cup ({g} \cup {h})))
  BY <1>1, <1>2
<1>4. (({a} \cup {b}) \cup ({c} \cup {d})) \cup (({e} \cup {f}) \cup ({g} \cup {h})) = {a, b, c, d, e, f, g, h}
  OBVIOUS
<1> QED
  BY <1>3, <1>4

LEMMA VipFinite ==
    /\ IsFiniteSet(VipFiles)
    /\ IsFiniteSet(DOMAIN vipUnits({}))
    /\ IsFiniteSet(retiredFiles)
<1>1. IsFiniteSet(VipFiles)
  BY FiniteEight DEF VipFiles
<1>2. IsFiniteSet(DOMAIN vipUnits({}))
  <2>1. IsFiniteSet({"ocne-nginx.service", "ocne-nginx-refresh.service", "ocne-nginx-refresh.path",
                     "keepalived.service", "keepalived-refresh.service", "keepalived-refresh.path",
                     "keepalived.service", "keepalived.service"})
    BY FiniteEight
  <2>2. DOMAIN vipUnits({}) = {"ocne-nginx.service", "ocne-nginx-refresh.service", "ocne-nginx-refresh.path",
                               "keepalived.service", "keepalived-refresh.service", "keepalived-refresh.path"}
    BY VipUnits
  <2> QED
    BY <2>1, <2>2
<1>3. IsFiniteSet(retiredFiles)
  <2>1. IsFiniteSet({"keepalived-copy-kubeconfig.sh", "nginx-copy-kubeconfig.sh", "check_nginx.sh",
     "nginx-refresh/log", "51-keepalived.rules", "52-nginx.rules", "keepalived.conf.tmpl",
     "nginx.conf.tmpl"})
    BY FiniteEight
  <2>2. IsFiniteSet({"keepalived/peers"}) /\ IsFiniteSet({"nginx-refresh/servers"})
    BY FS_Singleton
  <2>3. retiredFiles = ({"keepalived-copy-kubeconfig.sh", "nginx-copy-kubeconfig.sh", "check_nginx.sh",
     "nginx-refresh/log", "51-keepalived.rules", "52-nginx.rules", "keepalived.conf.tmpl",
     "nginx.conf.tmpl"} \cup {"keepalived/peers"}) \cup {"nginx-refresh/servers"}
    BY DEF retiredFiles
  <2> QED
    BY <2>1, <2>2, <2>3, FS_Union
<1> QED
  BY <1>1, <1>2, <1>3

\* The assets of a virtual IP.
LEMMA VipAssets ==
    ASSUME NEW assets, assets = GenerateAssetsForVirtualIp(apiPort, 6444, virtualIp, {}, "eth0")
    PROVE  /\ shape(assets, VipFiles, DOMAIN vipUnits({}))
           /\ assets.units = vipUnits({})
<1>1. PICK f : f = vipFiles(apiPort, 6444, virtualIp, "eth0")
  OBVIOUS
<1>2. PICK u : u = vipUnits({})
  OBVIOUS
<1>3. assets = [NewIgnition EXCEPT !.files = f, !.units = u]
  BY <1>1, <1>2 DEF GenerateAssetsForVirtualIp
<1>4. PICK i : i = [NewIgnition EXCEPT !.files = f]
  BY Zenon
<1>5. PICK j : j = [i EXCEPT !.units = u]
  BY Zenon
<1>8. assets = j
  BY <1>3, <1>4, <1>5, SMT
<1>9. wellFormed(i)
  BY <1>1, <1>4, VipFileNames, VipFinite, WithFiles, WellFormedNew
<1>10. \A n \in DOMAIN u : LET x == u[n] IN x = unit(x.enabled, x.contents, x.dropins)
  BY <1>2, VipUnits DEF unit
<1>11. wellFormed(j) /\ j.units = u /\ j.files = i.files
  BY <1>2, <1>5, <1>9, <1>10, VipFinite, WithUnits
<1>12. i.files = f
  BY <1>4 DEF NewIgnition
<1> QED
  BY <1>1, <1>2, <1>8, <1>11, <1>12, VipFileNames DEF shape

\* The ignition of a control plane of OLVM as this ocne makes it.
LEMMA ExtraIgnition ==
    /\ wellFormed(getExtraIgnition)
    /\ \A n \in DOMAIN vipUnits({}) :
           n \in DOMAIN getExtraIgnition.units /\ getExtraIgnition.units[n] = vipUnits({})[n]
<1>1. PICK ign, known :
        /\ getExtraIgnition = IgnitionForVirtualIp(ign, apiPort, 6444, virtualIp, {}, "eth0")
        /\ known = AddUser(AddGroup(ign, "nginx_script"), "nginx_script", "unset", {})
        /\ shape(ign, ExtraFiles, ExtraUnits) /\ shape(known, ExtraFiles, ExtraUnits)
  BY WithoutVip
<1>2. PICK assets : assets = GenerateAssetsForVirtualIp(apiPort, 6444, virtualIp, {}, "eth0")
  OBVIOUS
<1>3. shape(assets, VipFiles, DOMAIN vipUnits({})) /\ assets.units = vipUnits({})
  BY <1>2, VipAssets
<1>4. DOMAIN ign.files \cap DOMAIN assets.files = {}
  BY <1>1, <1>3 DEF shape, ExtraFiles, VipFiles
<1>5. getExtraIgnition = Merge(known, assets)
  BY <1>1, <1>2, <1>4 DEF IgnitionForVirtualIp
<1>6. wellFormed(Merge(known, assets)) /\ MergedUnits(Merge(known, assets).units, known.units, assets.units)
  BY <1>1, <1>3, Merged DEF shape
<1>7. \A n \in DOMAIN vipUnits({}) : n \notin DOMAIN known.units
  BY <1>1, VipUnits DEF shape, ExtraUnits
<1> QED
  BY <1>3, <1>5, <1>6, <1>7 DEF MergedUnits

-----------------------------------------------------------------------------
(* What Stage wants of an ignition                                          *)

RefreshUnits == {"keepalived-refresh.path", "keepalived-refresh.service",
                 "ocne-nginx-refresh.path", "ocne-nginx-refresh.service"}
MainUnits == {"keepalived.service", "ocne-nginx.service"}

\* What Stage updates, adds and takes away.
LEMMA WhatStageUpdates ==
    ASSUME NEW u, u = controlPlaneUpdates(apiPort, virtualIp)
    PROVE  /\ shape(u.updates, {"check_apiserver.sh"}, RefreshUnits)
           /\ u.updates.files["check_apiserver.sh"] = GenerateKeepalivedCheckScript(apiPort, virtualIp)
           /\ u.updates.directories = Nothing
           /\ \A n \in RefreshUnits : u.updates.units[n] = unit("unset", vipUnits({})[n].contents, Nothing)
           /\ u.updates.users = Nothing /\ u.updates.groups = Nothing /\ u.updates.links = Nothing
           /\ u.updates.disks = Nothing /\ u.updates.raid = Nothing /\ u.updates.filesystems = Nothing
           /\ u.files = retiredFiles /\ u.directories = {"nginx-refresh"} /\ u.users = {}
           /\ DOMAIN u.units = MainUnits
           /\ \A n \in MainUnits : u.units[n] = {"copy-kubeconfig.conf"}
<1>1. PICK f1 : f1 = ("keepalived-refresh.path" :> unit("unset", GetKeepalivedRefreshPathUnit, Nothing))
  OBVIOUS
<1>2. PICK f2 : f2 = f1 @@ ("keepalived-refresh.service" :> unit("unset", GetKeepalivedRefreshUnit, Nothing))
  OBVIOUS
<1>3. PICK f3 : f3 = f2 @@ ("ocne-nginx-refresh.path" :> unit("unset", GetNginxRefreshPathUnit, Nothing))
  OBVIOUS
<1>4. PICK f4 : f4 = f3 @@ ("ocne-nginx-refresh.service" :> unit("unset", GetNginxRefreshUnit, Nothing))
  OBVIOUS
<1>5. PICK g : g = ("check_apiserver.sh" :> GenerateKeepalivedCheckScript(apiPort, virtualIp))
  OBVIOUS
<1>6. PICK r : r = ("keepalived.service" :> {"copy-kubeconfig.conf"})
                   @@ ("ocne-nginx.service" :> {"copy-kubeconfig.conf"})
  OBVIOUS
<1>7. u = [updates |-> [NewIgnition EXCEPT !.files = g, !.units = f4],
           files |-> retiredFiles, directories |-> {"nginx-refresh"}, users |-> {}, units |-> r]
  BY <1>1, <1>2, <1>3, <1>4, <1>5, <1>6 DEF controlPlaneUpdates
<1>8. DOMAIN f1 = {"keepalived-refresh.path"}
      /\ f1["keepalived-refresh.path"] = unit("unset", GetKeepalivedRefreshPathUnit, Nothing)
  BY <1>1, One
<1>9. isExtended(f2, f1, "keepalived-refresh.service", unit("unset", GetKeepalivedRefreshUnit, Nothing))
  BY <1>2, Extended
<1>10. isExtended(f3, f2, "ocne-nginx-refresh.path", unit("unset", GetNginxRefreshPathUnit, Nothing))
  BY <1>3, Extended
<1>11. isExtended(f4, f3, "ocne-nginx-refresh.service", unit("unset", GetNginxRefreshUnit, Nothing))
  BY <1>4, Extended
<1>12. /\ DOMAIN f4 = RefreshUnits
       /\ f4["keepalived-refresh.path"] = unit("unset", GetKeepalivedRefreshPathUnit, Nothing)
       /\ f4["keepalived-refresh.service"] = unit("unset", GetKeepalivedRefreshUnit, Nothing)
       /\ f4["ocne-nginx-refresh.path"] = unit("unset", GetNginxRefreshPathUnit, Nothing)
       /\ f4["ocne-nginx-refresh.service"] = unit("unset", GetNginxRefreshUnit, Nothing)
  BY <1>8, <1>9, <1>10, <1>11 DEF isExtended, RefreshUnits
<1>13. DOMAIN g = {"check_apiserver.sh"} /\ g["check_apiserver.sh"] = GenerateKeepalivedCheckScript(apiPort, virtualIp)
  BY <1>5, One
<1>14. DOMAIN r = MainUnits /\ \A n \in MainUnits : r[n] = {"copy-kubeconfig.conf"}
  <2>1. PICK r1 : r1 = ("keepalived.service" :> {"copy-kubeconfig.conf"})
    OBVIOUS
  <2>2. DOMAIN r1 = {"keepalived.service"} /\ r1["keepalived.service"] = {"copy-kubeconfig.conf"}
    BY <2>1, One
  <2>3. isExtended(r, r1, "ocne-nginx.service", {"copy-kubeconfig.conf"})
    BY <1>6, <2>1, Extended
  <2> QED
    BY <2>2, <2>3 DEF isExtended, MainUnits
<1>15. \A n \in RefreshUnits : f4[n] = unit("unset", vipUnits({})[n].contents, Nothing)
  BY <1>12, VipUnits DEF unit, RefreshUnits
<1>16. PICK e : e = u.updates
  OBVIOUS
<1>17. PICK i : i = [NewIgnition EXCEPT !.files = g]
  OBVIOUS
<1>17a. PICK j : j = [i EXCEPT !.units = f4]
  OBVIOUS
<1>18. e = j
  <2>1. e = [NewIgnition EXCEPT !.files = g, !.units = f4]
    BY <1>7, <1>16
  <2> QED
    BY <1>17, <1>17a, <2>1, SMT
<1>19. wellFormed(i) /\ i.files = g /\ i.directories = Nothing
  <2>1. IsFiniteSet(DOMAIN g)
    BY <1>13, FS_Singleton
  <2>2. PICK n : n = NewIgnition
    OBVIOUS
  <2>3. wellFormed(n) /\ n.directories = Nothing
    BY <2>2, WellFormedNew
  <2>4. i = [n EXCEPT !.files = g]
    BY <1>17, <2>2
  <2> QED
    BY <2>1, <2>3, <2>4, WithFiles
<1>20. \A n \in DOMAIN f4 : LET x == f4[n] IN x = unit(x.enabled, x.contents, x.dropins)
  BY <1>12, <1>15 DEF unit
<1>21. IsFiniteSet(DOMAIN f4)
  <2>1. RefreshUnits = {"keepalived-refresh.path", "keepalived-refresh.service",
                 "ocne-nginx-refresh.path", "ocne-nginx-refresh.service",
                 "keepalived-refresh.path", "keepalived-refresh.service",
                 "ocne-nginx-refresh.path", "ocne-nginx-refresh.service"}
    BY DEF RefreshUnits
  <2>2. IsFiniteSet({"keepalived-refresh.path", "keepalived-refresh.service",
                 "ocne-nginx-refresh.path", "ocne-nginx-refresh.service",
                 "keepalived-refresh.path", "keepalived-refresh.service",
                 "ocne-nginx-refresh.path", "ocne-nginx-refresh.service"})
    BY FiniteEight
  <2> QED
    BY <1>12, <2>1, <2>2
<1>22. wellFormed(j) /\ j.units = f4 /\ j.files = g /\ j.directories = Nothing
  BY <1>17a, <1>19, <1>20, <1>21, WithUnits
<1>23. /\ j.users = Nothing /\ j.groups = Nothing /\ j.links = Nothing
       /\ j.disks = Nothing /\ j.raid = Nothing /\ j.filesystems = Nothing
  BY <1>17, <1>17a DEF NewIgnition
<1>24. u.files = retiredFiles /\ u.directories = {"nginx-refresh"} /\ u.users = {} /\ u.units = r
  BY <1>7
<1> QED
  BY <1>12, <1>13, <1>14, <1>15, <1>16, <1>18, <1>22, <1>23, <1>24 DEF shape

\* Two collections with the same entries.
sameEntries(f, g) == DOMAIN f = DOMAIN g /\ \A k \in DOMAIN g : f[k] = g[k]
LEMMA AddsNothing == \A f : sameEntries(Nothing @@ f, f)
<1> SUFFICES ASSUME NEW f PROVE sameEntries(Nothing @@ f, f)
  OBVIOUS
<1>1. isJoined(Nothing @@ f, Nothing, f)
  BY Joined
<1> QED
  BY <1>1, WellFormedNew DEF isJoined, sameEntries

\* What Stage makes of an ignition.
lessUnits(w, f) ==
    /\ DOMAIN w = DOMAIN f
    /\ \A n \in MainUnits \cap DOMAIN f :
           w[n] = unit(f[n].enabled, f[n].contents, without(f[n].dropins, {"copy-kubeconfig.conf"}))
    /\ \A n \in DOMAIN f \ MainUnits : w[n] = f[n]
isStaged(new, ign) ==
    /\ DOMAIN new.files = (DOMAIN ign.files \ retiredFiles) \cup {"check_apiserver.sh"}
    /\ new.files["check_apiserver.sh"] = GenerateKeepalivedCheckScript(apiPort, virtualIp)
    /\ \A k \in DOMAIN ign.files \ retiredFiles : k # "check_apiserver.sh" => new.files[k] = ign.files[k]
    /\ DOMAIN new.directories = DOMAIN ign.directories \ {"nginx-refresh"}
    /\ \A k \in DOMAIN new.directories : new.directories[k] = ign.directories[k]
    /\ sameEntries(new.links, ign.links) /\ sameEntries(new.disks, ign.disks)
    /\ sameEntries(new.raid, ign.raid) /\ sameEntries(new.filesystems, ign.filesystems)
    /\ sameEntries(new.users, ign.users) /\ sameEntries(new.groups, ign.groups)
    /\ DOMAIN new.units = DOMAIN ign.units \cup RefreshUnits
    /\ \A n \in MainUnits \cap DOMAIN ign.units :
           LET u == ign.units[n] IN
           new.units[n] = unit(u.enabled, u.contents, without(u.dropins, {"copy-kubeconfig.conf"}))
    /\ \A n \in RefreshUnits \cap DOMAIN ign.units :
           LET u == ign.units[n] IN
           new.units[n] = unit(u.enabled, vipUnits({})[n].contents, Nothing @@ u.dropins)
    /\ \A n \in RefreshUnits \ DOMAIN ign.units :
           new.units[n] = unit("unset", vipUnits({})[n].contents, Nothing)
    /\ \A n \in DOMAIN ign.units \ (MainUnits \cup RefreshUnits) : new.units[n] = ign.units[n]

\* No unit is taken away as a whole.
LEMMA LessUnits ==
    ASSUME NEW f, NEW r, DOMAIN r = MainUnits, \A n \in MainUnits : r[n] = {"copy-kubeconfig.conf"},
           \A n \in DOMAIN f : LET u == f[n] IN u = unit(u.enabled, u.contents, u.dropins)
    PROVE  lessUnits(withoutUnits(f, r), f)
<1>1. {n \in DOMAIN r : r[n] = {}} = {}
  OBVIOUS
<1>2. PICK g : g = without(f, {n \in DOMAIN r : r[n] = {}})
  OBVIOUS
<1>3. DOMAIN g = DOMAIN f /\ \A n \in DOMAIN f : g[n] = f[n]
  <2>1. g = without(f, {})
    BY <1>1, <1>2
  <2> QED
    BY <2>1 DEF without
<1>4. PICK w : w = withoutUnits(f, r)
  OBVIOUS
<1>5. w = [n \in DOMAIN g |-> IF n \in DOMAIN r THEN [g[n] EXCEPT !.dropins = without(@, r[n])] ELSE g[n]]
  BY <1>2, <1>4 DEF withoutUnits
<1>6. \A n \in DOMAIN f \ MainUnits : w[n] = f[n]
  BY <1>3, <1>5
<1>7. ASSUME NEW n \in MainUnits \cap DOMAIN f
      PROVE  w[n] = unit(f[n].enabled, f[n].contents, without(f[n].dropins, {"copy-kubeconfig.conf"}))
  <2>1. w[n] = [f[n] EXCEPT !.dropins = without(f[n].dropins, {"copy-kubeconfig.conf"})]
    BY <1>3, <1>5
  <2>2. PICK x, e, y, d : x = f[n] /\ x = unit(e, y, d)
    <3>1. f[n] = unit(f[n].enabled, f[n].contents, f[n].dropins)
      OBVIOUS
    <3> QED
      BY <3>1
  <2>3. PICK z : z = without(f[n].dropins, {"copy-kubeconfig.conf"})
    OBVIOUS
  <2>4. w[n] = [x EXCEPT !.dropins = z]
    BY <2>1, <2>2, <2>3
  <2>5. w[n] = unit(e, y, z)
    BY <2>2, <2>4 DEF unit
  <2>6. e = f[n].enabled /\ y = f[n].contents
    BY <2>2 DEF unit
  <2> QED
    BY <2>3, <2>5, <2>6
<1> QED
  BY <1>3, <1>4, <1>5, <1>6, <1>7 DEF lessUnits

\* UpdateIgnition takes away and then merges.
LEMMA Staged ==
    ASSUME NEW ign, wellFormed(ign), MainUnits \subseteq DOMAIN ign.units,
           NEW new, new = controlPlaneIgnitionPatches(ign, apiPort, virtualIp).ign
    PROVE  /\ wellFormed(new) /\ isStaged(new, ign)
           /\ settled(ign) <=> Compare(new, ign)
<1>1. PICK u : u = controlPlaneUpdates(apiPort, virtualIp)
  OBVIOUS
<1>2. PICK e : e = u.updates
  OBVIOUS
<1>3. /\ shape(e, {"check_apiserver.sh"}, RefreshUnits)
      /\ e.files["check_apiserver.sh"] = GenerateKeepalivedCheckScript(apiPort, virtualIp)
      /\ e.directories = Nothing
      /\ \A n \in RefreshUnits : e.units[n] = unit("unset", vipUnits({})[n].contents, Nothing)
      /\ e.users = Nothing /\ e.groups = Nothing /\ e.links = Nothing
      /\ e.disks = Nothing /\ e.raid = Nothing /\ e.filesystems = Nothing
      /\ u.files = retiredFiles /\ u.directories = {"nginx-refresh"} /\ u.users = {}
      /\ DOMAIN u.units = MainUnits
      /\ \A n \in MainUnits : u.units[n] = {"copy-kubeconfig.conf"}
  BY <1>1, <1>2, WhatStageUpdates
<1>4. PICK f : f = without(ign.files, retiredFiles)
  OBVIOUS
<1>5. PICK d : d = without(ign.directories, {"nginx-refresh"})
  OBVIOUS
<1>6. PICK v : v = without(ign.users, {})
  OBVIOUS
<1>7. PICK w : w = withoutUnits(ign.units, u.units)
  OBVIOUS
<1>8. PICK l1 : l1 = [ign EXCEPT !.files = f]
  OBVIOUS
<1>9. PICK l2 : l2 = [l1 EXCEPT !.directories = d]
  OBVIOUS
<1>10. PICK l3 : l3 = [l2 EXCEPT !.users = v]
  OBVIOUS
<1>11. PICK l4 : l4 = [l3 EXCEPT !.units = w]
  OBVIOUS
<1>12. /\ DOMAIN f = DOMAIN ign.files \ retiredFiles /\ \A k \in DOMAIN f : f[k] = ign.files[k]
       /\ DOMAIN d = DOMAIN ign.directories \ {"nginx-refresh"} /\ \A k \in DOMAIN d : d[k] = ign.directories[k]
       /\ sameEntries(v, ign.users)
  BY <1>4, <1>5, <1>6 DEF without, sameEntries
<1>13. lessUnits(w, ign.units)
  BY <1>3, <1>7, LessUnits DEF wellFormed
<1>14. IsFiniteSet(DOMAIN f) /\ IsFiniteSet(DOMAIN d) /\ IsFiniteSet(DOMAIN w)
  BY <1>12, <1>13, FS_Subset DEF lessUnits, wellFormed
<1>15. \A n \in DOMAIN w : LET x == w[n] IN x = unit(x.enabled, x.contents, x.dropins)
  BY <1>13 DEF lessUnits, wellFormed, unit
<1>16. wellFormed(l1) /\ l1.files = f /\ l1.directories = ign.directories /\ l1.units = ign.units
  BY <1>8, <1>14, WithFiles
<1>17. wellFormed(l2) /\ l2.files = f /\ l2.directories = d /\ l2.units = ign.units
  BY <1>9, <1>14, <1>16, WithDirectories
<1>18. wellFormed(l3) /\ l3.files = f /\ l3.directories = d /\ l3.units = ign.units
  BY <1>10, <1>17, WithUsers
<1>19. wellFormed(l4) /\ l4.files = f /\ l4.directories = d /\ l4.units = w
  BY <1>11, <1>14, <1>15, <1>18, WithUnits
<1>20. /\ l4.links = ign.links /\ l4.disks = ign.disks /\ l4.raid = ign.raid
       /\ l4.filesystems = ign.filesystems /\ l4.groups = ign.groups /\ l4.users = v
  <2>1. ign = [files |-> ign.files, directories |-> ign.directories, links |-> ign.links,
           disks |-> ign.disks, raid |-> ign.raid, filesystems |-> ign.filesystems,
           units |-> ign.units, users |-> ign.users, groups |-> ign.groups, err |-> FALSE]
    BY DEF wellFormed
  <2> QED
    BY <2>1, <1>8, <1>9, <1>10, <1>11
<1>21. l4 = [ign EXCEPT !.files = f, !.directories = d, !.users = v, !.units = w]
  BY <1>8, <1>9, <1>10, <1>11, SMT
<1>22. PICK x : x = UpdateIgnition(ign, u)
  OBVIOUS
<1>23. x = controlPlaneIgnitionPatches(ign, apiPort, virtualIp)
  BY <1>1, <1>22 DEF controlPlaneIgnitionPatches
<1>24. PICK m : m = Merge(l4, e)
  OBVIOUS
<1>25. x = [patch |-> ~Compare(m, ign), ign |-> m]
  <2>1. PICK l5 : l5 = [ign EXCEPT !.files = without(@, u.files),
                            !.directories = without(@, u.directories),
                            !.users = without(@, u.users),
                            !.units = withoutUnits(@, u.units)]
    OBVIOUS
  <2>2. l5 = [ign EXCEPT !.files = f, !.directories = d, !.users = v, !.units = w]
    BY <2>1, <1>3, <1>4, <1>5, <1>6, <1>7
  <2>3. l5 = l4
    BY <2>2, <1>21
  <2>4. x = [patch |-> ~Compare(Merge(l5, e), ign), ign |-> Merge(l5, e)]
    BY <1>2, <1>22, <2>1 DEF UpdateIgnition
  <2> QED
    BY <1>24, <2>3, <2>4
<1>26. new = m /\ (settled(ign) <=> Compare(m, ign))
  <2>1. PICK b : b = (~Compare(m, ign))
    OBVIOUS
  <2>2. x = [patch |-> b, ign |-> m]
    BY <1>25, <2>1
  <2>3. x.patch = b /\ x.ign = m
    BY <2>2
  <2>4. settled(ign) <=> ~b
    BY <1>23, <2>3 DEF settled
  <2> QED
    BY <1>23, <2>1, <2>3, <2>4
<1>27. /\ wellFormed(m) /\ m = merged(l4, e)
       /\ m.files = e.files @@ l4.files /\ m.directories = e.directories @@ l4.directories
       /\ MergedUnits(m.units, l4.units, e.units)
  BY <1>3, <1>19, <1>24, Merged DEF shape
<1>28. /\ DOMAIN m.files = (DOMAIN ign.files \ retiredFiles) \cup {"check_apiserver.sh"}
       /\ m.files["check_apiserver.sh"] = GenerateKeepalivedCheckScript(apiPort, virtualIp)
       /\ \A k \in DOMAIN ign.files \ retiredFiles : k # "check_apiserver.sh" => m.files[k] = ign.files[k]
  <2>1. isJoined(m.files, e.files, f)
    BY <1>19, <1>27, Joined
  <2> QED
    BY <2>1, <1>3, <1>12 DEF isJoined, shape
<1>29. /\ DOMAIN m.directories = DOMAIN ign.directories \ {"nginx-refresh"}
       /\ \A k \in DOMAIN m.directories : m.directories[k] = ign.directories[k]
  <2>1. sameEntries(m.directories, d)
    BY <1>3, <1>19, <1>27, AddsNothing
  <2> QED
    BY <2>1, <1>12 DEF sameEntries
<1>30. /\ sameEntries(m.links, ign.links) /\ sameEntries(m.disks, ign.disks)
       /\ sameEntries(m.raid, ign.raid) /\ sameEntries(m.filesystems, ign.filesystems)
       /\ sameEntries(m.groups, ign.groups)
  <2>1. /\ m.links = e.links @@ l4.links /\ m.disks = e.disks @@ l4.disks /\ m.raid = e.raid @@ l4.raid
        /\ m.filesystems = e.filesystems @@ l4.filesystems /\ m.groups = e.groups @@ l4.groups
    BY <1>27 DEF merged
  <2> QED
    BY <2>1, <1>3, <1>20, AddsNothing
<1>31. sameEntries(m.users, ign.users)
  <2>1. m.users = [n \in both(l4.users, e.users) |-> mergeUser(l4.users[n], e.users[n])] @@ e.users @@ l4.users
    BY <1>27 DEF merged
  <2>2. PICK g : g = [n \in both(l4.users, e.users) |-> mergeUser(l4.users[n], e.users[n])]
    OBVIOUS
  <2>3. DOMAIN g = {}
    BY <2>2, <1>3, WellFormedNew DEF both
  <2>4. PICK h : h = g @@ Nothing
    OBVIOUS
  <2>5. isJoined(h, g, Nothing)
    BY <2>4, Joined
  <2>6. DOMAIN h = {}
    BY <2>3, <2>5, WellFormedNew DEF isJoined
  <2>7. m.users = h @@ v
    BY <2>1, <2>2, <2>4, <1>3, <1>20
  <2>8. isJoined(m.users, h, v)
    BY <2>7, Joined
  <2>9. sameEntries(m.users, v)
    BY <2>6, <2>8 DEF isJoined, sameEntries
  <2> QED
    BY <2>9, <1>12 DEF sameEntries
<1>32. DOMAIN w = DOMAIN ign.units /\ DOMAIN e.units = RefreshUnits /\ MainUnits \cap RefreshUnits = {}
  BY <1>3, <1>13 DEF lessUnits, shape, MainUnits, RefreshUnits
<1>33. DOMAIN m.units = DOMAIN ign.units \cup RefreshUnits
  BY <1>19, <1>27, <1>32 DEF MergedUnits
<1>34. \A n \in MainUnits \cap DOMAIN ign.units :
           LET y == ign.units[n] IN
           m.units[n] = unit(y.enabled, y.contents, without(y.dropins, {"copy-kubeconfig.conf"}))
  <2> TAKE n \in MainUnits \cap DOMAIN ign.units
  <2>1. m.units[n] = w[n]
    BY <1>19, <1>27, <1>32 DEF MergedUnits
  <2> QED
    BY <2>1, <1>13 DEF lessUnits
<1>35. \A n \in RefreshUnits \cap DOMAIN ign.units :
           LET y == ign.units[n] IN
           m.units[n] = unit(y.enabled, vipUnits({})[n].contents, Nothing @@ y.dropins)
  <2> TAKE n \in RefreshUnits \cap DOMAIN ign.units
  <2>1. m.units[n] = mergeUnit(w[n], e.units[n])
    BY <1>19, <1>27, <1>32 DEF MergedUnits
  <2>2. w[n] = ign.units[n]
    BY <1>13, <1>32 DEF lessUnits
  <2>3. e.units[n] = unit("unset", vipUnits({})[n].contents, Nothing)
    BY <1>3
  <2>4. vipUnits({})[n].contents # <<>>
    BY VipUnits DEF RefreshUnits, unit, GetNginxRefreshUnit, GetNginxRefreshPathUnit,
                    GetKeepalivedRefreshUnit, GetKeepalivedRefreshPathUnit
  <2>5. PICK y, k : y = ign.units[n] /\ k = vipUnits({})[n].contents
    OBVIOUS
  <2>6. mergeUnit(y, unit("unset", k, Nothing)) = unit(y.enabled, k, Nothing @@ y.dropins)
    BY <2>4, <2>5 DEF mergeUnit, unit
  <2> QED
    BY <2>1, <2>2, <2>3, <2>5, <2>6
<1>36. \A n \in RefreshUnits \ DOMAIN ign.units :
           m.units[n] = unit("unset", vipUnits({})[n].contents, Nothing)
  BY <1>3, <1>19, <1>27, <1>32 DEF MergedUnits
<1>37. \A n \in DOMAIN ign.units \ (MainUnits \cup RefreshUnits) : m.units[n] = ign.units[n]
  BY <1>13, <1>19, <1>27, <1>32 DEF MergedUnits, lessUnits
<1>38. isStaged(m, ign)
  BY <1>28, <1>29, <1>30, <1>31, <1>33, <1>34, <1>35, <1>36, <1>37 DEF isStaged
<1> QED
  BY <1>26, <1>27, <1>38

\* What a unit of this ocne is, but for drop-ins.
LEMMA IsUnit ==
    ASSUME NEW n \in MainUnits \cup RefreshUnits, NEW u, NEW S
    PROVE  /\ isUnit(n, u, S) <=> /\ u.enabled = enabledBy(n)
                                 /\ u.contents = vipUnits({})[n].contents
                                 /\ DOMAIN u.dropins \subseteq S
           /\ n \in DOMAIN theUnits
           /\ enabledBy(n) = IF world.made # "now" /\ n \in pathUnits THEN "unset" ELSE "yes"
<1>1. PICK v : v = vipUnits({})
  OBVIOUS
<1>2. n \in DOMAIN v /\ v[n].enabled = "yes" /\ v[n].dropins = Nothing
  BY <1>1, VipUnits DEF MainUnits, RefreshUnits, unit
<1>3. v = theUnits
  BY <1>1 DEF theUnits
<1>4. without(u.dropins, S) = Nothing <=> DOMAIN u.dropins \subseteq S
  <2>1. PICK w : w = without(u.dropins, S)
    OBVIOUS
  <2>2. DOMAIN w = DOMAIN u.dropins \ S /\ w = [k \in DOMAIN w |-> w[k]]
    BY <2>1 DEF without
  <2>3. DOMAIN Nothing = {} /\ Nothing = [k \in {} |-> Nothing[k]]
    BY DEF Nothing
  <2>4. w = Nothing <=> DOMAIN w = {}
    BY <2>2, <2>3
  <2> QED
    BY <2>1, <2>2, <2>4
<1> QED
  BY <1>1, <1>2, <1>3, <1>4 DEF isUnit, enabledBy

\* The units that Stage starts from.
LEMMA StageStarts ==
    ASSUME NEW ign
    PROVE  hasUnits(ign) <=>
               /\ \A n \in MainUnits :
                      n \in DOMAIN ign.units /\ isUnit(n, ign.units[n], {"mine.conf", "copy-kubeconfig.conf"})
               /\ \A n \in RefreshUnits :
                      IF n \in DOMAIN ign.units THEN isUnit(n, ign.units[n], {"mine.conf"})
                      ELSE enabledBy(n) = "unset"
<1>1. DOMAIN controlPlaneUpdates(apiPort, virtualIp).updates.units = RefreshUnits
  BY WhatStageUpdates DEF shape
<1> QED
  BY <1>1 DEF hasUnits, MainUnits

\* What Stage has made is up to date, Stage could start from it again, and
\* what the user added is still there.
LEMMA StagedIs ==
    ASSUME NEW ign, hasUnits(ign), NEW new, isStaged(new, ign)
    PROVE  current(new) /\ hasUnits(new) /\ (kept(ign) => kept(new))
<1>1. MainUnits \subseteq DOMAIN ign.units /\ MainUnits \cap RefreshUnits = {}
      /\ \A n \in MainUnits : isUnit(n, ign.units[n], {"mine.conf", "copy-kubeconfig.conf"})
  BY StageStarts DEF MainUnits, RefreshUnits
<1>2. \A n \in MainUnits : n \in DOMAIN new.units /\ isUnit(n, new.units[n], {"mine.conf"})
  <2> TAKE n \in MainUnits
  <2>1. n \in DOMAIN new.units
    BY <1>1 DEF isStaged
  <2>2. PICK e, y, d : /\ new.units[n] = unit(e, y, without(d, {"copy-kubeconfig.conf"}))
                       /\ e = ign.units[n].enabled /\ y = ign.units[n].contents /\ d = ign.units[n].dropins
    BY <1>1 DEF isStaged
  <2>3. PICK k : k = without(d, {"copy-kubeconfig.conf"})
    OBVIOUS
  <2>4. DOMAIN k = DOMAIN d \ {"copy-kubeconfig.conf"}
    BY <2>3 DEF without
  <2>5. e = enabledBy(n) /\ y = vipUnits({})[n].contents /\ DOMAIN d \subseteq {"mine.conf", "copy-kubeconfig.conf"}
    BY <1>1, <2>2, IsUnit
  <2>6. PICK u : u = new.units[n] /\ u = unit(e, y, k)
    BY <2>2, <2>3
  <2>7. u.enabled = e /\ u.contents = y /\ u.dropins = k
    BY <2>6 DEF unit
  <2>8. DOMAIN u.dropins \subseteq {"mine.conf"}
    BY <2>4, <2>5, <2>7
  <2> QED
    BY <2>1, <2>5, <2>6, <2>7, <2>8, IsUnit
<1>3. \A n \in RefreshUnits : n \in DOMAIN new.units /\ isUnit(n, new.units[n], {"mine.conf"})
  <2> TAKE n \in RefreshUnits
  <2>1. n \in DOMAIN new.units
    BY DEF isStaged
  <2>2. CASE n \in DOMAIN ign.units
    <3>1. PICK e, d : /\ new.units[n] = unit(e, vipUnits({})[n].contents, Nothing @@ d)
                      /\ e = ign.units[n].enabled /\ d = ign.units[n].dropins
      BY <2>2 DEF isStaged
    <3>2. PICK k : k = Nothing @@ d
      OBVIOUS
    <3>3. DOMAIN k = DOMAIN d
      BY <3>2, AddsNothing DEF sameEntries
    <3>4. isUnit(n, ign.units[n], {"mine.conf"})
      BY <2>2, StageStarts
    <3>5. e = enabledBy(n) /\ DOMAIN d \subseteq {"mine.conf"}
      BY <3>1, <3>4, IsUnit
    <3>6. PICK u : u = new.units[n] /\ u = unit(e, vipUnits({})[n].contents, k)
      BY <3>1, <3>2
    <3>7. u.enabled = e /\ u.contents = vipUnits({})[n].contents /\ u.dropins = k
      BY <3>6 DEF unit
    <3> QED
      BY <2>1, <3>3, <3>5, <3>6, <3>7, IsUnit
  <2>3. CASE n \notin DOMAIN ign.units
    <3>1. PICK u : u = new.units[n] /\ u = unit("unset", vipUnits({})[n].contents, Nothing)
      BY <2>3 DEF isStaged
    <3>2. enabledBy(n) = "unset"
      BY <2>3, StageStarts
    <3>3. u.enabled = "unset" /\ u.contents = vipUnits({})[n].contents /\ DOMAIN u.dropins = {}
      BY <3>1, WellFormedNew DEF unit
    <3> QED
      BY <2>1, <3>1, <3>2, <3>3, IsUnit
  <2> QED
    BY <2>2, <2>3
<1>4. DOMAIN theUnits = MainUnits \cup RefreshUnits
  BY VipUnits DEF MainUnits, RefreshUnits, theUnits
<1>5. current(new)
  <2>1. /\ retiredFiles \cap DOMAIN new.files = {}
        /\ "check_apiserver.sh" \in DOMAIN new.files
        /\ new.files["check_apiserver.sh"] = GenerateKeepalivedCheckScript(apiPort, virtualIp)
        /\ "nginx-refresh" \notin DOMAIN new.directories
    BY DEF isStaged, retiredFiles
  <2> QED
    BY <2>1, <1>2, <1>3, <1>4 DEF current
<1>6. hasUnits(new)
  <2>1. \A n \in MainUnits : isUnit(n, new.units[n], {"mine.conf", "copy-kubeconfig.conf"})
    <3> TAKE n \in MainUnits
    <3>1. isUnit(n, new.units[n], {"mine.conf"})
      BY <1>2
    <3>2. {"mine.conf"} \subseteq {"mine.conf", "copy-kubeconfig.conf"}
      OBVIOUS
    <3> QED
      BY <3>1, <3>2, IsUnit
  <2> QED
    BY <2>1, <1>2, <1>3, StageStarts
<1>7. ASSUME kept(ign) PROVE kept(new)
  <2>1. "mine" \in DOMAIN new.files
    BY <1>7 DEF kept, isStaged, retiredFiles
  <2>2. "keepalived.service" \in DOMAIN new.units
    BY <1>2 DEF MainUnits
  <2>3. PICK e, y, d : /\ new.units["keepalived.service"] = unit(e, y, without(d, {"copy-kubeconfig.conf"}))
                       /\ d = ign.units["keepalived.service"].dropins
    BY <1>1 DEF isStaged, MainUnits
  <2>4. PICK k : k = without(d, {"copy-kubeconfig.conf"})
    OBVIOUS
  <2>5. "mine.conf" \in DOMAIN k
    BY <2>3, <2>4, <1>7 DEF without, kept
  <2>6. new.units["keepalived.service"] = unit(e, y, k)
    BY <2>3, <2>4
  <2> QED
    BY <2>1, <2>2, <2>5, <2>6 DEF kept, unit
<1> QED
  BY <1>5, <1>6, <1>7

\* All comparisons of a configuration with one that has the same entries.
sameLists(a, b) ==
    /\ sameEntries(a.files, b.files) /\ sameEntries(a.directories, b.directories)
    /\ sameEntries(a.links, b.links) /\ sameEntries(a.disks, b.disks)
    /\ sameEntries(a.raid, b.raid) /\ sameEntries(a.filesystems, b.filesystems)
    /\ sameEntries(a.users, b.users) /\ sameEntries(a.groups, b.groups)
    /\ sameEntries(a.units, b.units)
LEMMA SameCompare == ASSUME NEW a, NEW b, sameLists(a, b) PROVE Compare(a, b)
<1>1. \A f, g : sameEntries(f, g) => sameByKey(f, g)
  BY DEF sameEntries, sameByKey
<1>2. \A f, g : sameEntries(f, g) => compareUnitDropins(f, g)
  BY DEF sameEntries, compareUnitDropins, sameByKey
<1> QED
  BY <1>1, <1>2 DEF sameLists, Compare, compareStorage, compareSystemd, comparePasswd,
     compareDirectories, compareFiles, compareLinks, compareDisks, compareRaid, compareFilesystems,
     compareUnits, compareUsers, compareGroups

\* Stage finds nothing to change in what it has made.
LEMMA StagedTwice ==
    ASSUME NEW ign, hasUnits(ign), NEW new, isStaged(new, ign), NEW again, isStaged(again, new)
    PROVE  Compare(again, new)
<1>1. sameEntries(again.files, new.files) /\ sameEntries(again.directories, new.directories)
  BY DEF isStaged, sameEntries
<1>2. /\ sameEntries(again.links, new.links) /\ sameEntries(again.disks, new.disks)
      /\ sameEntries(again.raid, new.raid) /\ sameEntries(again.filesystems, new.filesystems)
      /\ sameEntries(again.users, new.users) /\ sameEntries(again.groups, new.groups)
  BY DEF isStaged
<1>3. MainUnits \subseteq DOMAIN ign.units /\ MainUnits \cap RefreshUnits = {}
  BY StageStarts DEF MainUnits, RefreshUnits
<1>4. DOMAIN new.units = DOMAIN ign.units \cup RefreshUnits /\ DOMAIN again.units = DOMAIN new.units
  BY DEF isStaged
<1>5. \A n \in MainUnits : again.units[n] = new.units[n]
  <2> TAKE n \in MainUnits
  <2>1. PICK e, y, d : new.units[n] = unit(e, y, without(d, {"copy-kubeconfig.conf"}))
    BY <1>3 DEF isStaged
  <2>2. PICK k : k = without(d, {"copy-kubeconfig.conf"})
    OBVIOUS
  <2>3. new.units[n] = unit(e, y, k)
    BY <2>1, <2>2
  <2>4. new.units[n].enabled = e /\ new.units[n].contents = y /\ new.units[n].dropins = k
    BY <2>3 DEF unit
  <2>5. again.units[n] = unit(e, y, without(k, {"copy-kubeconfig.conf"}))
    BY <1>3, <1>4, <2>4 DEF isStaged
  <2>6. without(k, {"copy-kubeconfig.conf"}) = k
    BY <2>2 DEF without
  <2> QED
    BY <2>3, <2>5, <2>6
<1>6. \A n \in RefreshUnits : again.units[n] = new.units[n]
  <2> TAKE n \in RefreshUnits
  <2>1. PICK c : c = vipUnits({})[n].contents
    OBVIOUS
  <2>2. PICK e, d : new.units[n] = unit(e, c, Nothing @@ d) \/ new.units[n] = unit(e, c, Nothing)
    BY <2>1 DEF isStaged
  <2>4. PICK j : j \in {Nothing, Nothing @@ d} /\ new.units[n] = unit(e, c, j)
    BY <2>2
  <2>5. new.units[n].enabled = e /\ new.units[n].dropins = j
    BY <2>4 DEF unit
  <2>6. again.units[n] = unit(e, c, Nothing @@ j)
    BY <1>4, <2>1, <2>5 DEF isStaged
  <2>7. Nothing @@ j = j
    <3>1. j = [x \in DOMAIN j |-> j[x]]
      <4>1. isJoined(Nothing @@ d, Nothing, d)
        BY Joined
      <4>2. Nothing = [x \in DOMAIN Nothing |-> Nothing[x]]
        BY DEF Nothing
      <4> QED
        BY <2>4, <4>1, <4>2 DEF isJoined
    <3>2. PICK l : l = Nothing @@ j
      OBVIOUS
    <3>3. isJoined(l, Nothing, j)
      BY <3>2, Joined
    <3>4. DOMAIN l = DOMAIN j /\ \A x \in DOMAIN j : l[x] = j[x]
      BY <3>3, WellFormedNew DEF isJoined
    <3>5. l = [x \in DOMAIN l |-> l[x]]
      BY <3>3 DEF isJoined
    <3> QED
      BY <3>1, <3>2, <3>4, <3>5
  <2> QED
    BY <2>4, <2>6, <2>7
<1>7. \A n \in DOMAIN new.units \ (MainUnits \cup RefreshUnits) : again.units[n] = new.units[n]
  BY DEF isStaged
<1>8. sameEntries(again.units, new.units)
  BY <1>4, <1>5, <1>6, <1>7 DEF sameEntries
<1> QED
  BY <1>1, <1>2, <1>8, SameCompare DEF sameLists

\* What is to be left as it is is up to date.
LEMMA SettledIsCurrent ==
    ASSUME NEW ign, wellFormed(ign), hasUnits(ign), settled(ign)
    PROVE  current(ign)
<1>1. PICK new : new = controlPlaneIgnitionPatches(ign, apiPort, virtualIp).ign
  OBVIOUS
<1>2. MainUnits \subseteq DOMAIN ign.units
  BY StageStarts
<1>3. isStaged(new, ign) /\ Compare(new, ign)
  BY <1>1, <1>2, Staged
<1>4. current(new)
  BY <1>3, StagedIs
<1>5. sameByKey(new.files, ign.files) /\ sameByKey(new.directories, ign.directories) /\ sameByKey(new.units, ign.units)
  BY <1>3 DEF Compare, compareStorage, compareSystemd, compareDirectories, compareFiles, compareUnits
<1>6. ASSUME NEW f, NEW g, sameByKey(f, g), IsFiniteSet(DOMAIN g) PROVE sameEntries(f, g)
  <2>1. DOMAIN f \subseteq DOMAIN g /\ Cardinality(DOMAIN f) = Cardinality(DOMAIN g)
    BY <1>6 DEF sameByKey
  <2>2. DOMAIN f = DOMAIN g
    BY <1>6, <2>1, FS_Subset
  <2> QED
    BY <1>6, <2>2 DEF sameByKey, sameEntries
<1>7. sameEntries(new.files, ign.files) /\ sameEntries(new.directories, ign.directories) /\ sameEntries(new.units, ign.units)
  BY <1>5, <1>6 DEF wellFormed
<1> QED
  BY <1>4, <1>7 DEF current, sameEntries

\* All that an application of a patch needs of the ignition in it.
LEMMA NewIgnitionIs ==
    ASSUME NEW ign, wellFormed(ign), hasUnits(ign),
           NEW new, new = controlPlaneIgnitionPatches(ign, apiPort, virtualIp).ign
    PROVE  /\ wellFormed(new) /\ hasUnits(new) /\ current(new) /\ settled(new)
           /\ kept(ign) => kept(new)
<1>1. MainUnits \subseteq DOMAIN ign.units
  BY StageStarts
<1>2. wellFormed(new) /\ isStaged(new, ign)
  BY <1>1, Staged
<1>3. current(new) /\ hasUnits(new) /\ (kept(ign) => kept(new))
  BY <1>2, StagedIs
<1>4. PICK again : again = controlPlaneIgnitionPatches(new, apiPort, virtualIp).ign
  OBVIOUS
<1>5. MainUnits \subseteq DOMAIN new.units
  BY <1>3, StageStarts
<1>6. isStaged(again, new) /\ (settled(new) <=> Compare(again, new))
  BY <1>2, <1>4, <1>5, Staged
<1> QED
  BY <1>2, <1>3, <1>6, StagedTwice

\* The ignition that older ones made: Stage can bring it up to date.
LEMMA Before ==
    ASSUME world.made # "now"
    PROVE  wellFormed(ignitionBefore) /\ hasUnits(ignitionBefore)
<1>1. PICK a : a = getExtraIgnition
  OBVIOUS
<1>2. wellFormed(a) /\ \A n \in DOMAIN vipUnits({}) : n \in DOMAIN a.units /\ a.units[n] = vipUnits({})[n]
  BY <1>1, ExtraIgnition
<1>3. PICK w : w = without(a.units, {"keepalived-refresh.path", "ocne-nginx-refresh.path"})
  OBVIOUS
<1>4. /\ DOMAIN w = DOMAIN a.units \ {"keepalived-refresh.path", "ocne-nginx-refresh.path"}
      /\ \A n \in DOMAIN w : w[n] = a.units[n]
  BY <1>3 DEF without
<1>5. PICK b : b = [a EXCEPT !.units = w]
  OBVIOUS
<1>6. b = ignitionBefore
  BY <1>1, <1>3, <1>5 DEF ignitionBefore
<1>7. IsFiniteSet(DOMAIN w)
  BY <1>2, <1>4, FS_Subset DEF wellFormed
<1>8. \A n \in DOMAIN w : LET u == w[n] IN u = unit(u.enabled, u.contents, u.dropins)
  BY <1>2, <1>4 DEF wellFormed
<1>9. wellFormed(b) /\ b.units = w
  BY <1>2, <1>5, <1>7, <1>8, WithUnits
<1>10. /\ MainUnits \cup RefreshUnits \subseteq DOMAIN a.units
       /\ pathUnits = {"keepalived-refresh.path", "ocne-nginx-refresh.path"} /\ MainUnits \cap pathUnits = {}
  BY <1>2, VipUnits DEF MainUnits, RefreshUnits, pathUnits
<1>11. \A n \in (MainUnits \cup RefreshUnits) \cap DOMAIN w :
           w[n].enabled = "yes" /\ w[n].contents = vipUnits({})[n].contents /\ DOMAIN w[n].dropins = {}
  <2> TAKE n \in (MainUnits \cup RefreshUnits) \cap DOMAIN w
  <2>1. w[n] = vipUnits({})[n]
    BY <1>2, <1>4, VipUnits DEF MainUnits, RefreshUnits
  <2>2. vipUnits({})[n].enabled = "yes" /\ vipUnits({})[n].dropins = Nothing
    BY VipUnits DEF MainUnits, RefreshUnits, unit
  <2> QED
    BY <2>1, <2>2, WellFormedNew
<1>12. \A n \in (MainUnits \cup RefreshUnits) \cap DOMAIN w : \A S : isUnit(n, w[n], S)
  <2> TAKE n \in (MainUnits \cup RefreshUnits) \cap DOMAIN w
  <2>1. enabledBy(n) = "yes"
    BY <1>4, <1>10, IsUnit
  <2> QED
    BY <1>11, <2>1, IsUnit
<1>13. \A n \in RefreshUnits \ DOMAIN w : enabledBy(n) = "unset"
  BY <1>4, <1>10, IsUnit
<1>14. hasUnits(b)
  BY <1>4, <1>9, <1>10, <1>12, <1>13, StageStarts
<1> QED
  BY <1>6, <1>9, <1>14

LEMMA LongAgo ==
    ASSUME world.made # "now"
    PROVE  wellFormed(ignitionLongAgo) /\ hasUnits(ignitionLongAgo)
<1>1. PICK b : b = ignitionBefore
  OBVIOUS
<1>2. wellFormed(b) /\ hasUnits(b)
  BY <1>1, Before
<1>3. PICK copying : copying = ("copy-kubeconfig.conf" :> <<"copy">>)
  OBVIOUS
<1>4. PICK f1 : f1 = ("check_apiserver.sh" :> <<"old">>)
  OBVIOUS
<1>5. PICK f2 : f2 = [f \in retiredFiles |-> <<f>>]
  OBVIOUS
<1>6. PICK f3 : f3 = f1 @@ f2
  OBVIOUS
<1>7. PICK f4 : f4 = f3 @@ b.files
  OBVIOUS
<1>8. PICK d1 : d1 = ("nginx-refresh" :> TRUE)
  OBVIOUS
<1>9. PICK d2 : d2 = d1 @@ b.directories
  OBVIOUS
<1>10. PICK u1 : u1 = ("keepalived.service" :> unit("yes", <<>>, copying))
  OBVIOUS
<1>11. PICK u2 : u2 = ("ocne-nginx.service" :> unit("yes", <<"nginx">>, copying))
  OBVIOUS
<1>12. PICK u3 : u3 = u1 @@ u2
  OBVIOUS
<1>13. PICK u4 : u4 = u3 @@ b.units
  OBVIOUS
<1>14. PICK i1 : i1 = [b EXCEPT !.files = f4]
  OBVIOUS
<1>15. PICK i2 : i2 = [i1 EXCEPT !.directories = d2]
  OBVIOUS
<1>16. PICK i3 : i3 = [i2 EXCEPT !.units = u4]
  OBVIOUS
<1>17. i3 = ignitionLongAgo
  <2>1. i3 = [b EXCEPT !.files = f4, !.directories = d2, !.units = u4]
    BY <1>14, <1>15, <1>16, SMT
  <2>2. ignitionLongAgo = [b EXCEPT !.files = f4, !.directories = d2, !.units = u4]
    BY <1>1, <1>3, <1>4, <1>5, <1>6, <1>7, <1>8, <1>9, <1>10, <1>11, <1>12, <1>13 DEF ignitionLongAgo
  <2> QED
    BY <2>1, <2>2
<1>18. DOMAIN f1 = {"check_apiserver.sh"} /\ DOMAIN f2 = retiredFiles /\ DOMAIN d1 = {"nginx-refresh"}
  BY <1>4, <1>5, <1>8, One
<1>19. \A f, g : DOMAIN (f @@ g) = DOMAIN f \cup DOMAIN g
  BY Joined DEF isJoined
<1>20. /\ DOMAIN f4 = (DOMAIN f1 \cup DOMAIN f2) \cup DOMAIN b.files
       /\ DOMAIN d2 = DOMAIN d1 \cup DOMAIN b.directories
  <2>1. DOMAIN (f1 @@ f2) = DOMAIN f1 \cup DOMAIN f2
    BY <1>19, Zenon
  <2>2. DOMAIN (f3 @@ b.files) = DOMAIN f3 \cup DOMAIN b.files
    BY <1>19, Zenon
  <2>3. DOMAIN (d1 @@ b.directories) = DOMAIN d1 \cup DOMAIN b.directories
    BY <1>19, Zenon
  <2> QED
    BY <1>6, <1>7, <1>9, <2>1, <2>2, <2>3, Zenon
<1>21. IsFiniteSet(DOMAIN f4) /\ IsFiniteSet(DOMAIN d2)
  <2>1. \A x : IsFiniteSet({x})
    BY FS_Singleton
  <2>2. \A S, T : IsFiniteSet(S) /\ IsFiniteSet(T) => IsFiniteSet(S \cup T)
    BY FS_Union
  <2>3. IsFiniteSet(DOMAIN f1) /\ IsFiniteSet(DOMAIN f2) /\ IsFiniteSet(DOMAIN d1)
    BY <1>18, <2>1, VipFinite
  <2>4. IsFiniteSet(DOMAIN b.files) /\ IsFiniteSet(DOMAIN b.directories)
    BY <1>2 DEF wellFormed
  <2>5. IsFiniteSet((DOMAIN f1 \cup DOMAIN f2) \cup DOMAIN b.files)
    BY <2>2, <2>3, <2>4, Zenon
  <2>6. IsFiniteSet(DOMAIN d1 \cup DOMAIN b.directories)
    BY <2>2, <2>3, <2>4, Zenon
  <2> QED
    BY <1>20, <2>5, <2>6
<1>22. DOMAIN u1 = {"keepalived.service"} /\ u1["keepalived.service"] = unit("yes", <<>>, copying)
  BY <1>10, One
<1>23. DOMAIN u2 = {"ocne-nginx.service"} /\ u2["ocne-nginx.service"] = unit("yes", <<"nginx">>, copying)
  BY <1>11, One
<1>24. isJoined(u3, u1, u2) /\ isJoined(u4, u3, b.units)
  BY <1>12, <1>13, Joined
<1>25. MainUnits \subseteq DOMAIN b.units /\ MainUnits \cap RefreshUnits = {}
  BY <1>2, StageStarts DEF MainUnits, RefreshUnits
<1>26. /\ DOMAIN u4 = DOMAIN b.units
       /\ u4["keepalived.service"] = unit("yes", <<>>, copying)
       /\ u4["ocne-nginx.service"] = unit("yes", <<"nginx">>, copying)
       /\ \A n \in DOMAIN b.units \ MainUnits : u4[n] = b.units[n]
  BY <1>22, <1>23, <1>24, <1>25 DEF isJoined, MainUnits
<1>27. IsFiniteSet(DOMAIN u4)
  BY <1>2, <1>26 DEF wellFormed
<1>28. \A n \in DOMAIN u4 : LET u == u4[n] IN u = unit(u.enabled, u.contents, u.dropins)
  <2>1. \A n \in MainUnits : LET u == u4[n] IN u = unit(u.enabled, u.contents, u.dropins)
    BY <1>26 DEF MainUnits, unit
  <2>2. \A n \in DOMAIN b.units : LET u == b.units[n] IN u = unit(u.enabled, u.contents, u.dropins)
    BY <1>2 DEF wellFormed
  <2> QED
    BY <1>26, <2>1, <2>2
<1>29. wellFormed(i1) /\ i1.units = b.units
  BY <1>2, <1>14, <1>21, WithFiles
<1>30. wellFormed(i2)
  BY <1>15, <1>21, <1>29, WithDirectories
<1>31. wellFormed(i3) /\ i3.units = u4
  BY <1>16, <1>27, <1>28, <1>30, WithUnits
<1>32. DOMAIN copying = {"copy-kubeconfig.conf"}
  BY <1>3, One
<1>33. \A n \in MainUnits : n \in DOMAIN u4 /\ isUnit(n, u4[n], {"mine.conf", "copy-kubeconfig.conf"})
  <2> TAKE n \in MainUnits
  <2>1. u4[n].enabled = "yes" /\ u4[n].contents = vipUnits({})[n].contents /\ u4[n].dropins = copying
    BY <1>26, VipUnits DEF MainUnits, unit
  <2>2. enabledBy(n) = "yes"
    BY IsUnit DEF MainUnits, pathUnits
  <2>3. DOMAIN u4[n].dropins \subseteq {"mine.conf", "copy-kubeconfig.conf"}
    BY <1>32, <2>1
  <2> QED
    BY <1>25, <1>26, <2>1, <2>2, <2>3, IsUnit
<1>34. \A n \in RefreshUnits :
           IF n \in DOMAIN u4 THEN isUnit(n, u4[n], {"mine.conf"}) ELSE enabledBy(n) = "unset"
  BY <1>2, <1>25, <1>26, StageStarts
<1>35. hasUnits(i3)
  BY <1>31, <1>33, <1>34, StageStarts
<1> QED
  BY <1>17, <1>31, <1>35

\* What a start gives to a control plane.
LEMMA MadeBy ==
    ASSUME TypeInv
    PROVE  /\ wellFormed(madeBy.ign) /\ hasUnits(madeBy.ign)
           /\ madeBy.join \subseteq prepared
           /\ "patches" \in madeBy.join => madeBy.join = prepared
<1>1. world.made \in {"now", "before", "long ago"}
  BY WorldType
<1>2. ASSUME world.made = "now" PROVE hasUnits(getExtraIgnition)
  <2>1. PICK a : a = getExtraIgnition
    OBVIOUS
  <2>2. \A n \in MainUnits \cup RefreshUnits : n \in DOMAIN a.units /\ a.units[n] = vipUnits({})[n]
    BY <2>1, ExtraIgnition, VipUnits DEF MainUnits, RefreshUnits
  <2>3. \A n \in MainUnits \cup RefreshUnits : vipUnits({})[n].enabled = "yes" /\ vipUnits({})[n].dropins = Nothing
    BY VipUnits DEF unit, RefreshUnits, MainUnits
  <2>4. \A n \in MainUnits \cup RefreshUnits : \A S : isUnit(n, a.units[n], S)
    <3> TAKE n \in MainUnits \cup RefreshUnits
    <3>1. enabledBy(n) = "yes"
      BY <1>2, IsUnit
    <3>2. DOMAIN a.units[n].dropins = {}
      BY <2>2, <2>3, WellFormedNew
    <3> QED
      BY <2>2, <2>3, <3>1, <3>2, IsUnit
  <2> QED
    BY <2>1, <2>2, <2>4, StageStarts
<1>3. CASE world.made = "now"
  <2>1. madeBy = [ign |-> getExtraIgnition, join |-> {"patches", "preflight"}]
    BY <1>3 DEF madeBy
  <2>2. madeBy.ign = getExtraIgnition /\ madeBy.join = {"patches", "preflight"}
    BY <2>1
  <2> QED
    BY <2>2, <1>2, <1>3, ExtraIgnition DEF prepared
<1>4. CASE world.made = "before"
  <2>1. madeBy = [ign |-> ignitionBefore, join |-> {"preflight"}]
    BY <1>4 DEF madeBy
  <2>2. madeBy.ign = ignitionBefore /\ madeBy.join = {"preflight"}
    BY <2>1
  <2> QED
    BY <1>4, <2>2, Before DEF prepared
<1>5. CASE world.made = "long ago"
  <2>1. madeBy = [ign |-> ignitionLongAgo, join |-> {}]
    BY <1>5 DEF madeBy
  <2>2. madeBy.ign = ignitionLongAgo /\ madeBy.join = {}
    BY <2>1
  <2> QED
    BY <1>5, <2>2, LongAgo DEF prepared
<1> QED
  BY <1>1, <1>3, <1>4, <1>5

\* What Edit gives to a control plane.
userIgnition ==
    AddUnit(AddFile(NewIgnition, "mine", <<"mine">>),
            "keepalived.service", unit("unset", <<>>, "mine.conf" :> <<"mine">>))
LEMMA UserIgnition ==
    /\ wellFormed(userIgnition)
    /\ DOMAIN userIgnition.files = {"mine"} /\ DOMAIN userIgnition.directories = {}
    /\ DOMAIN userIgnition.units = {"keepalived.service"}
    /\ \E d : /\ userIgnition.units["keepalived.service"] = unit("unset", <<>>, d)
              /\ DOMAIN d = {"mine.conf"}
<1>1. PICK x : x = AddFile(NewIgnition, "mine", <<"mine">>)
  OBVIOUS
<1>2. PICK f : f = Nothing @@ ("mine" :> <<"mine">>)
  OBVIOUS
<1>3. PICK n : n = NewIgnition
  OBVIOUS
<1>4. wellFormed(n) /\ n.files = Nothing /\ n.directories = Nothing /\ n.units = Nothing /\ DOMAIN Nothing = {}
  BY <1>3, WellFormedNew
<1>5. x = [n EXCEPT !.files = f]
  BY <1>1, <1>2, <1>3, <1>4 DEF AddFile
<1>6. isExtended(f, Nothing, "mine", <<"mine">>)
  BY <1>2, Extended
<1>7. DOMAIN f = {"mine"}
  BY <1>4, <1>6 DEF isExtended
<1>8. IsFiniteSet(DOMAIN f)
  BY <1>7, FS_Singleton
<1>9. wellFormed(x) /\ x.files = f /\ x.directories = Nothing /\ x.units = Nothing
  BY <1>4, <1>5, <1>8, WithFiles
<1>10. PICK d : d = ("mine.conf" :> <<"mine">>)
  OBVIOUS
<1>11. DOMAIN d = {"mine.conf"}
  BY <1>10, One
<1>12. PICK u : u = ("keepalived.service" :> unit("unset", <<>>, d))
  OBVIOUS
<1>13. DOMAIN u = {"keepalived.service"} /\ u["keepalived.service"] = unit("unset", <<>>, d)
  BY <1>12, One
<1>14. \A k \in DOMAIN u : LET y == u[k] IN y = unit(y.enabled, y.contents, y.dropins)
  BY <1>13 DEF unit
<1>15. IsFiniteSet(DOMAIN u)
  BY <1>13, FS_Singleton
<1>16. PICK y : y = [NewIgnition EXCEPT !.units = u]
  OBVIOUS
<1>17. shape(y, {}, DOMAIN u) /\ y.units = u /\ y.files = Nothing /\ y.directories = Nothing
  <2>1. y = [n EXCEPT !.units = u]
    BY <1>3, <1>16
  <2>2. wellFormed(y) /\ y.files = Nothing /\ y.directories = Nothing /\ y.units = u
    BY <2>1, <1>4, <1>14, <1>15, WithUnits
  <2> QED
    BY <2>2, <1>4 DEF shape
<1>18. PICK z : z = Merge(x, y)
  OBVIOUS
<1>19. z = userIgnition
  BY <1>1, <1>10, <1>12, <1>16, <1>18 DEF userIgnition, AddUnit
<1>20. /\ wellFormed(z) /\ z.files = y.files @@ x.files /\ z.directories = y.directories @@ x.directories
       /\ MergedUnits(z.units, x.units, y.units)
  BY <1>9, <1>17, <1>18, Merged DEF shape
<1>21. sameEntries(z.files, f) /\ sameEntries(z.directories, Nothing)
  BY <1>9, <1>17, <1>20, AddsNothing
<1>22. DOMAIN z.units = {"keepalived.service"} /\ z.units["keepalived.service"] = unit("unset", <<>>, d)
  BY <1>4, <1>9, <1>13, <1>17, <1>20 DEF MergedUnits
<1> QED
  BY <1>4, <1>7, <1>11, <1>19, <1>20, <1>21, <1>22 DEF sameEntries

\* A user's change can be told from the rest, and Stage can start from it.
LEMMA EditIs ==
    ASSUME NEW ign, wellFormed(ign), hasUnits(ign), NEW new, new = Merge(ign, userIgnition)
    PROVE  wellFormed(new) /\ hasUnits(new) /\ kept(new) /\ (current(ign) => current(new))
<1>1. PICK e : e = userIgnition
  OBVIOUS
<1>2. /\ wellFormed(e) /\ DOMAIN e.files = {"mine"} /\ DOMAIN e.directories = {}
      /\ DOMAIN e.units = {"keepalived.service"}
  BY <1>1, UserIgnition
<1>3. PICK d : e.units["keepalived.service"] = unit("unset", <<>>, d) /\ DOMAIN d = {"mine.conf"}
  BY <1>1, UserIgnition
<1>4. /\ wellFormed(new) /\ new.files = e.files @@ ign.files /\ new.directories = e.directories @@ ign.directories
      /\ MergedUnits(new.units, ign.units, e.units)
  BY <1>1, <1>2, Merged
<1>5. isJoined(new.files, e.files, ign.files) /\ isJoined(new.directories, e.directories, ign.directories)
  BY <1>4, Joined
<1>6. DOMAIN new.directories = DOMAIN ign.directories
  BY <1>2, <1>5 DEF isJoined
<1>7. /\ DOMAIN new.files = DOMAIN ign.files \cup {"mine"}
      /\ \A k \in DOMAIN ign.files : k # "mine" => new.files[k] = ign.files[k]
  BY <1>2, <1>5 DEF isJoined
<1>8. MainUnits \subseteq DOMAIN ign.units /\ MainUnits \cap RefreshUnits = {}
      /\ \A n \in MainUnits : isUnit(n, ign.units[n], {"mine.conf", "copy-kubeconfig.conf"})
  BY StageStarts DEF MainUnits, RefreshUnits
<1>9. DOMAIN new.units = DOMAIN ign.units /\ \A n \in DOMAIN ign.units : n # "keepalived.service" => new.units[n] = ign.units[n]
  BY <1>2, <1>4, <1>8 DEF MergedUnits, MainUnits
<1>10. PICK a : a = ign.units["keepalived.service"]
  OBVIOUS
<1>11. PICK k : k = d @@ a.dropins
  OBVIOUS
<1>12. new.units["keepalived.service"] = unit(a.enabled, a.contents, k)
  <2>1. new.units["keepalived.service"] = mergeUnit(a, unit("unset", <<>>, d))
    BY <1>2, <1>3, <1>4, <1>8, <1>10 DEF MergedUnits, MainUnits
  <2>2. mergeUnit(a, unit("unset", <<>>, d)) = unit(a.enabled, a.contents, k)
    BY <1>11 DEF mergeUnit, unit
  <2> QED
    BY <2>1, <2>2
<1>13. isJoined(k, d, a.dropins)
  BY <1>11, Joined
<1>14. DOMAIN k = {"mine.conf"} \cup DOMAIN a.dropins
  BY <1>3, <1>13 DEF isJoined
<1>15. /\ new.units["keepalived.service"].enabled = a.enabled
       /\ new.units["keepalived.service"].contents = a.contents
       /\ DOMAIN new.units["keepalived.service"].dropins = {"mine.conf"} \cup DOMAIN a.dropins
  BY <1>12, <1>14 DEF unit
<1>15a. ASSUME NEW n \in MainUnits \cup RefreshUnits, n \in DOMAIN ign.units,
               NEW S, "mine.conf" \in S, isUnit(n, ign.units[n], S)
        PROVE  isUnit(n, new.units[n], S)
  <2>1. CASE n # "keepalived.service"
    BY <1>9, <1>15a, <2>1
  <2>2. CASE n = "keepalived.service"
    <3>1. a.enabled = enabledBy(n) /\ a.contents = vipUnits({})[n].contents /\ DOMAIN a.dropins \subseteq S
      BY <1>10, <1>15a, <2>2, IsUnit
    <3> QED
      BY <1>15, <1>15a, <2>2, <3>1, IsUnit
  <2> QED
    BY <2>1, <2>2
<1>16. hasUnits(new)
  <2>1. \A n \in MainUnits : n \in DOMAIN new.units /\ isUnit(n, new.units[n], {"mine.conf", "copy-kubeconfig.conf"})
    BY <1>8, <1>9, <1>15a
  <2>2. \A n \in RefreshUnits : IF n \in DOMAIN new.units THEN isUnit(n, new.units[n], {"mine.conf"})
                                ELSE enabledBy(n) = "unset"
    BY <1>9, <1>15a, StageStarts
  <2> QED
    BY <2>1, <2>2, StageStarts
<1>17. kept(new)
  BY <1>7, <1>8, <1>9, <1>15 DEF kept, MainUnits
<1>18. ASSUME current(ign) PROVE current(new)
  <2>1. /\ retiredFiles \cap DOMAIN new.files = {}
        /\ "nginx-refresh" \notin DOMAIN new.directories
        /\ "check_apiserver.sh" \in DOMAIN new.files
        /\ new.files["check_apiserver.sh"] = GenerateKeepalivedCheckScript(apiPort, virtualIp)
    BY <1>6, <1>7, <1>18 DEF current, retiredFiles
  <2>2. ASSUME NEW n \in DOMAIN theUnits
        PROVE  n \in DOMAIN new.units /\ isUnit(n, new.units[n], {"mine.conf"})
    <3>1. n \in MainUnits \cup RefreshUnits
      BY VipUnits DEF MainUnits, RefreshUnits, theUnits
    <3> QED
      BY <1>9, <1>15a, <1>18, <3>1 DEF current
  <2> QED
    BY <2>1, <2>2 DEF current
<1> QED
  BY <1>4, <1>16, <1>17, <1>18

-----------------------------------------------------------------------------
(* Control planes                                                           *)

\* The steps that change a control plane's ignition or join configuration.
LEMMA ControlPlaneSteps ==
    ASSUME [Next]_vars
    PROVE  \/ UNCHANGED <<kcp, edited>>
           \/ \E c \in Clusters : GetTemplate(c) /\ UNCHANGED edited
           \/ \E p \in patches : Apply(p) /\ UNCHANGED edited
           \/ \E c \in Clusters : Edit(c) /\ UNCHANGED patches
<1>1. ASSUME NEW c \in Clusters, Work(c), ~GetTemplate(c) PROVE UNCHANGED <<kcp, edited>>
  BY <1>1 DEF Work, storeVars,
     EnsureImage, UploadOci, WaitForWorkRequests, CreateEFIImageSchema,
     EnsureCompatibleImageShapes, DetailsDone, PatchControlPlane, FindUpdates, StageImage,
     StageVMTemplates, CreateTemplates, CreateRefused, TemplatesDone, HelpMessages
<1>2. ASSUME NEW c \in Clusters, Fault(c) PROVE UNCHANGED <<kcp, edited>>
  BY <1>2 DEF Fault, fail, storeVars
<1>3. ASSUME NEW c \in Clusters, NEW kind, NEW v, Begin(c, kind, v) PROVE UNCHANGED <<kcp, edited>>
  BY <1>3 DEF Begin, storeVars
<1>4. ASSUME NEW v, Release(v) PROVE UNCHANGED <<kcp, edited>>
  BY <1>4 DEF Release
<1>5. ASSUME Imports PROVE UNCHANGED <<kcp, edited>>
  BY <1>5 DEF Imports, Import
<1>6. ASSUME UNCHANGED vars PROVE UNCHANGED <<kcp, edited>>
  BY <1>6 DEF vars, storeVars
<1>7. ASSUME NEW c, GetTemplate(c) PROVE UNCHANGED edited
  BY <1>7 DEF GetTemplate
<1>8. ASSUME NEW p, Apply(p) PROVE UNCHANGED edited
  BY <1>8 DEF Apply
<1>9. ASSUME NEW c, Edit(c) PROVE UNCHANGED patches
  BY <1>9 DEF Edit
<1> QED
  BY <1>1, <1>2, <1>3, <1>4, <1>5, <1>6, <1>7, <1>8, <1>9 DEF Next

\* What Apply does to a control plane.
LEMMA AppliedKcp ==
    ASSUME StageInv, TypeInv, FitInv, NEW p \in patches, Apply(p)
    PROVE  /\ \A c \in Clusters : c # p.cluster => kcp'[c] = kcp[c]
           /\ kcp'[p.cluster] = [ign |-> kcp'[p.cluster].ign, join |-> kcp'[p.cluster].join]
           /\ kcp'[p.cluster].join = kcp[p.cluster].join \cup p.join
           /\ p.ign = {} => kcp'[p.cluster].ign = kcp[p.cluster].ign
           /\ p.ign # {} => kcp'[p.cluster].ign \in p.ign
           /\ patches' = patches \ {p}
<1>1. PICK c \in Clusters : c = p.cluster
  BY DEF TypeInv
<1>2. PICK i : i = IF p.ign = {} THEN kcp[c].ign ELSE CHOOSE j \in p.ign : TRUE
  OBVIOUS
<1>3. kcp' = [kcp EXCEPT ![c] = [ign |-> i, join |-> kcp[c].join \cup p.join]]
  BY <1>1, <1>2 DEF Apply
<1>4. kcp'[c] = [ign |-> i, join |-> kcp[c].join \cup p.join] /\ \A d \in Clusters : d # c => kcp'[d] = kcp[d]
  BY <1>3, Domains
<1>5. kcp'[c].ign = i /\ kcp'[c].join = kcp[c].join \cup p.join
  BY <1>4
<1>6. p.ign = {} => i = kcp[c].ign
  BY <1>2
<1>7. p.ign # {} => i \in p.ign
  BY <1>2
<1>8. patches' = patches \ {p}
  BY DEF Apply
<1> QED
  BY <1>1, <1>4, <1>5, <1>6, <1>7, <1>8

\* What GetTemplate gives to a control plane.
LEMMA FirstKcp ==
    ASSUME StageInv, TypeInv, FitInv, NEW c \in Clusters, GetTemplate(c)
    PROVE  /\ \A d \in Clusters : d # c => kcp'[d] = kcp[d]
           /\ kcp'[c] = [ign |-> kcp'[c].ign, join |-> kcp'[c].join]
           /\ kcp'[c].join = madeBy.join
           /\ wellFormed(kcp'[c].ign) /\ (olvm(c) => hasUnits(kcp'[c].ign))
           /\ UNCHANGED patches
<1>1. PICK m : m = madeBy
  OBVIOUS
<1>2. m = [ign |-> m.ign, join |-> m.join]
  <2>1. world.made \in {"now", "before", "long ago"}
    BY WorldType
  <2> QED
    BY <1>1, <2>1 DEF madeBy
<1>3. PICK e : e = IF olvm(c) THEN m ELSE [ign |-> NewIgnition, join |-> m.join]
  OBVIOUS
<1>4. kcp' = [kcp EXCEPT ![c] = e] /\ UNCHANGED patches
  BY <1>1, <1>3 DEF GetTemplate
<1>5. kcp'[c] = e /\ \A d \in Clusters : d # c => kcp'[d] = kcp[d]
  BY <1>4, Domains
<1>6. e = [ign |-> e.ign, join |-> e.join] /\ e.join = m.join
  BY <1>2, <1>3
<1>7. wellFormed(e.ign) /\ (olvm(c) => hasUnits(e.ign))
  <2>1. CASE olvm(c)
    BY <2>1, <1>1, <1>3, MadeBy
  <2>2. CASE ~olvm(c)
    <3>1. e.ign = NewIgnition
      BY <2>2, <1>3
    <3> QED
      BY <2>2, <3>1, WellFormedNew
  <2> QED
    BY <2>1, <2>2
<1> QED
  BY <1>1, <1>4, <1>5, <1>6, <1>7

\* What Edit gives to a control plane.
LEMMA EditedKcp ==
    ASSUME StageInv, TypeInv, FitInv, IgnitionInv, NEW c \in Clusters, Edit(c)
    PROVE  /\ \A d \in Clusters : d # c => kcp'[d] = kcp[d]
           /\ kcp'[c] = [ign |-> kcp'[c].ign, join |-> kcp'[c].join]
           /\ kcp'[c].join = kcp[c].join
           /\ olvm(c) /\ started(c) /\ edited' = edited \cup {c}
           /\ wellFormed(kcp'[c].ign) /\ hasUnits(kcp'[c].ign) /\ kept(kcp'[c].ign)
           /\ current(kcp[c].ign) => current(kcp'[c].ign)
           /\ world.applies => \A p \in patches : p.cluster # c
<1>1. PICK i : i = Merge(kcp[c].ign, userIgnition)
  OBVIOUS
<1>2. kcp' = [kcp EXCEPT ![c].ign = i] /\ edited' = edited \cup {c} /\ olvm(c) /\ started(c)
      /\ (world.applies => \A p \in patches : p.cluster # c)
  BY <1>1 DEF Edit, userIgnition
<1>3. kcp[c] = [ign |-> kcp[c].ign, join |-> kcp[c].join] /\ wellFormed(kcp[c].ign) /\ hasUnits(kcp[c].ign)
  BY <1>2 DEF IgnitionInv
<1>4. PICK j, k : kcp[c] = [ign |-> j, join |-> k]
  BY <1>3
<1>5. kcp'[c] = [ign |-> i, join |-> k] /\ \A d \in Clusters : d # c => kcp'[d] = kcp[d]
  <2>1. kcp'[c] = [kcp[c] EXCEPT !.ign = i]
    BY <1>2, Domains
  <2>2. \A d \in Clusters : d # c => kcp'[d] = kcp[d]
    BY <1>2, Domains
  <2> QED
    BY <1>4, <2>1, <2>2
<1>6. kcp'[c].ign = i /\ kcp'[c].join = k /\ kcp[c].join = k
  BY <1>4, <1>5
<1>7. wellFormed(i) /\ hasUnits(i) /\ kept(i) /\ (current(kcp[c].ign) => current(i))
  BY <1>1, <1>3, EditIs
<1> QED
  BY <1>2, <1>5, <1>6, <1>7

\* The ignition that Stage of OLVM prints.
LEMMA PrintedIgnition ==
    ASSUME TypeInv, IgnitionInv, NEW c \in Clusters, started(c)
    PROVE  /\ \A ign \in newIgnition(c) :
                  /\ olvm(c) /\ wellFormed(ign) /\ hasUnits(ign) /\ current(ign) /\ settled(ign)
                  /\ kept(kcp[c].ign) => kept(ign)
           /\ olvm(c) /\ newIgnition(c) = {} => current(kcp[c].ign)
<1>1. PICK x : x = controlPlaneIgnitionPatches(kcp[c].ign, apiPort, virtualIp)
  OBVIOUS
<1>2. newIgnition(c) = IF olvm(c) /\ x.patch THEN {x.ign} ELSE {}
  BY <1>1 DEF newIgnition
<1>3. CASE olvm(c)
  <2>1. wellFormed(kcp[c].ign) /\ hasUnits(kcp[c].ign)
    BY <1>3 DEF IgnitionInv
  <2>2. /\ wellFormed(x.ign) /\ hasUnits(x.ign) /\ current(x.ign) /\ settled(x.ign)
        /\ kept(kcp[c].ign) => kept(x.ign)
    BY <1>1, <2>1, NewIgnitionIs
  <2>3. ~x.patch => current(kcp[c].ign)
    BY <1>1, <2>1, SettledIsCurrent DEF settled
  <2> QED
    BY <1>2, <1>3, <2>2, <2>3
<1>4. CASE ~olvm(c)
  BY <1>2, <1>4
<1> QED
  BY <1>3, <1>4

\* The ignition of a control plane is one that Stage can start from.
LEMMA ControlPlaneStep ==
    ASSUME StageInv, TypeInv, FitInv, IgnitionInv, [Next]_vars, NEW c \in Clusters
    PROVE  /\ kcp'[c] = [ign |-> kcp'[c].ign, join |-> kcp'[c].join]
           /\ wellFormed(kcp'[c].ign)
           /\ olvm(c) /\ started(c)' => hasUnits(kcp'[c].ign)
           /\ world.applies /\ c \in edited' => kept(kcp'[c].ign)
<1>1. /\ kcp[c] = [ign |-> kcp[c].ign, join |-> kcp[c].join]
      /\ wellFormed(kcp[c].ign)
      /\ olvm(c) /\ started(c) => hasUnits(kcp[c].ign)
      /\ world.applies /\ c \in edited => kept(kcp[c].ign)
  BY DEF IgnitionInv
<1>2. CASE GetTemplate(c)
  <2>1. c \notin edited
    BY <1>2, FirstTemplates
  <2>2. UNCHANGED edited
    BY <1>2 DEF GetTemplate
  <2> QED
    BY <1>2, <2>1, <2>2, FirstKcp
<1>3. CASE ~GetTemplate(c)
  <2>1. started(c)' <=> started(c)
    BY <1>3, StartedKept
  <2>2. CASE UNCHANGED <<kcp, edited>>
    BY <1>1, <2>1, <2>2
  <2>3. ASSUME NEW d \in Clusters, GetTemplate(d), UNCHANGED edited PROVE kcp'[c] = kcp[c] /\ edited' = edited
    BY <2>3, <1>3, FirstKcp
  <2>4. ASSUME NEW p \in patches, Apply(p), UNCHANGED edited
        PROVE  /\ kcp'[c] = [ign |-> kcp'[c].ign, join |-> kcp'[c].join]
               /\ wellFormed(kcp'[c].ign)
               /\ olvm(c) /\ started(c) => hasUnits(kcp'[c].ign)
               /\ world.applies /\ c \in edited => kept(kcp'[c].ign)
    <3>1. CASE c # p.cluster \/ p.ign = {}
      <4>1. kcp'[c] = [ign |-> kcp'[c].ign, join |-> kcp'[c].join] /\ kcp'[c].ign = kcp[c].ign
        BY <1>1, <2>4, <3>1, AppliedKcp
      <4> QED
        BY <1>1, <4>1
    <3>2. CASE c = p.cluster /\ p.ign # {}
      <4>1. kcp'[c] = [ign |-> kcp'[c].ign, join |-> kcp'[c].join] /\ kcp'[c].ign \in p.ign
        BY <2>4, <3>2, AppliedKcp
      <4> QED
        BY <3>2, <4>1 DEF IgnitionInv
    <3> QED
      BY <3>1, <3>2
  <2>5. ASSUME NEW d \in Clusters, Edit(d)
        PROVE  /\ kcp'[c] = [ign |-> kcp'[c].ign, join |-> kcp'[c].join]
               /\ wellFormed(kcp'[c].ign)
               /\ olvm(c) /\ started(c) => hasUnits(kcp'[c].ign)
               /\ world.applies /\ c \in edited' => kept(kcp'[c].ign)
    <3>1. CASE c = d
      BY <2>5, <3>1, EditedKcp
    <3>2. CASE c # d
      BY <1>1, <2>5, <3>2, EditedKcp
    <3> QED
      BY <3>1, <3>2
  <2> QED
    BY <1>1, <2>1, <2>2, <2>3, <2>4, <2>5, ControlPlaneSteps
<1> QED
  BY <1>2, <1>3

\* The ignition of a patch is up to date, and stays so.
LEMMA PatchIgnitionStep ==
    ASSUME StageInv, TypeInv, FitInv, IgnitionInv, [Next]_vars, NEW p \in patches', NEW ign \in p.ign
    PROVE  /\ olvm(p.cluster)
           /\ wellFormed(ign) /\ hasUnits(ign) /\ current(ign) /\ settled(ign)
           /\ world.applies /\ p.cluster \in edited' => kept(ign)
<1>1. CASE p \in patches
  <2>1. /\ olvm(p.cluster)
        /\ wellFormed(ign) /\ hasUnits(ign) /\ current(ign) /\ settled(ign)
        /\ world.applies /\ p.cluster \in edited => kept(ign)
    BY <1>1 DEF IgnitionInv
  <2>2. ASSUME NEW c \in Clusters, Edit(c), world.applies PROVE c # p.cluster
    BY <1>1, <2>2 DEF Edit
  <2>3. ASSUME NEW c \in Clusters, Edit(c) PROVE edited' = edited \cup {c}
    BY <2>3 DEF Edit
  <2>4. world.applies => (p.cluster \in edited' => p.cluster \in edited)
    BY <2>2, <2>3, ControlPlaneSteps
  <2> QED
    BY <2>1, <2>4
<1>2. CASE p \notin patches
  <2>1. PICK c \in Clusters : HelpMessages(c)
    BY <1>2, PatchSteps DEF Apply
  <2>2. /\ p.cluster = c /\ started(c) /\ p = patchFor(c, p.role, p.replaced)
    BY <1>2, <2>1, PrintedFits
  <2>3. p.ign = IF p.role = "cp" THEN newIgnition(c) ELSE {}
    BY <2>2 DEF patchFor
  <2>4. ign \in newIgnition(c)
    BY <2>3
  <2>5. UNCHANGED edited
    BY <2>1 DEF HelpMessages
  <2>6. world.applies /\ c \in edited => kept(kcp[c].ign)
    BY DEF IgnitionInv
  <2> QED
    BY <2>2, <2>4, <2>5, <2>6, PrintedIgnition
<1> QED
  BY <1>1, <1>2

\* A command that ends well was a start, an upload or a stage that printed.
LEMMA DoneSteps ==
    ASSUME StageInv, TypeInv, NEW c \in Clusters, ClusterStep(c), status'[c] = "done", job'[c].kind = "stage"
    PROVE  \/ HelpMessages(c)
           \/ /\ status[c] = "done" /\ job[c].kind = "stage"
              /\ UNCHANGED <<kcp, patches>>
           \/ GetTemplate(c)
<1> USE Domains DEF step, end, forget
<1>1. CASE Work(c)
  <2>1. CASE EnsureImage(c)
    BY <2>1 DEF EnsureImage
  <2>2. CASE UploadOci(c)
    BY <2>2 DEF UploadOci
  <2>3. CASE WaitForWorkRequests(c)
    BY <2>3 DEF WaitForWorkRequests, storeVars
  <2>4. CASE CreateEFIImageSchema(c)
    BY <2>4 DEF CreateEFIImageSchema
  <2>5. CASE EnsureCompatibleImageShapes(c)
    BY <2>5 DEF EnsureCompatibleImageShapes
  <2>6. CASE DetailsDone(c)
    BY <2>6 DEF DetailsDone, storeVars
  <2>7. CASE PatchControlPlane(c)
    BY <2>7 DEF PatchControlPlane
  <2>8. CASE FindUpdates(c)
    BY <2>8 DEF FindUpdates, storeVars
  <2>9. CASE StageImage(c)
    BY <2>9 DEF StageImage
  <2>10. CASE StageVMTemplates(c)
    BY <2>10 DEF StageVMTemplates, storeVars
  <2>11. CASE CreateTemplates(c)
    BY <2>11 DEF CreateTemplates
  <2>12. CASE CreateRefused(c)
    BY <2>12 DEF CreateRefused
  <2>13. CASE TemplatesDone(c)
    BY <2>13 DEF TemplatesDone, storeVars
  <2> QED
    BY <1>1, <2>1, <2>2, <2>3, <2>4, <2>5, <2>6, <2>7, <2>8, <2>9, <2>10, <2>11, <2>12, <2>13 DEF Work
<1>2. CASE Fault(c)
  BY <1>2 DEF Fault, fail
<1>3. CASE \E kind \in {"start", "stage", "upload"}, v \in Versions : Begin(c, kind, v)
  BY <1>3 DEF Begin
<1> QED
  BY <1>1, <1>2, <1>3 DEF ClusterStep

\* No kind of command but a start makes the first templates.
LEMMA StartJob ==
    ASSUME StageInv, TypeInv, FitInv, NEW c \in Clusters, GetTemplate(c)
    PROVE  job'[c].kind = "start"
<1>1. phase[c] = "template" /\ job' = job
  BY DEF GetTemplate, step
<1> QED
  BY <1>1 DEF FitInv, jobInv

\* What Stage printed for a control plane, when anything had to be changed.
LEMMA PrintsIgnition ==
    ASSUME NEW c, HelpMessages(c), newIgnition(c) # {}
    PROVE  \E p \in patches' : p.cluster = c /\ p.ign # {}
<1>1. PICK R : R = {r \in Roles : templateOf(c, r).image \in DOMAIN updates[c]}
  OBVIOUS
<1>2. patches' = patches \cup {patchFor(c, r, TRUE) : r \in R}
           \cup {patchFor(c, r, FALSE) : r \in {q \in {"cp"} \ R : newIgnition(c) # {}}}
  BY <1>1 DEF HelpMessages
<1>3. patchFor(c, "cp", TRUE) \in patches' \/ patchFor(c, "cp", FALSE) \in patches'
  BY <1>2
<1>4. \A b : patchFor(c, "cp", b).cluster = c /\ patchFor(c, "cp", b).ign = newIgnition(c)
  BY DEF patchFor
<1> QED
  BY <1>3, <1>4

\* What a stage that succeeded has left to be applied.
LEMMA StagedIgnitionStep ==
    ASSUME StageInv, TypeInv, FitInv, IgnitionInv, [Next]_vars, NEW c \in Clusters,
           olvm(c), job'[c].kind = "stage", status'[c] = "done"
    PROVE  current(kcp'[c].ign) \/ \E p \in patches' : p.cluster = c /\ p.ign # {}
<1>1. (job[c].kind = "stage" /\ status[c] = "done") =>
          current(kcp[c].ign) \/ \E p \in patches : p.cluster = c /\ p.ign # {}
  BY DEF IgnitionInv
<1>2. ASSUME NEW d \in Clusters, ClusterStep(d), d # c
      PROVE  current(kcp'[c].ign) \/ \E p \in patches' : p.cluster = c /\ p.ign # {}
  <2>1. kcp'[c] = kcp[c] /\ job'[c] = job[c] /\ status'[c] = status[c]
    BY <1>2, Beside
  <2>2. patches \subseteq patches'
    <3>1. ASSUME Work(d) PROVE patches \subseteq patches'
      BY <3>1 DEF Work, storeVars,
         EnsureImage, UploadOci, WaitForWorkRequests, CreateEFIImageSchema,
         EnsureCompatibleImageShapes, DetailsDone, GetTemplate, PatchControlPlane, FindUpdates, StageImage,
         StageVMTemplates, CreateTemplates, CreateRefused, TemplatesDone, HelpMessages
    <3> QED
      BY <3>1, <1>2 DEF ClusterStep, Fault, fail, Begin, storeVars
  <2> QED
    BY <1>1, <2>1, <2>2
<1>3. CASE ClusterStep(c)
  <2>1. CASE HelpMessages(c)
    <3>1. kcp' = kcp
      BY <2>1 DEF HelpMessages
    <3>2. started(c)
      <4>1. phase[c] = "help"
        BY <2>1 DEF HelpMessages, step
      <4> QED
        BY <4>1 DEF FitInv, jobInv
    <3>3. CASE newIgnition(c) = {}
      BY <3>1, <3>2, <3>3, PrintedIgnition
    <3>4. CASE newIgnition(c) # {}
      BY <2>1, <3>4, PrintsIgnition
    <3> QED
      BY <3>3, <3>4
  <2>2. ~GetTemplate(c)
    BY StartJob
  <2> QED
    BY <1>1, <1>3, <2>1, <2>2, DoneSteps
<1>4. ASSUME UNCHANGED <<job, status>>, NEW p \in patches, Apply(p)
      PROVE  current(kcp'[c].ign) \/ \E q \in patches' : q.cluster = c /\ q.ign # {}
  <2>1. CASE p.cluster = c /\ p.ign # {}
    <3>1. kcp'[c].ign \in p.ign
      BY <1>4, <2>1, AppliedKcp
    <3> QED
      BY <3>1 DEF IgnitionInv
  <2>2. CASE p.cluster # c \/ p.ign = {}
    <3>1. kcp'[c].ign = kcp[c].ign /\ patches' = patches \ {p}
      BY <1>4, <2>2, AppliedKcp
    <3> QED
      BY <1>1, <1>4, <2>2, <3>1
  <2> QED
    BY <2>1, <2>2
<1>5. ASSUME UNCHANGED <<job, status>>, NEW d \in Clusters, Edit(d)
      PROVE  current(kcp'[c].ign) \/ \E p \in patches' : p.cluster = c /\ p.ign # {}
  <2>1. patches' = patches
    BY <1>5 DEF Edit
  <2>2. current(kcp[c].ign) => current(kcp'[c].ign)
    BY <1>5, EditedKcp
  <2> QED
    BY <1>1, <1>5, <2>1, <2>2
<1> QED
  BY <1>1, <1>2, <1>3, <1>4, <1>5, Steps

LEMMA IgnitionStep == ASSUME StageInv, TypeInv, FitInv, IgnitionInv, [Next]_vars PROVE IgnitionInv'
<1>1. world' = world /\ \A c : olvm(c)' <=> olvm(c)
  BY ClusterFixed, WorldFixed
<1>2. \A ign : /\ wellFormed(ign)' <=> wellFormed(ign)
               /\ hasUnits(ign)' <=> hasUnits(ign)
               /\ current(ign)' <=> current(ign)
               /\ kept(ign)' <=> kept(ign)
  BY <1>1 DEF wellFormed, hasUnits, current, isUnit, enabledBy, kept
<1>3. ASSUME NEW c \in Clusters
      PROVE  /\ kcp'[c] = [ign |-> kcp'[c].ign, join |-> kcp'[c].join]
             /\ wellFormed(kcp'[c].ign)
             /\ olvm(c)' /\ started(c)' => hasUnits(kcp'[c].ign)
             /\ world'.applies /\ c \in edited' => kept(kcp'[c].ign)
             /\ olvm(c)' /\ job'[c].kind = "stage" /\ status'[c] = "done" =>
                    current(kcp'[c].ign) \/ \E p \in patches' : p.cluster = c /\ p.ign # {}
  BY <1>1, ControlPlaneStep, StagedIgnitionStep
<1>4. ASSUME NEW p \in patches', NEW ign \in p.ign
      PROVE  /\ olvm(p.cluster)'
             /\ wellFormed(ign) /\ hasUnits(ign) /\ current(ign) /\ settled(ign)
             /\ world'.applies /\ p.cluster \in edited' => kept(ign)
  BY <1>1, PatchIgnitionStep
<1> QED
  BY <1>2, <1>3, <1>4 DEF IgnitionInv

\* The join configuration of a control plane.
LEMMA JoinStep == ASSUME StageInv, TypeInv, FitInv, IgnitionInv, JoinInv, [Next]_vars PROVE JoinInv'
<1>1. /\ \A c \in Clusters : parents[c]["cp"].n > 1 => kcp[c].join = prepared
      /\ \A c \in Clusters : "patches" \in kcp[c].join => kcp[c].join = prepared
      /\ \A p \in patches :
             /\ p.join = {} \/ p.join \cup kcp[p.cluster].join = prepared
             /\ p.replaced /\ p.role = "cp" => p.join \cup kcp[p.cluster].join = prepared
  BY DEF JoinInv, JoinPrepared, prepared
<1>2. \A c \in Clusters : kcp[c].join \subseteq prepared
  BY DEF StageInv, prepared
<1>3. \A p \in patches : p.cluster \in Clusters /\ p.role \in Roles
  BY DEF TypeInv
<1>4. ASSUME NEW c \in Clusters
      PROVE  /\ parents'[c]["cp"].n > 1 => kcp'[c].join = prepared
             /\ "patches" \in kcp'[c].join => kcp'[c].join = prepared
  <2>1. CASE GetTemplate(c)
    <3>1. parents'[c]["cp"].n = 1
      <4>1. parents'[c]["cp"] = [version |-> job[c].version, base |-> baseOf(c, "cp"), n |-> 1]
        BY <2>1, FirstTemplates DEF Roles
      <4> QED
        BY <4>1
    <3>2. kcp'[c].join = madeBy.join
      BY <2>1, FirstKcp
    <3> QED
      BY <3>1, <3>2, MadeBy
  <2>2. ASSUME NEW p \in patches, Apply(p), p.cluster = c
        PROVE  /\ parents'[c]["cp"].n > 1 => kcp'[c].join = prepared
               /\ "patches" \in kcp'[c].join => kcp'[c].join = prepared
    <3>1. kcp'[c].join = kcp[c].join \cup p.join
      BY <2>2, AppliedKcp
    <3>2. p.replaced /\ p.role = "cp" => kcp'[c].join = prepared
      BY <1>1, <2>2, <3>1
    <3>3. ~(p.replaced /\ p.role = "cp") => parents'[c]["cp"] = parents[c]["cp"]
      <4>1. ~p.replaced => parents' = parents
        BY <2>2, AppliedParents
      <4>2. \A d \in Clusters, r \in Roles : (d # p.cluster \/ r # p.role) => parents'[d][r] = parents[d][r]
        BY <2>2, AppliedParents
      <4> QED
        BY <2>2, <4>1, <4>2 DEF Roles
    <3> QED
      BY <1>1, <2>2, <3>1, <3>2, <3>3
  <2>3. CASE ~GetTemplate(c) /\ \A p \in patches : Apply(p) => p.cluster # c
    <3>1. parents'[c] = parents[c]
      <4>1. ASSUME NEW d \in Clusters, GetTemplate(d) PROVE parents'[c] = parents[c]
        BY <2>3, <4>1, Beside DEF ClusterStep, Work
      <4>2. ASSUME NEW p \in patches, Apply(p) PROVE parents'[c] = parents[c]
        <5>1. p.cluster # c /\ p.cluster \in Clusters
          BY <2>3, <4>2, <1>3
        <5> QED
          BY <4>2, <5>1, Domains DEF Apply
      <4> QED
        BY <4>1, <4>2, ParentSteps
    <3>2. kcp'[c].join = kcp[c].join
      <4>1. ASSUME NEW d \in Clusters, GetTemplate(d) PROVE kcp'[c] = kcp[c]
        BY <2>3, <4>1, FirstKcp
      <4>2. ASSUME NEW p \in patches, Apply(p) PROVE kcp'[c] = kcp[c]
        BY <2>3, <4>2, AppliedKcp
      <4>3. ASSUME NEW d \in Clusters, Edit(d) PROVE kcp'[c].join = kcp[c].join
        BY <4>3, EditedKcp
      <4> QED
        BY <4>1, <4>2, <4>3, ControlPlaneSteps
    <3> QED
      BY <1>1, <3>1, <3>2
  <2> QED
    BY <2>1, <2>2, <2>3
<1>5. ASSUME NEW p \in patches'
      PROVE  /\ p.join = {} \/ p.join \cup kcp'[p.cluster].join = prepared
             /\ p.replaced /\ p.role = "cp" => p.join \cup kcp'[p.cluster].join = prepared
  <2>1. CASE p \in patches
    <3>1. kcp'[p.cluster].join \in {kcp[p.cluster].join} \cup {kcp[p.cluster].join \cup q.join : q \in {u \in patches : u.cluster = p.cluster}}
      <4>1. ASSUME NEW d \in Clusters, GetTemplate(d) PROVE kcp'[p.cluster] = kcp[p.cluster]
        <5>1. d # p.cluster
          BY <2>1, <4>1, FirstTemplates
        <5> QED
          BY <1>3, <2>1, <4>1, <5>1, FirstKcp
      <4>2. ASSUME NEW q \in patches, Apply(q)
            PROVE  \/ kcp'[p.cluster].join = kcp[p.cluster].join
                   \/ q.cluster = p.cluster /\ kcp'[p.cluster].join = kcp[p.cluster].join \cup q.join
        BY <1>3, <2>1, <4>2, AppliedKcp
      <4>3. ASSUME NEW d \in Clusters, Edit(d) PROVE kcp'[p.cluster].join = kcp[p.cluster].join
        BY <1>3, <2>1, <4>3, EditedKcp
      <4> QED
        BY <4>1, <4>2, <4>3, ControlPlaneSteps
    <3>2. PICK q : \/ kcp'[p.cluster].join = kcp[p.cluster].join
                   \/ /\ q \in patches /\ q.cluster = p.cluster
                      /\ kcp'[p.cluster].join = kcp[p.cluster].join \cup q.join
      BY <3>1
    <3> QED
      BY <1>1, <1>2, <1>3, <2>1, <3>2
  <2>2. CASE p \notin patches
    <3>1. PICK c \in Clusters : HelpMessages(c)
      BY <2>2, PatchSteps DEF Apply
    <3>2. p.cluster = c /\ p = patchFor(c, p.role, p.replaced)
      BY <2>2, <3>1, PrintedFits
    <3>3. p.join = IF p.role = "cp" /\ p.replaced THEN GetControlPlanePatches(c) ELSE {}
      BY <3>2 DEF patchFor
    <3>4. kcp' = kcp
      BY <3>1 DEF HelpMessages
    <3>5. GetControlPlanePatches(c) \cup kcp[c].join = prepared
      BY <1>1, <1>2 DEF GetControlPlanePatches, prepared
    <3> QED
      BY <3>2, <3>3, <3>4, <3>5
  <2> QED
    BY <2>1, <2>2
<1> QED
  BY <1>4, <1>5 DEF JoinInv, JoinPrepared, prepared

-----------------------------------------------------------------------------
(* The store                                                                *)

\* Only a release changes what is released.
LEMMA ReleasedStep ==
    ASSUME StageInv, TypeInv, FitInv, [Next]_vars
    PROVE  released' \in [Versions -> 0..Len(images')]
<1>1. Len(images) \in Nat /\ Len(images') \in Nat /\ Len(images) <= Len(images')
  BY ImagesAfter
<1>2. released \in [Versions -> 0..Len(images)]
  BY DEF StageInv
<1>3. ASSUME released' = released PROVE released' \in [Versions -> 0..Len(images')]
  BY <1>1, <1>2, <1>3
<1>4. ASSUME NEW v \in Versions, Release(v) PROVE released' \in [Versions -> 0..Len(images')]
  BY <1>1, <1>2, <1>4 DEF Release
<1>5. ASSUME NEW c \in Clusters, Work(c) PROVE released' = released
  BY <1>5 DEF Work, storeVars,
     EnsureImage, UploadOci, WaitForWorkRequests, CreateEFIImageSchema,
     EnsureCompatibleImageShapes, DetailsDone, GetTemplate, PatchControlPlane, FindUpdates, StageImage,
     StageVMTemplates, CreateTemplates, CreateRefused, TemplatesDone, HelpMessages
<1>6. ASSUME NEW c \in Clusters, Fault(c) PROVE released' = released
  BY <1>6 DEF Fault, fail, storeVars
<1>7. CASE UNCHANGED released
  BY <1>3, <1>7
<1> QED
  BY <1>3, <1>4, <1>5, <1>6, <1>7 DEF Next, Begin, storeVars, Apply, Edit, Imports, Import, vars

LEMMA MarkedStep ==
    ASSUME StageInv, TypeInv, FitInv, [Next]_vars
    PROVE  annotated' \subseteq Clusters /\ edited' \subseteq Clusters
<1>1. annotated \subseteq Clusters /\ edited \subseteq Clusters
  BY DEF StageInv
<1>2. ASSUME NEW c \in Clusters, Work(c) PROVE edited' = edited /\ annotated' \subseteq annotated \cup {c}
  BY <1>2 DEF Work, storeVars,
     EnsureImage, UploadOci, WaitForWorkRequests, CreateEFIImageSchema,
     EnsureCompatibleImageShapes, DetailsDone, GetTemplate, PatchControlPlane, FindUpdates, StageImage,
     StageVMTemplates, CreateTemplates, CreateRefused, TemplatesDone, HelpMessages
<1>3. ASSUME NEW c \in Clusters, Fault(c) PROVE UNCHANGED <<edited, annotated>>
  BY <1>3 DEF Fault, fail, storeVars
<1>4. ASSUME NEW c \in Clusters, Edit(c) PROVE annotated' = annotated /\ edited' = edited \cup {c}
  BY <1>4 DEF Edit
<1>5. ASSUME NEW p, Apply(p) PROVE UNCHANGED <<edited, annotated>>
  BY <1>5 DEF Apply
<1>6. ASSUME NEW c, NEW k, NEW v, Begin(c, k, v) PROVE UNCHANGED <<edited, annotated>>
  BY <1>6 DEF Begin, storeVars
<1>7. ASSUME NEW v, Release(v) PROVE UNCHANGED <<edited, annotated>>
  BY <1>7 DEF Release
<1>8. ASSUME Imports PROVE UNCHANGED <<edited, annotated>>
  BY <1>8 DEF Imports, Import
<1>9. ASSUME UNCHANGED vars PROVE UNCHANGED <<edited, annotated>>
  BY <1>9 DEF vars, storeVars
<1> QED
  BY <1>1, <1>2, <1>3, <1>4, <1>5, <1>6, <1>7, <1>8, <1>9 DEF Next

LEMMA StageStep ==
    ASSUME StageInv, TypeInv, FitInv, IgnitionInv, JoinInv, [Next]_vars
    PROVE  StageInv'
<1>1. images' \in Seq([version : Versions, arch : Archs, schema : BOOLEAN, shapes : BOOLEAN,
                       state : {"importing", "available", "failed", "canceled"}])
  BY ImagesAfter DEF ImageRecord
<1>2. released' \in [Versions -> 0..Len(images')]
  BY ReleasedStep
<1>3. phase' \in [Clusters -> Phases]
  <2>1. phase \in [Clusters -> Phases]
    BY DEF StageInv
  <2>2. ASSUME NEW c \in Clusters, ClusterStep(c) PROVE phase' \in [Clusters -> Phases]
    BY <2>2, LocalTypesStep DEF LocalTypes
  <2> QED
    BY <2>1, <2>2, Steps
<1>4. \A t, u \in templates' : (t.cluster = u.cluster /\ t.base = u.base /\ t.n = u.n) => t = u
  BY NamesUnique DEF UniqueNames
<1>5. \A c \in Clusters : started(c)' =>
          \A r \in Roles : \E t \in templates' :
              t.cluster = c /\ t.base = parents'[c][r].base /\ t.n = parents'[c][r].n
  BY ParentsExist
<1>6. \A c \in Clusters : work'[c] \subseteq 1..Len(images') /\ detailed'[c] \subseteq work'[c]
  BY WorkRange
<1>7. annotated' \subseteq Clusters /\ edited' \subseteq Clusters
  BY MarkedStep
<1>8. \A c \in Clusters : ~kcp'[c].ign.err /\ kcp'[c].join \subseteq {"patches", "preflight"}
  <2> TAKE c \in Clusters
  <2>1. ~kcp'[c].ign.err
    <3>1. isIgnition(kcp'[c].ign)
      BY ControlPlaneStep DEF wellFormed, isIgnition
    <3> QED
      BY <3>1 DEF isIgnition
  <2>2. \A d \in Clusters : kcp[d].join \subseteq prepared
    BY DEF StageInv, prepared
  <2>3. ASSUME NEW d \in Clusters, GetTemplate(d) PROVE kcp'[c].join \subseteq prepared
    BY <2>2, <2>3, FirstKcp, MadeBy
  <2>4. ASSUME NEW p \in patches, Apply(p) PROVE kcp'[c].join \subseteq prepared
    <3>1. p.cluster \in Clusters /\ p.join \subseteq prepared
      BY DEF TypeInv, JoinInv
    <3> QED
      BY <2>2, <2>4, <3>1, AppliedKcp
  <2>5. ASSUME NEW d \in Clusters, Edit(d) PROVE kcp'[c].join \subseteq prepared
    BY <2>2, <2>5, EditedKcp
  <2>6. kcp'[c].join \subseteq prepared
    BY <2>2, <2>3, <2>4, <2>5, ControlPlaneSteps
  <2> QED
    BY <2>1, <2>6 DEF prepared
<1> QED
  BY <1>1, <1>2, <1>3, <1>4, <1>5, <1>6, <1>7, <1>8 DEF StageInv

-----------------------------------------------------------------------------
(* Patches are applied first                                                *)

\* Only Begin starts a command.
LEMMA BusyStep ==
    ASSUME StageInv, TypeInv, NEW c \in Clusters, ClusterStep(c), phase[c] = "idle"
    PROVE  \E kind \in {"start", "stage", "upload"}, v \in Versions : Begin(c, kind, v)
<1>1. ~Work(c)
  BY DEF Work, step,
     EnsureImage, UploadOci, WaitForWorkRequests, CreateEFIImageSchema,
     EnsureCompatibleImageShapes, DetailsDone, GetTemplate, PatchControlPlane, FindUpdates, StageImage,
     StageVMTemplates, CreateTemplates, CreateRefused, TemplatesDone, HelpMessages
<1>2. ~Fault(c)
  BY DEF Fault
<1> QED
  BY <1>1, <1>2 DEF ClusterStep

\* A command adds patches of its own cluster only.
LEMMA CommandPatches ==
    ASSUME StageInv, TypeInv, FitInv, NEW c \in Clusters, ClusterStep(c)
    PROVE  /\ patches \subseteq patches'
           /\ patches' # patches => HelpMessages(c)
           /\ \A p \in patches' : p \in patches \/ p.cluster = c
<1>1. CASE ~HelpMessages(c)
  <2>1. ASSUME Work(c) PROVE patches' = patches
    BY <1>1, <2>1 DEF Work, storeVars,
       EnsureImage, UploadOci, WaitForWorkRequests, CreateEFIImageSchema,
       EnsureCompatibleImageShapes, DetailsDone, GetTemplate, PatchControlPlane, FindUpdates, StageImage,
       StageVMTemplates, CreateTemplates, CreateRefused, TemplatesDone
  <2>2. patches' = patches
    BY <2>1 DEF ClusterStep, Fault, fail, Begin, storeVars
  <2> QED
    BY <1>1, <2>2
<1>2. CASE HelpMessages(c)
  <2>1. patches \subseteq patches'
    BY <1>2 DEF HelpMessages
  <2>2. \A p \in patches' : p \in patches \/ p.cluster = c
    BY <1>2, PrintedFits
  <2> QED
    BY <1>2, <2>1, <2>2
<1> QED
  BY <1>1, <1>2

\* A command makes templates of its own cluster only.
LEMMA CommandTemplates ==
    ASSUME NEW c \in Clusters, ClusterStep(c)
    PROVE  \/ templates' = templates
           \/ /\ GetTemplate(c) \/ CreateTemplates(c)
              /\ \A t \in templates' : t \in templates \/ t.cluster = c
<1>1. ASSUME Work(c), ~GetTemplate(c), ~CreateTemplates(c) PROVE templates' = templates
  BY <1>1 DEF Work, storeVars,
     EnsureImage, UploadOci, WaitForWorkRequests, CreateEFIImageSchema,
     EnsureCompatibleImageShapes, DetailsDone, PatchControlPlane, FindUpdates, StageImage,
     StageVMTemplates, CreateRefused, TemplatesDone, HelpMessages
<1>2. ASSUME ~Work(c) PROVE templates' = templates
  BY <1>2 DEF ClusterStep, Fault, fail, Begin, storeVars
<1>3. ASSUME GetTemplate(c) PROVE \A t \in templates' : t \in templates \/ t.cluster = c
  BY <1>3 DEF GetTemplate
<1>4. \A r : newTemplate(c, r).cluster = c
  BY DEF newTemplate
<1>5. ASSUME CreateTemplates(c) PROVE \A t \in templates' : t \in templates \/ t.cluster = c
  BY <1>4, <1>5 DEF CreateTemplates
<1> QED
  BY <1>1, <1>2, <1>3, <1>5

\* No command runs for a cluster that has patches.
LEMMA IdleStep ==
    ASSUME StageInv, TypeInv, FitInv, OrderInv, [Next]_vars, world.applies, NEW p \in patches'
    PROVE  phase'[p.cluster] = "idle"
<1>1. \A q \in patches : phase[q.cluster] = "idle" /\ q.cluster \in Clusters
  BY DEF OrderInv, TypeInv
<1>2. ASSUME NEW c \in Clusters, ClusterStep(c) PROVE phase'[p.cluster] = "idle"
  <2>1. CASE p \in patches
    <3>1. ASSUME p.cluster = c PROVE FALSE
      <4>1. PICK kind, v : Begin(c, kind, v)
        BY <1>1, <1>2, <2>1, <3>1, BusyStep
      <4> QED
        BY <2>1, <3>1, <4>1 DEF Begin
    <3> QED
      BY <1>1, <1>2, <2>1, <3>1, Beside
  <2>2. CASE p \notin patches
    <3>1. HelpMessages(c) /\ p.cluster = c
      BY <1>2, <2>2, CommandPatches
    <3> QED
      BY <3>1, Domains DEF HelpMessages, step
  <2> QED
    BY <2>1, <2>2
<1>3. ASSUME UNCHANGED phase, patches' \subseteq patches PROVE phase'[p.cluster] = "idle"
  BY <1>1, <1>3
<1>4. ASSUME NEW q \in patches, Apply(q) PROVE patches' \subseteq patches
  BY <1>4 DEF Apply
<1>5. ASSUME NEW c, Edit(c) PROVE patches' \subseteq patches
  BY <1>5 DEF Edit
<1> QED
  BY <1>2, <1>3, <1>4, <1>5, Steps

\* A patch is for the next template of its role, and there is one.
nextOf(p) == p.n = parents[p.cluster][p.role].n + 1
LEMMA NextStep ==
    ASSUME StageInv, TypeInv, FitInv, OrderInv, [Next]_vars, world.applies, NEW p \in patches', p.replaced
    PROVE  /\ nextOf(p)'
           /\ \A q \in patches' : (q.cluster = p.cluster /\ q.role = p.role /\ q.replaced) => p = q
<1>1. /\ \A q \in patches : q.cluster \in Clusters /\ q.role \in Roles /\ phase[q.cluster] = "idle"
      /\ \A q \in patches : q.replaced => nextOf(q)
      /\ \A q, u \in patches : (q.replaced /\ u.replaced /\ q.cluster = u.cluster /\ q.role = u.role) => q = u
  BY DEF OrderInv, TypeInv, nextOf
<1>2. ASSUME NEW c \in Clusters, HelpMessages(c)
      PROVE  /\ nextOf(p)'
             /\ \A q \in patches' : (q.cluster = p.cluster /\ q.role = p.role /\ q.replaced) => p = q
  <2>1. parents' = parents /\ phase[c] = "help"
    BY <1>2 DEF HelpMessages, step
  <2>2. \A q \in patches : q.cluster # c
    BY <1>1, <2>1
  <2>3. \A q \in patches' : q \notin patches =>
            /\ q.cluster = c /\ q.n = parents[c][q.role].n + 1
            /\ q = patchFor(c, q.role, q.replaced) /\ q.replaced \in BOOLEAN
    BY <1>2, PrintedFits
  <2>4. nextOf(p)'
    BY <1>1, <2>1, <2>3 DEF nextOf
  <2>5. ASSUME NEW q \in patches', q.cluster = p.cluster, q.role = p.role, q.replaced PROVE p = q
    <3>1. CASE p \in patches
      BY <1>1, <2>2, <2>3, <2>5, <3>1
    <3>2. CASE p \notin patches
      BY <2>2, <2>3, <2>5, <3>2
    <3> QED
      BY <3>1, <3>2
  <2> QED
    BY <2>4, <2>5
<1>3. ASSUME NEW u \in patches, Apply(u)
      PROVE  /\ nextOf(p)'
             /\ \A q \in patches' : (q.cluster = p.cluster /\ q.role = p.role /\ q.replaced) => p = q
  <2>1. patches' = patches \ {u}
    BY <1>3 DEF Apply
  <2>2. parents'[p.cluster][p.role] = parents[p.cluster][p.role]
    <3>1. u.replaced => (p.cluster # u.cluster \/ p.role # u.role)
      BY <1>1, <2>1
    <3>2. p.cluster \in Clusters /\ p.role \in Roles
      BY <1>1, <2>1
    <3>5. \A c \in Clusters, r \in Roles : (c # u.cluster \/ r # u.role) => parents'[c][r] = parents[c][r]
      BY <1>3, AppliedParents
    <3>3. u.replaced => parents'[p.cluster][p.role] = parents[p.cluster][p.role]
      BY <3>1, <3>2, <3>5
    <3>4. ~u.replaced => parents' = parents
      BY <1>3, AppliedParents
    <3> QED
      BY <3>3, <3>4
  <2> QED
    BY <1>1, <2>1, <2>2 DEF nextOf
<1>4. ASSUME UNCHANGED patches, ~\E u \in patches : Apply(u)
      PROVE  /\ nextOf(p)'
             /\ \A q \in patches' : (q.cluster = p.cluster /\ q.role = p.role /\ q.replaced) => p = q
  <2>1. parents'[p.cluster] = parents[p.cluster]
    <3>1. ASSUME NEW c \in Clusters, GetTemplate(c) PROVE parents'[p.cluster] = parents[p.cluster]
      <4>1. p.cluster # c
        BY <1>4, <3>1, FirstTemplates
      <4> QED
        BY <1>1, <1>4, <3>1, <4>1, Beside DEF ClusterStep, Work
    <3> QED
      BY <1>4, <3>1, ParentSteps
  <2> QED
    BY <1>1, <1>4, <2>1 DEF nextOf
<1> QED
  BY <1>2, <1>3, <1>4, PatchSteps

\* Without failures a stage finds no template that has the name of a new one.
LEMMA NoneRefused ==
    ASSUME StageInv, TypeInv, FitInv, OrderInv, world.applies, ~world.faults, world.shared = {},
           NEW c \in Clusters
    PROVE  ~CreateRefused(c)
<1> SUFFICES ASSUME CreateRefused(c) PROVE FALSE
  OBVIOUS
<1>1. phase[c] = "create"
  BY DEF CreateRefused, step
<1>2. PICK r \in todo[c] : taken(newTemplate(c, r))
  BY DEF CreateRefused
<1>3. started(c) /\ r \notin createdFor(c)
  BY <1>1 DEF FitInv, jobInv, createdFor
<1>4. \A q \in Roles : baseOf(c, q) = q
  BY DEF baseOf
<1>5. PICK i \in DOMAIN updates[c] : r \in rolesOf(c, i)
  BY <1>1, TodoRole
<1>7. /\ newTemplate(c, r) = [cluster |-> c, base |-> r, n |-> parents[c][r].n + 1, image |-> updates[c][i]]
      /\ r \in Roles /\ parents[c][r].n \in Nat
  BY <1>1, <1>4, <1>5, NewTemplate
<1>8. PICK u \in templates : u.cluster = c /\ u.base = r /\ u.n = parents[c][r].n + 1
  <2>1. PICK x : x = newTemplate(c, r)
    OBVIOUS
  <2>2. x.cluster = c /\ x.base = r /\ x.n = parents[c][r].n + 1
    BY <1>7, <2>1
  <2> QED
    BY <1>2, <2>1, <2>2 DEF taken
<1>9. ~(u.n <= parents[c][r].n)
  BY <1>7, <1>8
<1>10. comes(u)
  BY <1>8, <1>9 DEF OrderInv
<1>11. \A p \in patches : p.cluster # c
  BY <1>1 DEF OrderInv
<1> QED
  BY <1>3, <1>8, <1>10, <1>11 DEF comes

\* Without failures no command fails.
LEMMA SucceedsStep ==
    ASSUME StageInv, TypeInv, FitInv, ReadyInv, OrderInv, [Next]_vars,
           world.applies, ~world.faults, world.shared = {}, NEW c \in Clusters
    PROVE  status'[c] # "failed"
<1>1. \A d \in Clusters : status[d] # "failed"
  BY DEF OrderInv
<1>2. ASSUME NEW d \in Clusters, ClusterStep(d) PROVE status'[c] # "failed"
  <2>1. CASE c # d
    BY <1>1, <1>2, <2>1, Beside
  <2>2. CASE c = d
    <3> USE Domains DEF step, end, forget
    <3>1. CASE Work(c)
      <4>1. CASE EnsureImage(c)
        BY <1>1, <4>1 DEF EnsureImage
      <4>2. CASE UploadOci(c)
        BY <1>1, <4>2 DEF UploadOci
      <4>3. CASE WaitForWorkRequests(c)
        <5>1. \A i \in work[c] : images[i].state # "failed"
          BY DEF StageInv, ReadyInv
        <5> QED
          BY <1>1, <4>3, <5>1 DEF WaitForWorkRequests
      <4>4. CASE CreateEFIImageSchema(c)
        BY <1>1, <4>4 DEF CreateEFIImageSchema, localVars
      <4>5. CASE EnsureCompatibleImageShapes(c)
        BY <1>1, <4>5 DEF EnsureCompatibleImageShapes
      <4>6. CASE DetailsDone(c)
        BY <1>1, <4>6 DEF DetailsDone
      <4>7. CASE GetTemplate(c)
        BY <1>1, <4>7 DEF GetTemplate
      <4>8. CASE PatchControlPlane(c)
        BY <1>1, <4>8 DEF PatchControlPlane, localVars
      <4>9. CASE FindUpdates(c)
        BY <1>1, <4>9 DEF FindUpdates
      <4>10. CASE StageImage(c)
        BY <1>1, <4>10 DEF StageImage
      <4>11. CASE StageVMTemplates(c)
        BY <1>1, <4>11 DEF StageVMTemplates
      <4>12. CASE CreateTemplates(c)
        BY <1>1, <4>12 DEF CreateTemplates
      <4>13. ~CreateRefused(c)
        BY NoneRefused
      <4>14. CASE TemplatesDone(c)
        BY <1>1, <4>14 DEF TemplatesDone
      <4>15. CASE HelpMessages(c)
        BY <1>1, <4>15 DEF HelpMessages
      <4> QED
        BY <3>1, <4>1, <4>2, <4>3, <4>4, <4>5, <4>6, <4>7, <4>8, <4>9, <4>10, <4>11, <4>12, <4>13, <4>14, <4>15 DEF Work
    <3>2. ~Fault(c)
      BY DEF Fault
    <3>3. CASE \E kind \in {"start", "stage", "upload"}, v \in Versions : Begin(c, kind, v)
      BY <3>3 DEF Begin
    <3> QED
      BY <1>2, <2>2, <3>1, <3>2, <3>3 DEF ClusterStep
  <2> QED
    BY <2>1, <2>2
<1> QED
  BY <1>1, <1>2, Steps

\* The templates that a stage has made are those that its patches will use.
LEMMA CreatedSteps ==
    ASSUME StageInv, TypeInv, FitInv, [Next]_vars, NEW c \in Clusters, ClusterStep(c), ~CreateRefused(c), ~Fault(c)
    PROVE  createdFor(c) \subseteq createdFor(c)' \/ HelpMessages(c)
<1> USE Domains DEF step, createdFor
<1>1. CASE phase[c] \notin {"create", "help"}
  BY <1>1
<1>2. CASE phase[c] \in {"create", "help"}
  <2>0. ASSUME updates' = updates, parents' = parents
        PROVE  usersOf(c, DOMAIN updates[c])' = usersOf(c, DOMAIN updates[c])
    <3>1. PICK I : I = DOMAIN updates[c]
      OBVIOUS
    <3>2. usersOf(c, I)' = usersOf(c, DOMAIN updates[c])'
      BY <2>0, <3>1 DEF usersOf
    <3>3. started(c)
      BY <1>2 DEF FitInv, jobInv
    <3>4. usersOf(c, I)' = usersOf(c, I)
      BY <2>0, <3>3, GraphKept
    <3> QED
      BY <3>1, <3>2, <3>4
  <2>1. CASE Work(c)
    <3>1. CASE EnsureImage(c)
      BY <1>2, <3>1 DEF EnsureImage
    <3>2. CASE UploadOci(c)
      BY <1>2, <3>2 DEF UploadOci
    <3>3. CASE WaitForWorkRequests(c)
      BY <1>2, <3>3 DEF WaitForWorkRequests
    <3>4. CASE CreateEFIImageSchema(c)
      BY <1>2, <3>4 DEF CreateEFIImageSchema
    <3>5. CASE EnsureCompatibleImageShapes(c)
      BY <1>2, <3>5 DEF EnsureCompatibleImageShapes
    <3>6. CASE DetailsDone(c)
      BY <1>2, <3>6 DEF DetailsDone
    <3>7. CASE GetTemplate(c)
      BY <1>2, <3>7 DEF GetTemplate
    <3>8. CASE PatchControlPlane(c)
      BY <1>2, <3>8 DEF PatchControlPlane
    <3>9. CASE FindUpdates(c)
      BY <1>2, <3>9 DEF FindUpdates
    <3>10. CASE StageImage(c)
      BY <1>2, <3>10 DEF StageImage
    <3>11. CASE StageVMTemplates(c)
      BY <1>2, <3>11 DEF StageVMTemplates
    <3>12. CASE CreateTemplates(c)
      <4>1. /\ phase[c] = "create" /\ phase'[c] = "create" /\ todo'[c] \subseteq todo[c]
            /\ updates' = updates /\ parents' = parents
        BY <3>12 DEF CreateTemplates
      <4> QED
        BY <2>0, <4>1
    <3>13. CASE TemplatesDone(c)
      <4>1. phase[c] = "create" /\ phase'[c] = "help" /\ updates' = updates /\ parents' = parents
        BY <3>13 DEF TemplatesDone, localVars, storeVars
      <4> QED
        BY <2>0, <4>1
    <3> QED
      BY <2>1, <3>1, <3>2, <3>3, <3>4, <3>5, <3>6, <3>7, <3>8, <3>9, <3>10, <3>11, <3>12, <3>13 DEF Work
  <2>2. CASE \E kind \in {"start", "stage", "upload"}, v \in Versions : Begin(c, kind, v)
    BY <1>2, <2>2 DEF Begin
  <2> QED
    BY <2>1, <2>2 DEF ClusterStep
<1> QED
  BY <1>1, <1>2

\* What a role with a template that is about to be used looks like.
LEMMA ComesStep ==
    ASSUME StageInv, TypeInv, FitInv, ReadyInv, OrderInv, [Next]_vars,
           world.applies, ~world.faults, world.shared = {}, NEW t \in templates'
    PROVE  t.n <= parents'[t.cluster][t.base].n \/ comes(t)'
<1>1. \A u \in templates : /\ u.cluster \in Clusters /\ u.base \in Roles /\ u.n \in Nat
                           /\ started(u.cluster)
                           /\ parents[u.cluster][u.base].n \in Nat
  <2> TAKE u \in templates
  <2>1. u.cluster \in Clusters /\ u.base \in Roles /\ u.n \in Nat
    BY DEF TypeInv
  <2>2. started(u.cluster)
    BY <2>1 DEF FitInv, parentInv
  <2> QED
    BY <2>1, <2>2, StateTypes
<1>2. \A u \in templates : u.n <= parents[u.cluster][u.base].n \/ comes(u)
  BY DEF OrderInv
<1>3. \A c, r : baseOf(c, r) = r
  BY DEF baseOf
<1>4. ASSUME t \in templates, parents'[t.cluster] = parents[t.cluster],
             createdFor(t.cluster) \subseteq createdFor(t.cluster)',
             \A p \in patches : p.cluster = t.cluster => p \in patches'
      PROVE  t.n <= parents'[t.cluster][t.base].n \/ comes(t)'
  <2>1. PICK c \in Clusters, r \in Roles : c = t.cluster /\ r = t.base /\ started(c)
    BY <1>1, <1>4
  <2>3. CASE t.n <= parents[c][r].n
    BY <1>4, <2>1, <2>3
  <2>4. CASE comes(t)
    <3>1. /\ t.n = parents[c][r].n + 1
          /\ \/ r \in createdFor(c)
             \/ \E p \in patches : p.cluster = c /\ p.role = r /\ p.replaced
      BY <2>1, <2>4 DEF comes
    <3>2. t.n = parents'[c][r].n + 1
      BY <1>4, <2>1, <3>1
    <3>3. \/ r \in createdFor(c)'
          \/ \E p \in patches' : p.cluster = c /\ p.role = r /\ p.replaced
      BY <1>4, <2>1, <3>1
    <3> QED
      BY <2>1, <3>2, <3>3 DEF comes
  <2> QED
    BY <1>2, <1>4, <2>1, <2>3, <2>4
<1>5. ASSUME NEW c \in Clusters, ClusterStep(c) PROVE t.n <= parents'[t.cluster][t.base].n \/ comes(t)'
  <2>1. ~CreateRefused(c) /\ ~Fault(c)
    BY NoneRefused DEF Fault
  <2>2. CASE t.cluster # c
    <3>1. t \in templates
      BY <1>5, <2>2, CommandTemplates
    <3>2. PICK d \in Clusters : d = t.cluster
      BY <1>1, <3>1
    <3>3. /\ phase'[d] = phase[d] /\ todo'[d] = todo[d] /\ updates'[d] = updates[d]
          /\ parents'[d] = parents[d]
      BY <1>5, <2>2, <3>2, Beside
    <3>4. createdFor(d)' = createdFor(d)
      BY <3>3, CreatedKept
    <3>5. patches \subseteq patches'
      BY <1>5, CommandPatches
    <3> QED
      BY <1>4, <3>1, <3>2, <3>3, <3>4, <3>5
  <2>3. CASE t.cluster = c /\ t \notin templates
    <3>1. CASE GetTemplate(c)
      <4>1. PICK r \in Roles : t = [cluster |-> c, base |-> baseOf(c, r), n |-> 1, image |-> templateImage(c, r)]
        BY <2>3, <3>1 DEF GetTemplate
      <4>2. parents'[c][r] = [version |-> job[c].version, base |-> baseOf(c, r), n |-> 1]
        BY <3>1, FirstTemplates
      <4>3. parents'[c][r].n = 1 /\ t.n = 1 /\ t.base = r
        BY <1>3, <4>1, <4>2
      <4> QED
        BY <2>3, <4>3
    <3>2. CASE CreateTemplates(c)
      <4>1. PICK r \in todo[c] : /\ todo' = [todo EXCEPT ![c] = @ \ {r}]
                                 /\ templates' = templates \cup {newTemplate(c, r)}
        BY <3>2 DEF CreateTemplates
      <4>2. t = newTemplate(c, r)
        BY <2>3, <4>1
      <4>3. /\ phase[c] = "create" /\ phase'[c] = "create" /\ updates' = updates /\ parents' = parents
        BY <3>2, Domains DEF CreateTemplates, step
      <4>4. PICK i \in DOMAIN updates[c] : r \in rolesOf(c, i)
        BY <4>3, TodoRole
      <4>5. /\ newTemplate(c, r) = [cluster |-> c, base |-> r, n |-> parents[c][r].n + 1, image |-> updates[c][i]]
            /\ r \in Roles /\ templateOf(c, r).image = i /\ started(c)
        BY <1>3, <4>3, <4>4, NewTemplate
      <4>6. t.base = r /\ t.n = parents[c][r].n + 1
        BY <4>2, <4>5
      <4>7. templateOf(c, r)' = templateOf(c, r)
        BY <4>3, <4>5, GraphKept
      <4>8. r \in createdFor(c)'
        <5>1. r \notin todo'[c]
          BY <4>1, Domains
        <5>2. r \in usersOf(c, DOMAIN updates[c])'
          BY <4>3, <4>5, <4>7 DEF usersOf
        <5> QED
          BY <4>3, <5>1, <5>2 DEF createdFor
      <4> QED
        BY <2>3, <4>3, <4>6, <4>8 DEF comes
    <3> QED
      BY <1>5, <2>1, <2>3, <3>1, <3>2, CommandTemplates
  <2>4. CASE t.cluster = c /\ t \in templates
    <3>1. ~GetTemplate(c)
      BY <2>4, FirstTemplates
    <3>2. parents' = parents
      <4>1. ASSUME Work(c) PROVE parents' = parents
        BY <3>1, <4>1 DEF Work, storeVars,
          EnsureImage, UploadOci, WaitForWorkRequests, CreateEFIImageSchema,
          EnsureCompatibleImageShapes, DetailsDone, PatchControlPlane, FindUpdates, StageImage,
          StageVMTemplates, CreateTemplates, CreateRefused, TemplatesDone, HelpMessages
      <4> QED
        BY <1>5, <4>1 DEF ClusterStep, Fault, fail, Begin, storeVars
    <3>3. patches \subseteq patches'
      BY <1>5, CommandPatches
    <3>4. CASE createdFor(c) \subseteq createdFor(c)'
      BY <1>4, <2>4, <3>2, <3>3, <3>4
    <3>5. CASE HelpMessages(c)
      <4>1. phase[c] = "help" /\ createdFor(c) = usersOf(c, DOMAIN updates[c])
        BY <3>5 DEF HelpMessages, step, createdFor
      <4>2. PICK r \in Roles : r = t.base
        BY <1>1, <2>4
      <4>3. CASE r \in createdFor(c) /\ t.n = parents[c][r].n + 1
        <5>1. PICK R : R = {s \in Roles : templateOf(c, s).image \in DOMAIN updates[c]}
          OBVIOUS
        <5>2. r \in R
          BY <4>1, <4>3, <5>1 DEF usersOf
        <5>3. patchFor(c, r, TRUE) \in patches'
          BY <3>5, <5>1, <5>2 DEF HelpMessages
        <5>4. PICK p \in patches' : p = patchFor(c, r, TRUE)
          BY <5>3
        <5>5. p.cluster = c /\ p.role = r /\ p.replaced
          BY <5>4 DEF patchFor
        <5> QED
          BY <2>4, <3>2, <4>2, <4>3, <5>4, <5>5 DEF comes
      <4>4. CASE \E p \in patches : p.cluster = c /\ p.role = r /\ p.replaced
        BY <4>1, <4>4 DEF OrderInv
      <4>5. CASE t.n <= parents[c][r].n
        BY <2>4, <3>2, <4>2, <4>5
      <4> QED
        BY <1>2, <2>4, <4>2, <4>3, <4>4, <4>5 DEF comes
    <3> QED
      BY <1>5, <2>1, <3>4, <3>5, CreatedSteps
  <2> QED
    BY <2>2, <2>3, <2>4
<1>6. ASSUME UNCHANGED <<templates, job, phase, localVars, status, world>>, NEW p \in patches, Apply(p)
      PROVE  t.n <= parents'[t.cluster][t.base].n \/ comes(t)'
  <2>1. t \in templates
    BY <1>6
  <2>2. PICK c \in Clusters, r \in Roles : c = t.cluster /\ r = t.base
    BY <1>1, <2>1
  <2>4. patches' = patches \ {p} /\ phase[p.cluster] = "idle" /\ p.cluster \in Clusters /\ p.role \in Roles
    BY <1>6 DEF Apply, TypeInv
  <2>5. CASE c # p.cluster
    <3>1. parents'[c] = parents[c]
      BY <1>6, <2>4, <2>5, Domains DEF Apply
    <3>2. createdFor(c)' = createdFor(c)
      BY <1>6, <3>1, CreatedKept DEF localVars
    <3> QED
      BY <1>4, <2>1, <2>2, <2>4, <2>5, <3>1, <3>2
  <2>6. CASE c = p.cluster
    <3>1. createdFor(c) = {}
      BY <2>4, <2>6 DEF createdFor
    <3>2. CASE p.replaced /\ p.role = r
      <4>1. p.n = parents[c][r].n + 1
        BY <2>6, <3>2 DEF OrderInv
      <4>2. parents'[c][r].n = p.n
        <5>1. parents'[c][r] = [version |-> p.version, base |-> p.base, n |-> p.n]
          BY <1>6, <2>6, <3>2, AppliedParents
        <5> QED
          BY <5>1
      <4>3. t.n <= parents[c][r].n \/ t.n = parents[c][r].n + 1
        BY <1>2, <2>1, <2>2 DEF comes
      <4> QED
        BY <1>1, <2>1, <2>2, <4>1, <4>2, <4>3
    <3>3. CASE ~(p.replaced /\ p.role = r)
      <4>1. parents'[c][r] = parents[c][r]
        <5>3. \A d \in Clusters, s \in Roles : (d # p.cluster \/ s # p.role) => parents'[d][s] = parents[d][s]
          BY <1>6, AppliedParents
        <5>1. p.replaced => parents'[c][r] = parents[c][r]
          BY <3>3, <5>3
        <5>2. ~p.replaced => parents' = parents
          BY <1>6, AppliedParents
        <5> QED
          BY <5>1, <5>2
      <4>2. t.n <= parents[c][r].n \/ (/\ t.n = parents[c][r].n + 1
                                       /\ \E q \in patches : q.cluster = c /\ q.role = r /\ q.replaced)
        BY <1>2, <2>1, <2>2, <3>1 DEF comes
      <4>3. \A q \in patches : (q.cluster = c /\ q.role = r /\ q.replaced) => q \in patches'
        BY <2>4, <3>3
      <4> QED
        BY <2>2, <4>1, <4>2, <4>3 DEF comes
    <3> QED
      BY <3>2, <3>3
  <2> QED
    BY <2>5, <2>6
<1>7. ASSUME UNCHANGED <<templates, job, phase, localVars, status, world>>, UNCHANGED <<parents, patches>>
      PROVE  t.n <= parents'[t.cluster][t.base].n \/ comes(t)'
  <2>1. t \in templates
    BY <1>7
  <2>2. PICK c \in Clusters, r \in Roles : c = t.cluster /\ r = t.base
    BY <1>1, <2>1
  <2>3. createdFor(c)' = createdFor(c)
    BY <1>7, CreatedKept DEF localVars
  <2> QED
    BY <1>4, <1>7, <2>1, <2>2, <2>3
<1>8. ASSUME NEW c, Edit(c) PROVE UNCHANGED <<parents, patches>>
  BY <1>8 DEF Edit
<1> QED
  BY <1>5, <1>6, <1>7, <1>8, Steps

LEMMA OrderStep == ASSUME StageInv, TypeInv, FitInv, ReadyInv, OrderInv, [Next]_vars PROVE OrderInv'
<1>1. world' = world
  BY WorldFixed
<1>2. ASSUME world.applies, NEW p \in patches'
      PROVE  /\ phase'[p.cluster] = "idle"
             /\ p.replaced =>
                    /\ p.n = parents'[p.cluster][p.role].n + 1
                    /\ \A q \in patches' : (q.cluster = p.cluster /\ q.role = p.role /\ q.replaced) => p = q
  BY <1>2, IdleStep, NextStep DEF nextOf
<1>3. ASSUME world.applies, ~world.faults, world.shared = {}
      PROVE  /\ \A c \in Clusters : status'[c] # "failed"
             /\ \A t \in templates' : t.n <= parents'[t.cluster][t.base].n \/ comes(t)'
  BY <1>3, SucceedsStep, ComesStep
<1> QED
  BY <1>1, <1>2, <1>3 DEF OrderInv

-----------------------------------------------------------------------------
(* The newest images                                                        *)

\* The latest images depend on what images there are only.
LEMMA SameMatching ==
    ASSUME NEW v, NEW a, matching(v, a)' = matching(v, a)
    PROVE  GetImage(v, a)' = GetImage(v, a)
<1>1. PICK M : M = matching(v, a)
  OBVIOUS
<1>2. matching(v, a)' = M
  BY <1>1
<1>3. GetImage(v, a) = IF M = {} THEN 0 ELSE CHOOSE i \in M : \A j \in M : j <= i
  BY <1>1 DEF GetImage
<1>4. GetImage(v, a)' = IF M = {} THEN 0 ELSE CHOOSE i \in M : \A j \in M : j <= i
  BY <1>2 DEF GetImage
<1> QED
  BY <1>3, <1>4

LEMMA GetImageKept ==
    ASSUME StageInv, TypeInv, FitInv, [Next]_vars, Len(images') = Len(images), NEW v, NEW a
    PROVE  GetImage(v, a)' = GetImage(v, a)
<1>1. matching(v, a)' = matching(v, a)
  BY ImagesStep DEF matching, ImagesKept
<1> QED
  BY <1>1, SameMatching

LEMMA GetImageAdded ==
    ASSUME StageInv, TypeInv, NEW c \in Clusters, NEW v \in Versions, NEW a \in Archs,
           UploadAsync(c, v, a)
    PROVE  /\ GetImage(v, a)' = Len(images) + 1
           /\ \A w, b : (w # v \/ b # a) => GetImage(w, b)' = GetImage(w, b)
<1>1. /\ Len(images') = Len(images) + 1 /\ Len(images) \in Nat
      /\ \A i \in 1..Len(images) : images'[i] = images[i]
      /\ images'[Len(images) + 1] = [version |-> v, arch |-> a, state |-> "importing",
                                     schema |-> FALSE, shapes |-> a = "amd64"]
  BY ImageAdded, StateTypes
<1>2. images'[Len(images) + 1].version = v /\ images'[Len(images) + 1].arch = a
  BY <1>1
<1>3. PICK n \in Nat : n = Len(images)
  BY <1>1
<1>4. ASSUME NEW w, NEW b, w # v \/ b # a PROVE GetImage(w, b)' = GetImage(w, b)
  <2>1. matching(w, b)' = matching(w, b)
    BY <1>1, <1>2, <1>3, <1>4 DEF matching
  <2> QED
    BY <2>1, SameMatching
<1>5. PICK M : M = matching(v, a)'
  OBVIOUS
<1>6. n + 1 \in M /\ M \subseteq 1..(n + 1)
  BY <1>1, <1>2, <1>3, <1>5 DEF matching
<1>7. GetImage(v, a)' = IF M = {} THEN 0 ELSE CHOOSE i \in M : \A j \in M : j <= i
  BY <1>5 DEF GetImage
<1>8. \A i \in M : (\A j \in M : j <= i) => i = n + 1
  BY <1>6
<1>9. n + 1 \in M /\ \A j \in M : j <= n + 1
  BY <1>6
<1>10. PICK g : g = CHOOSE i \in M : \A j \in M : j <= i
  OBVIOUS
<1>11. g \in M /\ \A j \in M : j <= g
  BY <1>9, <1>10
<1>12. g = n + 1
  BY <1>8, <1>11
<1> QED
  BY <1>3, <1>4, <1>6, <1>7, <1>10, <1>12

\* Images are only added for clusters of OCI.
LEMMA ImagesBeside ==
    ASSUME StageInv, TypeInv, FitInv, [Next]_vars
    PROVE  \/ Len(images') = Len(images)
           \/ \E c \in Clusters : ~olvm(c) /\ (EnsureImage(c) \/ UploadOci(c) \/ StageImage(c))
<1>1. \A c \in Clusters : olvm(c) => phase[c] \notin {"look", "images"}
  BY DEF FitInv, jobInv
<1>2. ASSUME NEW c \in Clusters, EnsureImage(c) \/ UploadOci(c) \/ StageImage(c) PROVE ~olvm(c)
  BY <1>1, <1>2 DEF EnsureImage, UploadOci, StageImage, step
<1>3. ASSUME NEW c \in Clusters, Work(c), ~(EnsureImage(c) \/ UploadOci(c) \/ StageImage(c))
      PROVE  Len(images') = Len(images)
  <2>1. CASE WaitForWorkRequests(c)
    BY <2>1 DEF WaitForWorkRequests, storeVars
  <2>2. ASSUME NEW i \in work[c], NEW e, images' = [images EXCEPT ![i] = e] PROVE Len(images') = Len(images)
    <3>1. i \in 1..Len(images) /\ images \in Seq(ImageRecord)
      BY StateTypes DEF StageInv
    <3> QED
      BY <2>2, <3>1, LenProperties
  <2>3. CASE CreateEFIImageSchema(c)
    <3>1. PICK i \in work[c] : images' = [images EXCEPT ![i].schema = TRUE]
      BY <2>3 DEF CreateEFIImageSchema
    <3>2. PICK e : e = [images[i] EXCEPT !.schema = TRUE]
      OBVIOUS
    <3>3. images' = [images EXCEPT ![i] = e]
      BY <3>1, <3>2
    <3> QED
      BY <2>2, <3>3
  <2>4. CASE EnsureCompatibleImageShapes(c)
    <3>1. PICK i \in work[c] : images' = [images EXCEPT ![i].shapes = TRUE]
      BY <2>4 DEF EnsureCompatibleImageShapes
    <3>2. PICK e : e = [images[i] EXCEPT !.shapes = TRUE]
      OBVIOUS
    <3>3. images' = [images EXCEPT ![i] = e]
      BY <3>1, <3>2
    <3> QED
      BY <2>2, <3>3
  <2>5. CASE ~WaitForWorkRequests(c) /\ ~CreateEFIImageSchema(c) /\ ~EnsureCompatibleImageShapes(c)
    <3>1. images' = images
      BY <1>3, <2>5 DEF Work, storeVars, DetailsDone, GetTemplate, PatchControlPlane, FindUpdates,
         StageVMTemplates, CreateTemplates, CreateRefused, TemplatesDone, HelpMessages
    <3> QED
      BY <3>1
  <2> QED
    BY <2>1, <2>3, <2>4, <2>5
<1>4. ASSUME NEW i \in 1..Len(images), Import(i) PROVE Len(images') = Len(images)
  <2>1. PICK s : images' = [images EXCEPT ![i].state = s]
    BY <1>4 DEF Import
  <2>2. images \in Seq(ImageRecord)
    BY StateTypes
  <2> QED
    BY <2>1, <2>2, LenProperties
<1>5. ASSUME NEW c \in Clusters, Fault(c) PROVE images' = images
  BY <1>5 DEF Fault, fail, storeVars
<1>6. ASSUME NEW c, NEW k, NEW v, Begin(c, k, v) PROVE images' = images
  BY <1>6 DEF Begin, storeVars
<1>7. ASSUME NEW p, Apply(p) PROVE images' = images
  BY <1>7 DEF Apply
<1>8. ASSUME NEW c, Edit(c) PROVE images' = images
  BY <1>8 DEF Edit
<1>9. ASSUME NEW v, Release(v) PROVE images' = images
  BY <1>9 DEF Release
<1>10. ASSUME UNCHANGED vars PROVE images' = images
  BY <1>10 DEF vars, storeVars
<1> QED
  BY <1>2, <1>3, <1>4, <1>5, <1>6, <1>7, <1>8, <1>9, <1>10 DEF Next, Imports

LEMMA LatestFixed ==
    ASSUME StageInv, TypeInv, FitInv, [Next]_vars, Len(images') = Len(images), NEW c
    PROVE  \A r, v, i : latest(c, r, v, i)' <=> latest(c, r, v, i)
<1>1. \A r : archOf(c, r)' = archOf(c, r)
  BY ClusterFixed
<1>2. \A v, a : GetImage(v, a)' = GetImage(v, a)
  BY GetImageKept
<1> QED
  BY <1>1, <1>2 DEF latest

LEMMA SameArch ==
    ASSUME [Next]_vars, NEW c, NEW i, rolesOf(c, i)' = rolesOf(c, i)
    PROVE  archOfImage(c, i)' = archOfImage(c, i)
<1>1. PICK R : R = rolesOf(c, i)
  OBVIOUS
<1>2. rolesOf(c, i)' = R
  BY <1>1
<1>3. PICK s : s = CHOOSE r \in R : TRUE
  OBVIOUS
<1>4. archOfImage(c, i) = archOf(c, s)
  BY <1>1, <1>3 DEF archOfImage
<1>5. archOfImage(c, i)' = archOf(c, s)'
  BY <1>2, <1>3 DEF archOfImage
<1> QED
  BY <1>4, <1>5, ClusterFixed

\* A step that leaves the templates and the updates of a cluster alone, and
\* adds no image, leaves alone which images are the newest.
LEMMA LatestSame ==
    ASSUME StageInv, TypeInv, FitInv, [Next]_vars, NEW c \in Clusters, ~olvm(c), latestInv(c),
           \A v, a : GetImage(v, a)' = GetImage(v, a),
           parents'[c] = parents[c], updates'[c] = updates[c], job'[c] = job[c],
           \A p : p.cluster = c => (p \in patches' <=> p \in patches),
           phase'[c] = "idle" => phase[c] = "idle",
           phase'[c] \in {"graph", "updates"} => phase[c] \in {"graph", "updates"},
           staging(c)' => staging(c),
           \A i : (phase'[c] = "images" /\ i \in todo'[c]) <=> (phase[c] = "images" /\ i \in todo[c]),
           phase[c] = "images" => released' = released
    PROVE  latestInv(c)'
<1>1. \A r : archOf(c, r)' = archOf(c, r)
  BY ClusterFixed
<1>2. \A r, v, i : latest(c, r, v, i)' <=> latest(c, r, v, i)
  BY <1>1 DEF latest
<1>3. started(c)' <=> started(c)
  BY DEF started
<1>4. started(c) => /\ \A r \in Roles : templateOf(c, r)' = templateOf(c, r)
                    /\ \A i : rolesOf(c, i)' = rolesOf(c, i)
  BY GraphKept
<1>5. templates \subseteq templates'
  BY TemplatesType
<1>6. ASSUME started(c), NEW v PROVE hasLatest(c, v) => hasLatest(c, v)'
  <2> SUFFICES ASSUME hasLatest(c, v), NEW r \in Roles
               PROVE  parents'[c][r].version = v /\ latest(c, r, v, templateOf(c, r).image)'
    BY DEF hasLatest
  <2>1. PICK i : i = templateOf(c, r).image
    OBVIOUS
  <2>2. parents[c][r].version = v /\ latest(c, r, v, i) /\ templateOf(c, r)'.image = i
    BY <1>4, <1>6, <2>1 DEF hasLatest
  <2> QED
    BY <1>1, <1>2, <2>2 DEF latest
<1>7. ASSUME started(c), NEW v PROVE willHaveLatest(c, v) => willHaveLatest(c, v)'
  <2> SUFFICES ASSUME willHaveLatest(c, v), NEW r \in Roles
               PROVE  IF \E p \in patches' : p.cluster = c /\ p.role = r /\ p.replaced
                      THEN \E p \in patches', t \in templates' :
                               /\ p.cluster = c /\ p.role = r /\ p.replaced /\ p.version = v
                               /\ isNamed(t, c, p.base, p.n) /\ latest(c, r, v, t.image)'
                      ELSE parents'[c][r].version = v /\ latest(c, r, v, templateOf(c, r).image)'
    BY <1>1 DEF willHaveLatest, latest, isNamed
  <2>1. CASE \E p \in patches : p.cluster = c /\ p.role = r /\ p.replaced
    <3>1. PICK p \in patches, t \in templates :
             /\ p.cluster = c /\ p.role = r /\ p.replaced /\ p.version = v
             /\ isNamed(t, c, p.base, p.n) /\ latest(c, r, v, t.image)
      BY <2>1 DEF willHaveLatest
    <3>2. PICK i : i = t.image
      OBVIOUS
    <3>3. latest(c, r, v, i)'
      BY <1>2, <3>1, <3>2
    <3> QED
      BY <1>5, <3>1, <3>2, <3>3
  <2>2. CASE ~\E p \in patches : p.cluster = c /\ p.role = r /\ p.replaced
    <3>1. PICK i : i = templateOf(c, r).image
      OBVIOUS
    <3>2. parents[c][r].version = v /\ latest(c, r, v, i) /\ templateOf(c, r)'.image = i
      BY <1>4, <1>7, <2>2, <3>1 DEF willHaveLatest
    <3>3. latest(c, r, v, i)'
      BY <1>2, <3>2
    <3> QED
      BY <2>2, <3>2, <3>3
  <2> QED
    BY <2>1, <2>2
<1>8. phase[c] \in {"graph", "updates"} \/ staging(c) => started(c)
  BY DEF FitInv, jobInv, staging
<1>9. ASSUME staging(c), NEW r \in Roles PROVE stagesNewest(c, r)'
  <2>1. PICK i, v : i = templateOf(c, r).image /\ v = job[c].version
    OBVIOUS
  <2>2. templateOf(c, r)'.image = i /\ job'[c].version = v /\ r \in rolesOf(c, i)
    BY <1>4, <1>8, <1>9, <2>1 DEF rolesOf
  <2>3. /\ parents'[c][r].version = parents[c][r].version
        /\ parents'[c]["cp"].version = parents[c]["cp"].version
    OBVIOUS
  <2>4. stagesNewest(c, r)
    BY <1>9 DEF latestInv
  <2>5. CASE phase[c] = "images" /\ i \in todo[c]
    <3>1. PICK w : w = parents[c][r].version
      OBVIOUS
    <3>2. /\ w = parents[c]["cp"].version
          /\ latest(c, r, w, i)
          /\ i \in DOMAIN updates[c] <=> doUpdate(c, i)
      BY <2>1, <2>4, <2>5, <3>1 DEF stagesNewest
    <3>3. latest(c, r, w, i)'
      BY <1>2, <3>2
    <3>4. i \in 1..Len(images)
      <4>1. i \in 0..Len(images) /\ i # 0
        BY <3>2, StateTypes, GetImageIs DEF latest
      <4> QED
        BY <4>1, StateTypes
    <3>5. images'[i].version = images[i].version
      BY <3>4, ImagesStep DEF ImagesKept
    <3>6. archOfImage(c, i)' = archOfImage(c, i)
      BY <1>1, <1>4, <1>8, <1>9, SameArch
    <3>7. doUpdate(c, i)' <=> doUpdate(c, i)
      <4>1. PICK a : a = archOfImage(c, i)
        OBVIOUS
      <4>2. GetImage(v, a)' = GetImage(v, a) /\ archOfImage(c, i)' = a /\ released' = released
        BY <2>5, <3>6, <4>1
      <4>3. doUpdate(c, i) <=> IF images[i].version = v THEN GetImage(v, a) = i /\ released[v] >= i ELSE GetImage(v, a) = 0
        BY <2>1, <4>1 DEF doUpdate
      <4>4. doUpdate(c, i)' <=> IF images'[i].version = v THEN GetImage(v, a)' = i /\ released'[v] >= i ELSE GetImage(v, a)' = 0
        BY <2>2, <4>2 DEF doUpdate
      <4> QED
        BY <3>5, <4>2, <4>3, <4>4
    <3>8. phase'[c] = "images" /\ i \in todo'[c]
      BY <2>5
    <3>9. i \in DOMAIN updates'[c] <=> doUpdate(c, i)'
      BY <3>2, <3>7
    <3> QED
      BY <2>2, <2>3, <3>1, <3>2, <3>3, <3>8, <3>9 DEF stagesNewest
  <2>6. CASE ~(phase[c] = "images" /\ i \in todo[c])
    <3>1. PICK k : k = target(c, r)
      OBVIOUS
    <3>2. /\ latest(c, r, v, k)
          /\ parents[c][r].version = parents[c]["cp"].version
          /\ i \notin DOMAIN updates[c] => parents[c][r].version = v
      BY <2>1, <2>4, <2>6, <3>1 DEF stagesNewest
    <3>3. latest(c, r, v, k)'
      BY <1>2, <3>2
    <3>4. target(c, r)' = k
      BY <2>1, <2>2, <3>1 DEF target
    <3>5. ~(phase'[c] = "images" /\ i \in todo'[c])
      BY <2>6
    <3>6. latest(c, r, v, target(c, r))'
      BY <3>3, <3>4 DEF latest
    <3> QED
      BY <2>2, <2>3, <3>2, <3>5, <3>6 DEF stagesNewest
  <2> QED
    BY <2>5, <2>6
<1>10. (started(c)' /\ phase'[c] = "idle") => \E v \in Versions : willHaveLatest(c, v)'
  BY <1>3, <1>7 DEF latestInv
<1>11. phase'[c] \in {"graph", "updates"} => \E v \in Versions : hasLatest(c, v)'
  BY <1>6, <1>8 DEF latestInv
<1>12. staging(c)' =>
           /\ \A r, s \in Roles : archOf(c, r)' = archOf(c, s)' => templateOf(c, r)'.image = templateOf(c, s)'.image
           /\ \A r \in Roles : stagesNewest(c, r)'
  BY <1>1, <1>4, <1>8, <1>9 DEF latestInv
<1> QED
  BY <1>10, <1>11, <1>12 DEF latestInv

\* The template that a role refers to after a step.
LEMMA NewTemplateOf ==
    ASSUME StageInv, TypeInv, FitInv, [Next]_vars, NEW c, NEW r, NEW t \in templates',
           t.cluster = c, t.base = parents'[c][r].base, t.n = parents'[c][r].n
    PROVE  templateOf(c, r)' = t
<1>1. PICK b, n : b = parents'[c][r].base /\ n = parents'[c][r].n
  OBVIOUS
<1>2. templateOf(c, r)' = CHOOSE u \in templates' : u.cluster = c /\ u.base = b /\ u.n = n
  BY <1>1 DEF templateOf
<1>3. \A u \in templates' : (u.cluster = c /\ u.base = b /\ u.n = n) => u = t
  BY <1>1, NamesUnique DEF UniqueNames
<1>4. t.cluster = c /\ t.base = b /\ t.n = n
  BY <1>1
<1> QED
  BY <1>2, <1>3, <1>4

\* A start takes the newest images, or makes them.
LEMMA FirstLatest ==
    ASSUME StageInv, TypeInv, FitInv, [Next]_vars, NEW c \in Clusters, ~olvm(c), GetTemplate(c)
    PROVE  latestInv(c)'
<1>1. phase[c] = "template" /\ phase'[c] = "idle" /\ images' = images /\ patches' = patches
  BY Domains DEF GetTemplate, step
<1>2. PICK v \in Versions : v = job[c].version
  BY <1>1 DEF FitInv, jobInv
<1>3. \A p \in patches' : p.cluster # c
  BY <1>1, FirstTemplates
<1>4. ASSUME NEW r \in Roles
      PROVE  parents'[c][r].version = v /\ latest(c, r, v, templateOf(c, r).image)'
  <2>1. PICK i : i = templateImage(c, r)
    OBVIOUS
  <2>2. i # 0 /\ [cluster |-> c, base |-> baseOf(c, r), n |-> 1, image |-> i] \in templates'
    BY <2>1 DEF GetTemplate
  <2>3. i = GetImage(v, archOf(c, r))
    BY <1>2, <2>1 DEF templateImage
  <2>4. parents'[c][r] = [version |-> v, base |-> baseOf(c, r), n |-> 1]
    BY <1>2, FirstTemplates
  <2>5. parents'[c][r].version = v /\ parents'[c][r].base = baseOf(c, r) /\ parents'[c][r].n = 1
    BY <2>4
  <2>6. PICK t \in templates' : t.cluster = c /\ t.base = baseOf(c, r) /\ t.n = 1 /\ t.image = i
    BY <2>2
  <2>7. templateOf(c, r)' = t
    BY <2>5, <2>6, NewTemplateOf
  <2>8. GetImage(v, archOf(c, r))' = GetImage(v, archOf(c, r))
    <3>1. PICK a : a = archOf(c, r)
      OBVIOUS
    <3>2. archOf(c, r)' = a
      BY <3>1, ClusterFixed
    <3>3. GetImage(v, a)' = GetImage(v, a)
      BY <1>1, GetImageKept
    <3> QED
      BY <3>1, <3>2, <3>3
  <2> QED
    BY <2>2, <2>3, <2>5, <2>6, <2>7, <2>8 DEF latest
<1>5. willHaveLatest(c, v)'
  BY <1>3, <1>4 DEF willHaveLatest
<1>6. ~staging(c)' /\ phase'[c] \notin {"graph", "updates"}
  BY <1>1 DEF staging
<1> QED
  BY <1>5, <1>6 DEF latestInv

\* A stage begins when all patches are applied.
LEMMA BeginLatest ==
    ASSUME StageInv, TypeInv, FitInv, [Next]_vars, NEW c \in Clusters, ~olvm(c), latestInv(c),
           world.applies, NEW kind \in {"start", "stage", "upload"}, NEW v \in Versions, Begin(c, kind, v)
    PROVE  latestInv(c)'
<1>1. /\ phase[c] = "idle" /\ \A p \in patches : p.cluster # c
      /\ UNCHANGED <<images, templates, parents, world>>
  BY DEF Begin, storeVars
<1>2. phase'[c] \in {"graph", "look"} /\ (phase'[c] = "graph" => started(c))
  BY Domains DEF Begin
<1>3. ~staging(c)'
  BY <1>2 DEF staging
<1>4. ASSUME started(c), NEW w, willHaveLatest(c, w) PROVE hasLatest(c, w)'
  <2>1. hasLatest(c, w)
    BY <1>1, <1>4 DEF willHaveLatest, hasLatest
  <2>2. \A r \in Roles : templateOf(c, r)' = templateOf(c, r)
    BY <1>1, <1>4, GraphKept
  <2>3. \A r, x, i : latest(c, r, x, i)' <=> latest(c, r, x, i)
    BY <1>1, LatestFixed
  <2>4. ASSUME NEW r \in Roles
        PROVE  parents'[c][r].version = w /\ latest(c, r, w, templateOf(c, r).image)'
    <3>1. PICK i : i = templateOf(c, r).image
      OBVIOUS
    <3>2. latest(c, r, w, i)' /\ templateOf(c, r)'.image = i
      BY <2>1, <2>2, <2>3, <3>1 DEF hasLatest
    <3> QED
      BY <1>1, <2>1, <3>2 DEF hasLatest, latest
  <2> QED
    BY <2>4 DEF hasLatest
<1> QED
  BY <1>1, <1>2, <1>3, <1>4 DEF latestInv

\* A stage that finds the images in use: both roles have the newest image of
\* one version.
LEMMA FoundLatest ==
    ASSUME StageInv, TypeInv, FitInv, [Next]_vars, NEW c \in Clusters, ~olvm(c), latestInv(c), FindUpdates(c)
    PROVE  latestInv(c)'
<1>1. /\ phase[c] = "updates" /\ phase'[c] = "images"
      /\ todo'[c] = imagesOf(c)
      /\ updates'[c] = [i \in {k \in imagesOf(c) : doUpdate(c, k)} |-> 0]
      /\ UNCHANGED <<images, released, templates, parents, job, world>>
  BY Domains DEF FindUpdates, step, storeVars
<1>2. PICK w \in Versions : hasLatest(c, w)
  BY <1>1 DEF latestInv
<1>3. \A r \in Roles : parents[c][r].version = w /\ latest(c, r, w, templateOf(c, r).image)
  BY <1>2 DEF hasLatest
<1>4. \A r, s \in Roles : archOf(c, r) = archOf(c, s) => templateOf(c, r).image = templateOf(c, s).image
  BY <1>3 DEF latest
<1>5. /\ \A r \in Roles : templateOf(c, r)' = templateOf(c, r) /\ archOf(c, r)' = archOf(c, r)
      /\ \A r, x, i : latest(c, r, x, i)' <=> latest(c, r, x, i)
      /\ \A i : doUpdate(c, i)' <=> doUpdate(c, i)
  <2>1. started(c)
    BY <1>1 DEF FitInv, jobInv
  <2>2. \A r \in Roles : templateOf(c, r)' = templateOf(c, r)
    BY <1>1, <2>1, GraphKept
  <2>3. \A i : rolesOf(c, i)' = rolesOf(c, i)
    BY <1>1, <2>1, GraphKept
  <2>4. \A i : archOfImage(c, i)' = archOfImage(c, i)
    BY <2>3, SameArch
  <2>5. \A v, a : GetImage(v, a)' = GetImage(v, a)
    BY <1>1, GetImageKept
  <2>6. ASSUME NEW i PROVE doUpdate(c, i)' <=> doUpdate(c, i)
    <3>1. PICK a, v : a = archOfImage(c, i) /\ v = job[c].version
      OBVIOUS
    <3>2. GetImage(v, a)' = GetImage(v, a) /\ archOfImage(c, i)' = a /\ job'[c].version = v
      BY <1>1, <2>4, <2>5, <3>1
    <3>3. doUpdate(c, i) <=> IF images[i].version = v THEN GetImage(v, a) = i /\ released[v] >= i ELSE GetImage(v, a) = 0
      BY <3>1 DEF doUpdate
    <3>4. doUpdate(c, i)' <=> IF images'[i].version = v THEN GetImage(v, a)' = i /\ released'[v] >= i ELSE GetImage(v, a)' = 0
      BY <3>2 DEF doUpdate
    <3> QED
      BY <1>1, <3>2, <3>3, <3>4
  <2>7. \A r, x, i : latest(c, r, x, i)' <=> latest(c, r, x, i)
    BY <1>1, LatestFixed
  <2> QED
    BY <2>2, <2>6, <2>7, ClusterFixed
<1>6. ASSUME NEW r \in Roles PROVE stagesNewest(c, r)'
  <2>1. PICK i : i = templateOf(c, r).image
    OBVIOUS
  <2>2. i \in imagesOf(c)
    BY <2>1 DEF imagesOf
  <2>3. i \in DOMAIN updates'[c] <=> doUpdate(c, i)'
    BY <1>1, <1>5, <2>2
  <2>4. templateOf(c, r)'.image = i /\ phase'[c] = "images" /\ i \in todo'[c]
    BY <1>1, <1>5, <2>1, <2>2
  <2>5. /\ parents'[c][r].version = w /\ parents'[c]["cp"].version = w
        /\ latest(c, r, w, i)'
    BY <1>1, <1>3, <1>5, <2>1 DEF Roles
  <2> QED
    BY <2>3, <2>4, <2>5 DEF stagesNewest
<1> QED
  BY <1>1, <1>4, <1>5, <1>6 DEF latestInv

\* One image of a stage: a new image or the newest one takes its place.
LEMMA StagedLatest ==
    ASSUME StageInv, TypeInv, FitInv, [Next]_vars, NEW c \in Clusters, ~olvm(c), latestInv(c), StageImage(c)
    PROVE  latestInv(c)'
<1>1. /\ phase[c] = "images" /\ phase'[c] \in {"images", "wait"}
      /\ UNCHANGED <<released, templates, parents, job, world>>
  BY Domains DEF StageImage, step
<1>2. PICK v \in Versions : v = job[c].version
  BY <1>1 DEF FitInv, jobInv
<1>3. job[c].kind = "stage" /\ started(c) /\ staging(c) /\ todo[c] \subseteq imagesOf(c)
  BY <1>1 DEF FitInv, jobInv, staging, updateInv
<1>4. PICK i \in todo[c] :
        /\ phase'[c] = IF todo[c] = {i} THEN "wait" ELSE "images"
        /\ todo'[c] = todo[c] \ {i}
        /\ \/ /\ i \in DOMAIN updates[c]
              /\ UploadAsync(c, v, archOfImage(c, i))
              /\ updates' = [updates EXCEPT ![c][i] = Len(images) + 1]
           \/ /\ i \notin DOMAIN updates[c] /\ minorVersionChanged(c)
              /\ LET latestOne == GetImage(v, archOfImage(c, i)) IN
                 /\ latestOne # 0
                 /\ updates' = [updates EXCEPT ![c] =
                        [k \in DOMAIN @ \cup {i} |-> IF k = i THEN latestOne ELSE @[k]]]
              /\ UNCHANGED images
           \/ /\ i \notin DOMAIN updates[c] /\ ~minorVersionChanged(c)
              /\ UNCHANGED <<images, updates>>
  <2>1. PICK i \in todo[c] :
          /\ step(c, "images", IF todo[c] = {i} THEN "wait" ELSE "images")
          /\ todo' = [todo EXCEPT ![c] = @ \ {i}]
          /\ \/ /\ i \in DOMAIN updates[c]
                /\ UploadAsync(c, job[c].version, archOfImage(c, i))
                /\ updates' = [updates EXCEPT ![c][i] = Len(images) + 1]
             \/ /\ i \notin DOMAIN updates[c] /\ minorVersionChanged(c)
                /\ LET latestOne == GetImage(job[c].version, archOfImage(c, i)) IN
                   /\ latestOne # 0
                   /\ updates' = [updates EXCEPT ![c] =
                          [k \in DOMAIN @ \cup {i} |-> IF k = i THEN latestOne ELSE @[k]]]
                /\ UNCHANGED <<images, work>>
             \/ /\ i \notin DOMAIN updates[c] /\ ~minorVersionChanged(c)
                /\ UNCHANGED <<images, work, updates>>
    BY Zenon DEF StageImage
  <2>2. phase'[c] = IF todo[c] = {i} THEN "wait" ELSE "images"
    BY <2>1, Domains DEF step
  <2>3. todo'[c] = todo[c] \ {i}
    BY <2>1, Domains
  <2>4. UNCHANGED <<images, work>> => UNCHANGED images
    OBVIOUS
  <2>5. UNCHANGED <<images, work, updates>> => UNCHANGED <<images, updates>>
    OBVIOUS
  <2> QED
    BY <1>2, <2>1, <2>2, <2>3, <2>4, <2>5, Zenon
<1>5. PICK a : a = archOfImage(c, i)
  OBVIOUS
<1>6. rolesOf(c, i) # {} /\ rolesOf(c, i) \subseteq Roles
  BY <1>3 DEF imagesOf, rolesOf
<1>7. \A r, s \in Roles : archOf(c, r) = archOf(c, s) => templateOf(c, r).image = templateOf(c, s).image
  BY <1>3 DEF latestInv
<1>8. \A r \in Roles : images[templateOf(c, r).image].arch = archOf(c, r) /\ templateOf(c, r).image \in 1..Len(images)
  BY <1>3 DEF FitInv, parentInv, fits
<1>9. \A r \in rolesOf(c, i) : archOf(c, r) = images[i].arch
  BY <1>6, <1>8 DEF rolesOf
<1>10. a = images[i].arch
  <2>1. PICK s : s = CHOOSE r \in rolesOf(c, i) : TRUE
    OBVIOUS
  <2>2. s \in rolesOf(c, i)
    BY <1>6, <2>1
  <2>3. a = archOf(c, s)
    BY <1>5, <2>1 DEF archOfImage
  <2> QED
    BY <1>9, <2>2, <2>3
<1>11. \A r \in Roles : templateOf(c, r).image = i <=> archOf(c, r) = a
  <2>1. \A r \in Roles : templateOf(c, r).image = i => archOf(c, r) = a
    BY <1>9, <1>10 DEF rolesOf
  <2>2. PICK s \in rolesOf(c, i) : TRUE
    BY <1>6
  <2>3. s \in Roles /\ templateOf(c, s).image = i /\ archOf(c, s) = a
    BY <1>6, <1>9, <1>10, <2>2 DEF rolesOf
  <2> QED
    BY <1>7, <2>1, <2>3
<1>12. a \in Archs
  BY <1>6, <1>11, RoleTypes DEF rolesOf
<1>13. \A w, b : (w # v \/ b # a) => GetImage(w, b)' = GetImage(w, b)
  <2>1. CASE UploadAsync(c, v, a)
    BY <1>12, <2>1, GetImageAdded
  <2>2. CASE images' = images
    BY <2>2, GetImageKept
  <2> QED
    BY <1>4, <1>5, <2>1, <2>2
<1>14. /\ \A r \in Roles : templateOf(c, r)' = templateOf(c, r)
       /\ \A k : archOfImage(c, k)' = archOfImage(c, k)
       /\ \A r : archOf(c, r)' = archOf(c, r)
  BY <1>1, <1>3, GraphKept, SameArch, ClusterFixed
<1>15. /\ \A k : k # i => (k \in DOMAIN updates'[c] <=> k \in DOMAIN updates[c])
       /\ \A k \in DOMAIN updates[c] : k # i => updates'[c][k] = updates[c][k]
  BY <1>4, Domains
<1>16. \A k : (phase'[c] = "images" /\ k \in todo'[c]) <=> (k # i /\ k \in todo[c])
  BY <1>4
<1>17. ASSUME NEW r \in Roles, templateOf(c, r).image # i PROVE stagesNewest(c, r)'
  <2>1. PICK j, b : j = templateOf(c, r).image /\ b = archOf(c, r)
    OBVIOUS
  <2>2. \A w : GetImage(w, b)' = GetImage(w, b)
    BY <1>11, <1>13, <1>17, <2>1
  <2>3. stagesNewest(c, r)
    BY <1>3 DEF latestInv
  <2>4. templateOf(c, r)'.image = j /\ job'[c].version = v /\ archOf(c, r)' = b
    BY <1>1, <1>2, <1>14, <2>1
  <2>5. parents'[c] = parents[c]
    BY <1>1
  <2>6. CASE j \in todo[c]
    <3>1. PICK w : w = parents[c][r].version
      OBVIOUS
    <3>2. /\ w = parents[c]["cp"].version
          /\ j # 0 /\ j = GetImage(w, b)
          /\ j \in DOMAIN updates[c] <=> doUpdate(c, j)
      BY <1>1, <2>1, <2>3, <2>6, <3>1 DEF stagesNewest, latest
    <3>3. latest(c, r, w, j)'
      BY <2>2, <2>4, <3>2 DEF latest
    <3>4. archOfImage(c, j) = b
      <4>1. r \in rolesOf(c, j)
        BY <2>1 DEF rolesOf
      <4>2. \A s \in rolesOf(c, j) : archOf(c, s) = images[j].arch
        BY <1>8 DEF rolesOf
      <4>3. PICK s : s = CHOOSE q \in rolesOf(c, j) : TRUE
        OBVIOUS
      <4>4. s \in rolesOf(c, j) /\ archOfImage(c, j) = archOf(c, s)
        BY <4>1, <4>3 DEF archOfImage
      <4> QED
        BY <2>1, <4>1, <4>2, <4>4
    <3>5. images'[j].version = images[j].version
      BY <1>8, <2>1, ImagesStep DEF ImagesKept
    <3>6. doUpdate(c, j)' <=> doUpdate(c, j)
      <4>1. doUpdate(c, j) <=> IF images[j].version = v THEN GetImage(v, b) = j /\ released[v] >= j ELSE GetImage(v, b) = 0
        BY <1>2, <3>4 DEF doUpdate
      <4>2. archOfImage(c, j)' = b
        BY <1>14, <3>4
      <4>3. doUpdate(c, j)' <=> IF images'[j].version = v THEN GetImage(v, b)' = j /\ released'[v] >= j ELSE GetImage(v, b)' = 0
        BY <2>4, <4>2 DEF doUpdate
      <4> QED
        BY <1>1, <2>2, <3>5, <4>1, <4>3
    <3>7. phase'[c] = "images" /\ j \in todo'[c]
      BY <1>16, <1>17, <2>1, <2>6
    <3>8. j \in DOMAIN updates'[c] <=> doUpdate(c, j)'
      BY <1>15, <1>17, <2>1, <3>2, <3>6
    <3> QED
      BY <2>4, <2>5, <3>1, <3>2, <3>3, <3>7, <3>8 DEF stagesNewest
  <2>7. CASE j \notin todo[c]
    <3>1. PICK k : k = target(c, r)
      OBVIOUS
    <3>2. /\ k # 0 /\ k = GetImage(v, b)
          /\ parents[c][r].version = parents[c]["cp"].version
          /\ j \notin DOMAIN updates[c] => parents[c][r].version = v
      BY <1>2, <2>1, <2>3, <2>7, <3>1 DEF stagesNewest, latest
    <3>3. target(c, r)' = k
      BY <1>15, <1>17, <2>1, <2>4, <3>1 DEF target
    <3>4. latest(c, r, v, target(c, r))'
      BY <2>2, <2>4, <3>2, <3>3 DEF latest
    <3>5. ~(phase'[c] = "images" /\ j \in todo'[c])
      BY <1>16, <2>7
    <3>6. j \notin DOMAIN updates'[c] => parents[c][r].version = v
      BY <1>15, <1>17, <2>1, <3>2
    <3> QED
      BY <2>4, <2>5, <3>2, <3>4, <3>5, <3>6 DEF stagesNewest
  <2> QED
    BY <2>6, <2>7
<1>18. ASSUME NEW r \in Roles, templateOf(c, r).image = i PROVE stagesNewest(c, r)'
  <2>1. archOf(c, r) = a /\ archOf(c, r)' = a
    BY <1>11, <1>14, <1>18
  <2>2. PICK w : w = parents[c][r].version
    OBVIOUS
  <2>3. /\ w = parents[c]["cp"].version
        /\ i # 0 /\ i = GetImage(w, a)
    <3>1. stagesNewest(c, r)
      BY <1>3 DEF latestInv
    <3> QED
      BY <1>1, <1>4, <1>18, <2>1, <2>2, <3>1 DEF stagesNewest, latest
  <2>4. templateOf(c, r)'.image = i /\ job'[c].version = v /\ parents'[c] = parents[c]
    BY <1>1, <1>2, <1>14, <1>18
  <2>5. ~(phase'[c] = "images" /\ i \in todo'[c])
    BY <1>16
  <2>6. CASE i \in DOMAIN updates[c]
    <3>1. UploadAsync(c, v, a) /\ updates' = [updates EXCEPT ![c][i] = Len(images) + 1]
      BY <1>4, <1>5, <2>6
    <3>2. GetImage(v, a)' = Len(images) + 1
      BY <1>12, <3>1, GetImageAdded
    <3>3. i \in DOMAIN updates'[c] /\ updates'[c][i] = Len(images) + 1
      BY <2>6, <3>1, Domains
    <3>4. target(c, r)' = Len(images) + 1
      BY <2>4, <3>3 DEF target
    <3>5. Len(images) + 1 # 0
      BY StateTypes
    <3>6. latest(c, r, v, target(c, r))'
      BY <2>1, <3>2, <3>4, <3>5 DEF latest
    <3> QED
      BY <2>2, <2>3, <2>4, <2>5, <3>3, <3>6 DEF stagesNewest
  <2>7. CASE i \notin DOMAIN updates[c] /\ minorVersionChanged(c)
    <3>1. PICK n : n = GetImage(v, a)
      OBVIOUS
    <3>2. /\ n # 0 /\ images' = images
          /\ updates' = [updates EXCEPT ![c] = [k \in DOMAIN @ \cup {i} |-> IF k = i THEN n ELSE @[k]]]
      BY <1>4, <1>5, <2>7, <3>1
    <3>3. GetImage(v, a)' = n
      BY <3>1, <3>2, GetImageKept
    <3>4. i \in DOMAIN updates'[c] /\ updates'[c][i] = n
      BY <3>2, Domains
    <3>5. target(c, r)' = n
      BY <2>4, <3>4 DEF target
    <3>6. latest(c, r, v, target(c, r))'
      BY <2>1, <3>2, <3>3, <3>5 DEF latest
    <3> QED
      BY <2>2, <2>3, <2>4, <2>5, <3>4, <3>6 DEF stagesNewest
  <2>8. CASE i \notin DOMAIN updates[c] /\ ~minorVersionChanged(c)
    <3>1. images' = images /\ updates' = updates
      BY <1>4, <2>8
    <3>2. w = v
      BY <1>2, <2>3, <2>8 DEF minorVersionChanged
    <3>3. GetImage(v, a)' = i
      BY <2>3, <3>1, <3>2, GetImageKept
    <3>4. target(c, r)' = i
      BY <2>4, <2>8, <3>1 DEF target
    <3>5. latest(c, r, v, target(c, r))'
      BY <2>1, <2>3, <3>3, <3>4 DEF latest
    <3> QED
      BY <2>2, <2>3, <2>4, <2>5, <3>2, <3>5 DEF stagesNewest
  <2> QED
    BY <2>6, <2>7, <2>8
<1>19. \A r, s \in Roles : archOf(c, r)' = archOf(c, s)' => templateOf(c, r)'.image = templateOf(c, s)'.image
  BY <1>7, <1>14
<1> QED
  BY <1>1, <1>17, <1>18, <1>19 DEF latestInv

\* The patches of a stage give the newest images to the roles.
LEMMA PrintedLatest ==
    ASSUME StageInv, TypeInv, FitInv, OrderInv, [Next]_vars, NEW c \in Clusters, ~olvm(c), latestInv(c),
           world.applies, HelpMessages(c)
    PROVE  latestInv(c)'
<1>1. /\ phase[c] = "help" /\ phase'[c] = "idle"
      /\ UNCHANGED <<images, templates, parents>>
  BY Domains DEF HelpMessages, step
<1>2. PICK v \in Versions : v = job[c].version
  BY <1>1 DEF FitInv, jobInv
<1>3. started(c) /\ staging(c)
  BY <1>1 DEF FitInv, jobInv, staging
<1>4. \A p \in patches : p.cluster # c
  BY <1>1 DEF OrderInv
<1>5. \A r, x, i : latest(c, r, x, i)' <=> latest(c, r, x, i)
  BY <1>1, LatestFixed
<1>6. \A r \in Roles : templateOf(c, r)' = templateOf(c, r)
  BY <1>1, <1>3, GraphKept
<1>7. ASSUME NEW r \in Roles
      PROVE  IF \E p \in patches' : p.cluster = c /\ p.role = r /\ p.replaced
             THEN \E p \in patches', t \in templates' :
                      /\ p.cluster = c /\ p.role = r /\ p.replaced /\ p.version = v
                      /\ isNamed(t, c, p.base, p.n) /\ latest(c, r, v, t.image)'
             ELSE parents'[c][r].version = v /\ latest(c, r, v, templateOf(c, r).image)'
  <2>1. PICK i, k : i = templateOf(c, r).image /\ k = target(c, r)
    OBVIOUS
  <2>2. stagesNewest(c, r)
    BY <1>3 DEF latestInv
  <2>3. latest(c, r, v, k) /\ (i \notin DOMAIN updates[c] => parents[c][r].version = v)
    <3>1. ~(phase[c] = "images" /\ i \in todo[c])
      BY <1>1
    <3> QED
      BY <1>2, <2>1, <2>2, <3>1 DEF stagesNewest
  <2>4. CASE \E p \in patches' : p.cluster = c /\ p.role = r /\ p.replaced
    <3>1. PICK p \in patches' : p.cluster = c /\ p.role = r /\ p.replaced
      BY <2>4
    <3>2. p \notin patches
      BY <1>4, <3>1
    <3>3. /\ p.version = job[c].version
          /\ newTemplate(c, p.role) \in templates
          /\ isNamed(newTemplate(c, p.role), c, p.base, p.n)
          /\ newTemplate(c, p.role).image = target(c, p.role)
      BY <3>1, <3>2, PrintedFits
    <3>4. PICK t \in templates : isNamed(t, c, p.base, p.n) /\ t.image = k
      BY <2>1, <3>1, <3>3
    <3>5. latest(c, r, v, k)'
      BY <1>5, <2>3
    <3> QED
      BY <1>1, <1>2, <3>1, <3>3, <3>4, <3>5
  <2>5. CASE ~\E p \in patches' : p.cluster = c /\ p.role = r /\ p.replaced
    <3>1. i \notin DOMAIN updates[c]
      <4> SUFFICES ASSUME i \in DOMAIN updates[c] PROVE FALSE
        OBVIOUS
      <4>1. patchFor(c, r, TRUE) \in patches'
        BY <2>1 DEF HelpMessages
      <4>2. patchFor(c, r, TRUE).cluster = c /\ patchFor(c, r, TRUE).role = r /\ patchFor(c, r, TRUE).replaced
        BY DEF patchFor
      <4> QED
        BY <2>5, <4>1, <4>2
    <3>2. k = i
      BY <2>1, <3>1 DEF target
    <3>3. latest(c, r, v, i)' /\ templateOf(c, r)'.image = i
      BY <1>5, <1>6, <2>1, <2>3, <3>2
    <3>4. latest(c, r, v, templateOf(c, r).image)'
      BY <3>3 DEF latest
    <3>5. parents'[c][r].version = v
      BY <1>1, <2>3, <3>1
    <3> QED
      BY <2>5, <3>4, <3>5
  <2> QED
    BY <2>4, <2>5
<1>8. willHaveLatest(c, v)'
  BY <1>7 DEF willHaveLatest, latest, isNamed
<1>9. ~staging(c)' /\ phase'[c] \notin {"graph", "updates"}
  BY <1>1 DEF staging
<1> QED
  BY <1>1, <1>8, <1>9 DEF latestInv

\* A patch that is applied gives its role the newest image.
LEMMA AppliedLatest ==
    ASSUME StageInv, TypeInv, FitInv, OrderInv, [Next]_vars, NEW c \in Clusters, ~olvm(c), latestInv(c),
           world.applies, NEW p \in patches, Apply(p), p.cluster = c
    PROVE  latestInv(c)'
<1>1. /\ phase[c] = "idle" /\ phase'[c] = "idle"
      /\ UNCHANGED <<images, templates, released>> /\ patches' = patches \ {p}
  BY DEF Apply
<1>2. /\ started(c) /\ started(c)' /\ p.role \in Roles /\ patchInv(p)
      /\ \A d \in Clusters : started(d)' <=> started(d)
  BY PatchFor, AppliedParents
<1>3. PICK v \in Versions : willHaveLatest(c, v)
  BY <1>1, <1>2 DEF latestInv
<1>4. \A r, x, i : latest(c, r, x, i)' <=> latest(c, r, x, i)
  BY <1>1, LatestFixed
<1>5. /\ p.replaced => parents'[c][p.role] = [version |-> p.version, base |-> p.base, n |-> p.n]
      /\ ~p.replaced => parents' = parents
      /\ \A d \in Clusters, r \in Roles : (d # p.cluster \/ r # p.role) => parents'[d][r] = parents[d][r]
  BY AppliedParents
<1>6. \A q \in patches : (p.replaced /\ q.cluster = c /\ q.role = p.role /\ q.replaced) => q = p
  BY DEF OrderInv
<1>7. ASSUME NEW r \in Roles
      PROVE  IF \E q \in patches' : q.cluster = c /\ q.role = r /\ q.replaced
             THEN \E q \in patches', t \in templates' :
                      /\ q.cluster = c /\ q.role = r /\ q.replaced /\ q.version = v
                      /\ isNamed(t, c, q.base, q.n) /\ latest(c, r, v, t.image)'
             ELSE parents'[c][r].version = v /\ latest(c, r, v, templateOf(c, r).image)'
  <2>1. CASE p.replaced /\ r = p.role
    <3>1. ~\E q \in patches' : q.cluster = c /\ q.role = r /\ q.replaced
      BY <1>1, <1>6, <2>1
    <3>2. PICK q \in patches, t \in templates :
             /\ q.cluster = c /\ q.role = r /\ q.replaced /\ q.version = v
             /\ isNamed(t, c, q.base, q.n) /\ latest(c, r, v, t.image)
      BY <1>3, <2>1 DEF willHaveLatest
    <3>3. q = p
      BY <1>6, <2>1, <3>2
    <3>4. parents'[c][r].version = v /\ parents'[c][r].base = p.base /\ parents'[c][r].n = p.n
      BY <1>5, <2>1, <3>2, <3>3
    <3>5. t \in templates' /\ t.cluster = c /\ t.base = p.base /\ t.n = p.n
      BY <1>1, <3>2, <3>3 DEF isNamed
    <3>6. templateOf(c, r)' = t
      <4>1. t.cluster = c /\ t.base = parents'[c][r].base /\ t.n = parents'[c][r].n
        BY <3>4, <3>5
      <4> QED
        BY <3>5, <4>1, NewTemplateOf
    <3>7. PICK i : i = t.image
      OBVIOUS
    <3>8. latest(c, r, v, i)' /\ templateOf(c, r)'.image = i
      BY <1>4, <3>2, <3>6, <3>7
    <3>9. latest(c, r, v, templateOf(c, r).image)'
      BY <3>8 DEF latest
    <3> QED
      BY <3>1, <3>4, <3>9
  <2>2. CASE ~(p.replaced /\ r = p.role)
    <3>1. parents'[c][r] = parents[c][r]
      BY <1>5, <2>2
    <3>2. \A q : q.cluster = c /\ q.role = r /\ q.replaced => (q \in patches' <=> q \in patches)
      BY <1>1, <2>2
    <3>3. CASE \E q \in patches' : q.cluster = c /\ q.role = r /\ q.replaced
      <4>1. PICK q \in patches, t \in templates :
               /\ q.cluster = c /\ q.role = r /\ q.replaced /\ q.version = v
               /\ isNamed(t, c, q.base, q.n) /\ latest(c, r, v, t.image)
        BY <1>3, <3>2, <3>3 DEF willHaveLatest
      <4>2. PICK i : i = t.image
        OBVIOUS
      <4>3. latest(c, r, v, i)' /\ q \in patches' /\ t \in templates'
        BY <1>1, <1>4, <3>2, <4>1, <4>2
      <4> QED
        BY <3>3, <4>1, <4>2, <4>3
    <3>4. CASE ~\E q \in patches' : q.cluster = c /\ q.role = r /\ q.replaced
      <4>1. PICK i : i = templateOf(c, r).image
        OBVIOUS
      <4>2. parents[c][r].version = v /\ latest(c, r, v, i)
        BY <1>3, <3>2, <3>4, <4>1 DEF willHaveLatest
      <4>3. templateOf(c, r) \in templates' /\ isNamed(templateOf(c, r), c, parents[c][r].base, parents[c][r].n)
        BY <1>1, <1>2, TemplateOf
      <4>4. PICK t \in templates' : isNamed(t, c, parents[c][r].base, parents[c][r].n) /\ t.image = i
        BY <4>1, <4>3
      <4>5. t.cluster = c /\ t.base = parents'[c][r].base /\ t.n = parents'[c][r].n
        BY <3>1, <4>4 DEF isNamed
      <4>6. templateOf(c, r)' = t
        BY <4>5, NewTemplateOf
      <4>7. latest(c, r, v, i)' /\ templateOf(c, r)'.image = i
        BY <1>4, <4>2, <4>4, <4>6
      <4>8. latest(c, r, v, templateOf(c, r).image)'
        BY <4>7 DEF latest
      <4> QED
        BY <3>1, <3>4, <4>2, <4>8
    <3> QED
      BY <3>3, <3>4
  <2> QED
    BY <2>1, <2>2
<1>8. willHaveLatest(c, v)'
  BY <1>7 DEF willHaveLatest, latest, isNamed
<1>9. ~staging(c)' /\ phase'[c] \notin {"graph", "updates"}
  BY <1>1 DEF staging
<1> QED
  BY <1>1, <1>8, <1>9 DEF latestInv

\* A version is released while no command runs.
LEMMA ReleasedSame ==
    ASSUME [Next]_vars, NEW c \in Clusters, phase[c] = "images"
    PROVE  released' = released
<1>1. ASSUME NEW d \in Clusters, Work(d) PROVE released' = released
  BY <1>1 DEF Work, storeVars,
     EnsureImage, UploadOci, WaitForWorkRequests, CreateEFIImageSchema,
     EnsureCompatibleImageShapes, DetailsDone, GetTemplate, PatchControlPlane, FindUpdates, StageImage,
     StageVMTemplates, CreateTemplates, CreateRefused, TemplatesDone, HelpMessages
<1>2. ASSUME NEW d \in Clusters, Fault(d) PROVE released' = released
  BY <1>2 DEF Fault, fail, storeVars
<1>3. ASSUME NEW v \in Versions, Release(v) PROVE FALSE
  BY <1>3 DEF Release
<1>4. ASSUME NEW d, Edit(d) PROVE released' = released
  BY <1>4 DEF Edit
<1>5. ASSUME NEW p, Apply(p) PROVE released' = released
  BY <1>5 DEF Apply
<1>6. ASSUME NEW d, NEW k, NEW v, Begin(d, k, v) PROVE released' = released
  BY <1>6 DEF Begin, storeVars
<1>7. ASSUME Imports PROVE released' = released
  BY <1>7 DEF Imports, Import
<1>8. ASSUME UNCHANGED vars PROVE released' = released
  BY <1>8 DEF vars, storeVars
<1> QED
  BY <1>1, <1>2, <1>3, <1>4, <1>5, <1>6, <1>7, <1>8 DEF Next

\* No image is added by a step that leaves the only cluster alone.
LEMMA NoImageAdded ==
    ASSUME StageInv, TypeInv, FitInv, [Next]_vars, NEW c \in Clusters,
           \A d \in Clusters : ~olvm(d) => d = c,
           todo'[c] = todo[c] \/ phase[c] \notin {"look", "images"},
           ~world.uploads
    PROVE  Len(images') = Len(images)
<1>1. ~UploadOci(c)
  BY DEF UploadOci, step, FitInv, jobInv
<1>2. ASSUME EnsureImage(c) PROVE FALSE
  <2>1. phase[c] = "look" /\ todo'[c] = todo[c]
    BY <1>2 DEF EnsureImage
  <2>2. PICK a \in todo[c] : todo' = [todo EXCEPT ![c] = @ \ {a}]
    BY <1>2 DEF EnsureImage
  <2>3. todo'[c] = todo[c] \ {a}
    BY <2>2, Domains
  <2> QED
    BY <2>1, <2>2, <2>3
<1>3. ASSUME StageImage(c) PROVE FALSE
  <2>1. phase[c] = "images" /\ todo'[c] = todo[c]
    BY <1>3 DEF StageImage
  <2>2. PICK a \in todo[c] : todo' = [todo EXCEPT ![c] = @ \ {a}]
    BY <1>3, Zenon DEF StageImage
  <2>3. todo'[c] = todo[c] \ {a}
    BY <2>2, Domains
  <2> QED
    BY <2>1, <2>2, <2>3
<1> QED
  BY <1>1, <1>2, <1>3, ImagesBeside

\* A step that leaves the only cluster alone.
LEMMA LatestBeside ==
    ASSUME StageInv, TypeInv, FitInv, [Next]_vars, NEW c \in Clusters, ~olvm(c), latestInv(c),
           \A d \in Clusters : ~olvm(d) => d = c, ~world.uploads,
           parents'[c] = parents[c], updates'[c] = updates[c], job'[c] = job[c],
           phase'[c] = phase[c], todo'[c] = todo[c],
           \A p : p.cluster = c => (p \in patches' <=> p \in patches)
    PROVE  latestInv(c)'
<1>1. Len(images') = Len(images)
  BY NoImageAdded
<1>2. \A v, a : GetImage(v, a)' = GetImage(v, a)
  BY <1>1, GetImageKept
<1>3. phase[c] = "images" => released' = released
  BY ReleasedSame
<1>4. staging(c)' => staging(c)
  BY DEF staging
<1> QED
  BY <1>2, <1>3, <1>4, LatestSame

\* A step of the cluster that changes what it wants to do next, but nothing
\* that it knows of images.
LEMMA LatestQuiet ==
    ASSUME StageInv, TypeInv, FitInv, [Next]_vars, NEW c \in Clusters, ~olvm(c), latestInv(c),
           \A d \in Clusters : ~olvm(d) => d = c, ~world.uploads,
           UNCHANGED <<parents, updates, job, patches>>,
           phase[c] \notin {"idle", "look", "images"}, phase'[c] \notin {"idle", "images"},
           phase'[c] \in {"graph", "updates"} => phase[c] \in {"graph", "updates"},
           staging(c)' => staging(c)
    PROVE  latestInv(c)'
<1>1. Len(images') = Len(images)
  BY NoImageAdded
<1>2. \A v, a : GetImage(v, a)' = GetImage(v, a)
  BY <1>1, GetImageKept
<1>3. \A i : (phase'[c] = "images" /\ i \in todo'[c]) <=> (phase[c] = "images" /\ i \in todo[c])
  OBVIOUS
<1>4. \A p : p.cluster = c => (p \in patches' <=> p \in patches)
  OBVIOUS
<1> QED
  BY <1>2, <1>3, <1>4, LatestSame

\* The steps of a command of the only cluster, one by one.
LEMMA LatestWork ==
    ASSUME StageInv, TypeInv, FitInv, ReadyInv, OrderInv, [Next]_vars, NEW c \in Clusters, ~olvm(c),
           latestInv(c), \A d \in Clusters : ~olvm(d) => d = c,
           ~world.faults, ~world.uploads, world.applies, world.shared = {}, Work(c)
    PROVE  latestInv(c)'
<1>1. jobInv(c)
  BY DEF FitInv
<1>2. CASE EnsureImage(c)
  <2>1. /\ phase[c] = "look" /\ phase'[c] \in {"look", "wait"} /\ job' = job /\ job[c].kind # "stage"
    BY <1>1, <1>2, Domains DEF EnsureImage, step, jobInv
  <2> QED
    BY <2>1 DEF latestInv, staging
<1>3. CASE UploadOci(c)
  BY <1>1, <1>3 DEF UploadOci, step, jobInv
<1>4. CASE WaitForWorkRequests(c)
  <2>1. \A i \in work[c] : images[i].state # "failed"
    BY DEF StageInv, ReadyInv
  <2>2. phase[c] = "wait" /\ job[c].kind # "upload"
    BY <1>1, <1>4 DEF WaitForWorkRequests, step, jobInv
  <2>3. phase'[c] = "details" /\ UNCHANGED <<job, parents, patches, updates>>
    BY <1>4, <2>1, <2>2, Domains DEF WaitForWorkRequests, step, storeVars, localVars
  <2>4. staging(c)' => staging(c)
    BY <2>2, <2>3 DEF staging
  <2> QED
    BY <2>2, <2>3, <2>4, LatestQuiet
<1>5. CASE CreateEFIImageSchema(c) \/ EnsureCompatibleImageShapes(c)
  <2>1. phase[c] = "details" /\ phase'[c] = "details" /\ UNCHANGED <<job, parents, patches, updates>>
    BY <1>5, Domains DEF CreateEFIImageSchema, EnsureCompatibleImageShapes, step, localVars
  <2>2. staging(c)' => staging(c)
    BY <2>1 DEF staging
  <2> QED
    BY <2>1, <2>2, LatestQuiet
<1>6. CASE DetailsDone(c)
  <2>1. /\ phase[c] = "details" /\ phase'[c] = IF job[c].kind = "start" THEN "template" ELSE "create"
        /\ UNCHANGED <<job, parents, patches, updates>>
    BY <1>6, Domains DEF DetailsDone, step, storeVars
  <2>2. staging(c)' => staging(c)
    BY <2>1 DEF staging
  <2> QED
    BY <2>1, <2>2, LatestQuiet
<1>7. CASE GetTemplate(c)
  BY <1>7, FirstLatest
<1>8. CASE PatchControlPlane(c)
  <2>1. phase[c] = "graph" /\ phase'[c] = "updates" /\ UNCHANGED <<job, parents, patches, updates>>
    BY <1>8, Domains DEF PatchControlPlane, step, localVars
  <2>2. staging(c)' => staging(c)
    BY <2>1 DEF staging
  <2> QED
    BY <2>1, <2>2, LatestQuiet
<1>9. CASE FindUpdates(c)
  BY <1>9, FoundLatest
<1>10. CASE StageImage(c)
  BY <1>10, StagedLatest
<1>11. CASE StageVMTemplates(c)
  BY <1>11 DEF StageVMTemplates
<1>12. CASE CreateTemplates(c)
  <2>1. phase[c] = "create" /\ phase'[c] = "create" /\ UNCHANGED <<job, parents, patches, updates>>
    BY <1>12, Domains DEF CreateTemplates, step
  <2>2. staging(c)' => staging(c)
    BY <2>1 DEF staging
  <2> QED
    BY <2>1, <2>2, LatestQuiet
<1>13. CASE CreateRefused(c)
  BY <1>13, NoneRefused
<1>14. CASE TemplatesDone(c)
  <2>1. phase[c] = "create" /\ phase'[c] = "help" /\ UNCHANGED <<job, parents, patches, updates>>
    BY <1>14, Domains DEF TemplatesDone, step, storeVars, localVars
  <2>2. staging(c)' => staging(c)
    BY <2>1 DEF staging
  <2> QED
    BY <2>1, <2>2, LatestQuiet
<1>15. CASE HelpMessages(c)
  BY <1>15, PrintedLatest
<1> QED
  BY <1>2, <1>3, <1>4, <1>5, <1>6, <1>7, <1>8, <1>9, <1>10, <1>11, <1>12, <1>13, <1>14, <1>15 DEF Work

LEMMA LatestStep == ASSUME StageInv, TypeInv, FitInv, ReadyInv, OrderInv, LatestInv, [Next]_vars PROVE LatestInv'
<1>1. world' = world
  BY WorldFixed
<1>2. SUFFICES ASSUME lone, NEW c \in Clusters, ~olvm(c) PROVE latestInv(c)'
  BY <1>1 DEF LatestInv, lone, olvm
<1>3. /\ world.serial /\ ~world.faults /\ ~world.uploads /\ world.applies /\ world.shared = {}
      /\ \A d \in Clusters : ~olvm(d) => d = c
  BY <1>2 DEF lone, olvm
<1>4. latestInv(c)
  BY <1>2 DEF LatestInv, olvm
<1>5. ASSUME NEW d \in Clusters, ClusterStep(d) PROVE latestInv(c)'
  <2>1. CASE d = c
    <3>1. CASE Work(c)
      BY <1>2, <1>3, <1>4, <3>1, LatestWork
    <3>2. CASE Fault(c)
      BY <1>3, <3>2 DEF Fault
    <3>3. ASSUME NEW kind \in {"start", "stage", "upload"}, NEW v \in Versions, Begin(c, kind, v)
          PROVE  latestInv(c)'
      BY <1>2, <1>3, <1>4, <3>3, BeginLatest
    <3> QED
      BY <1>5, <2>1, <3>1, <3>2, <3>3 DEF ClusterStep
  <2>2. CASE d # c
    <3>1. /\ phase'[c] = phase[c] /\ job'[c] = job[c] /\ todo'[c] = todo[c] /\ updates'[c] = updates[c]
          /\ parents'[c] = parents[c]
      BY <1>5, <2>2, Beside
    <3>2. \A p : p.cluster = c => (p \in patches' <=> p \in patches)
      BY <1>5, <2>2, CommandPatches
    <3> QED
      BY <1>2, <1>3, <1>4, <3>1, <3>2, LatestBeside
  <2> QED
    BY <2>1, <2>2
<1>6. ASSUME UNCHANGED <<templates, job, phase, localVars, status, world>>, parents'[c] = parents[c],
             \A p : p.cluster = c => (p \in patches' <=> p \in patches)
      PROVE  latestInv(c)'
  <2>1. phase'[c] = phase[c] /\ job'[c] = job[c] /\ todo'[c] = todo[c] /\ updates'[c] = updates[c]
    BY <1>6 DEF localVars
  <2> QED
    BY <1>2, <1>3, <1>4, <1>6, <2>1, LatestBeside
<1>7. ASSUME NEW p \in patches, Apply(p), UNCHANGED <<templates, job, phase, localVars, status, world>>
      PROVE  latestInv(c)'
  <2>1. CASE p.cluster = c
    BY <1>2, <1>3, <1>4, <1>7, <2>1, AppliedLatest
  <2>2. CASE p.cluster # c
    <3>1. parents'[c] = parents[c]
      BY <1>7, <2>2, Domains DEF Apply
    <3>2. \A q : q.cluster = c => (q \in patches' <=> q \in patches)
      BY <1>7, <2>2 DEF Apply
    <3> QED
      BY <1>6, <1>7, <3>1, <3>2
  <2> QED
    BY <2>1, <2>2
<1>8. ASSUME NEW d \in Clusters, Edit(d), UNCHANGED <<templates, job, phase, localVars, status, world>>
      PROVE  latestInv(c)'
  <2>1. parents' = parents /\ patches' = patches
    BY <1>8 DEF Edit
  <2> QED
    BY <1>6, <1>8, <2>1
<1>9. ASSUME UNCHANGED <<parents, patches>>, UNCHANGED <<templates, job, phase, localVars, status, world>>
      PROVE  latestInv(c)'
  BY <1>6, <1>9
<1> QED
  BY <1>5, <1>7, <1>8, <1>9, Steps

-----------------------------------------------------------------------------
(* The theorems                                                             *)

\* At first there are no images, no templates and no clusters.
LEMMA InitInv == Init => StoreInv
<1> SUFFICES ASSUME Init PROVE StoreInv
  OBVIOUS
<1>1. /\ images = <<>> /\ templates = {} /\ patches = {} /\ edited = {} /\ annotated = {}
      /\ \A c \in Clusters : /\ phase[c] = "idle" /\ status[c] = "new" /\ job[c] = NoJob
                             /\ work[c] = {} /\ detailed[c] = {} /\ updates[c] = nothing
                             /\ kcp[c] = [ign |-> NewIgnition, join |-> {}]
                             /\ \A r \in Roles : parents[c][r] = NoParent
  BY DEF Init
<1>2. \A c \in Clusters : ~started(c)
  BY <1>1 DEF started, Roles
<1>3. \A c \in Clusters : kcp[c].ign = NewIgnition /\ kcp[c].join = {}
  BY <1>1
<1>4. images \in Seq(ImageRecord) /\ Len(images) = 0
  BY <1>1
<1>5. StageInv
  <2>1. released \in [Versions -> 0..Len(images)] /\ phase \in [Clusters -> Phases]
    BY <1>4 DEF Init, Phases
  <2>2. \A c \in Clusters : ~kcp[c].ign.err
    BY <1>3 DEF NewIgnition
  <2> QED
    BY <1>1, <1>2, <1>3, <1>4, <2>1, <2>2 DEF StageInv, ImageRecord
<1>6. TypeInv
  <2>1. parents \in [Clusters -> [Roles -> [version : Nat, base : Roles \cup {"none"}, n : Nat]]]
    BY DEF Init, NoParent
  <2>2. job \in [Clusters -> [kind : {"start", "stage", "upload"}, version : Nat]]
    BY DEF Init, NoJob
  <2>3. \A c \in Clusters : DOMAIN updates[c] = {}
    BY <1>1 DEF nothing
  <2>4. /\ work \in [Clusters -> SUBSET Nat] /\ detailed \in [Clusters -> SUBSET Nat]
        /\ status \in [Clusters -> {"new", "runs", "done", "failed"}]
    BY DEF Init
  <2>5. DOMAIN todo = Clusters /\ DOMAIN updates = Clusters /\ DOMAIN kcp = Clusters /\ world \in Worlds
    BY DEF Init
  <2> QED
    BY <1>1, <2>1, <2>2, <2>3, <2>4, <2>5 DEF TypeInv
<1>7. FitInv
  <2>1. ASSUME NEW c \in Clusters PROVE jobInv(c) /\ parentInv(c) /\ updateInv(c)
    <3>1. jobInv(c)
      BY <1>1 DEF jobInv
    <3>2. parentInv(c)
      BY <1>1, <1>2 DEF parentInv
    <3>3. updateInv(c)
      BY <1>1 DEF updateInv, staging
    <3> QED
      BY <3>1, <3>2, <3>3
  <2> QED
    BY <1>1, <2>1 DEF FitInv
<1>8. ReadyInv
  BY <1>1, <1>4 DEF ReadyInv, ImagesReady
<1>9. OrderInv
  BY <1>1 DEF OrderInv
<1>10. JoinInv
  <2>1. \A c \in Clusters : parents[c]["cp"].n = 0
    BY <1>1 DEF Roles, NoParent
  <2> QED
    BY <1>1, <1>3, <2>1 DEF JoinInv, JoinPrepared
<1>11. IgnitionInv
  <2>1. \A c \in Clusters : kcp[c] = [ign |-> kcp[c].ign, join |-> kcp[c].join] /\ wellFormed(kcp[c].ign)
    BY <1>1, <1>3, WellFormedNew
  <2> QED
    BY <1>1, <1>2, <2>1 DEF IgnitionInv
<1>12. \A c \in Clusters : latestInv(c)
  BY <1>1, <1>2 DEF latestInv, staging
<1> QED
  BY <1>5, <1>6, <1>7, <1>8, <1>9, <1>10, <1>11, <1>12 DEF StoreInv, LatestInv

\* ensureImages and Stage: what the steps of a command know of images,
\* templates, patches and ignition, for any number of clusters and commands.
THEOREM StoreInvHolds == Spec => []StoreInv
<1>1. StoreInv /\ [Next]_vars => StoreInv'
  BY StageStep, TypeStep, FitStep, ReadyStep, OrderStep, JoinStep, IgnitionStep, LatestStep DEF StoreInv
<1> QED
  BY <1>1, InitInv, PTL DEF Spec

\* ensureImages and Stage: templates are never overwritten, fit the control
\* planes and deployments that use them, and name images that are ready.
THEOREM TemplatesAreSound == Spec => []TemplatesSound
<1>1. StoreInv => TemplatesSound
  <2> SUFFICES ASSUME StoreInv PROVE TemplatesSound
    OBVIOUS
  <2>1. StageInv /\ FitInv /\ ReadyInv
    BY DEF StoreInv
  <2>2. ASSUME NEW c \in Clusters, started(c), NEW r \in Roles, NEW i, i = templateOf(c, r).image
        PROVE  imageVersion(c, i) = parents[c][r].version /\ (~olvm(c) => images[i].arch = archOf(c, r))
    BY <2>1, <2>2 DEF FitInv, parentInv, fits
  <2>3. ParentsConsistent
    BY <2>2 DEF ParentsConsistent
  <2>4. ImagesReady
    BY <2>1 DEF ReadyInv, ImagesReady
  <2> QED
    BY <2>1, <2>3, <2>4 DEF TemplatesSound
<1> QED
  BY <1>1, StoreInvHolds, PTL

\* Stage and UpdateIgnition: stage succeeds without faults, and what it has
\* staged is current, prepared for joining nodes and keeps what the user added.
THEOREM StagingAlwaysWorks == Spec => []StagingWorks
<1>1. StoreInv => StagingWorks
  <2> SUFFICES ASSUME StoreInv PROVE StagingWorks
    OBVIOUS
  <2>1. TypeInv /\ OrderInv /\ JoinInv /\ IgnitionInv /\ StageInv
    BY DEF StoreInv
  <2>2. StageSucceeds
    BY <2>1 DEF OrderInv, StageSucceeds
  <2>3. StagedIsCurrent
    <3>1. world.olvm \subseteq Clusters
      BY <2>1, WorldType
    <3> QED
      BY <2>1, <3>1 DEF IgnitionInv, StagedIsCurrent, olvm
  <2>4. UserChangesKept
    BY <2>1 DEF StageInv, IgnitionInv, UserChangesKept, kept
  <2>5. JoinPrepared
    BY <2>1 DEF JoinInv
  <2> QED
    BY <2>2, <2>3, <2>4, <2>5 DEF StagingWorks
<1> QED
  BY <1>1, StoreInvHolds, PTL

\* Stage: a stage that succeeds has found the newest images, and an ignition
\* that was patched needs no other patch: one round is enough.
THEOREM OneRoundIsEnough == Spec => LatestAndSettled
<1>1. ASSUME StoreInv, [Next]_vars PROVE [StagedUsesLatest /\ AppliedIsSettled]_vars
  <2>1. StageInv /\ TypeInv /\ FitInv /\ IgnitionInv /\ LatestInv
    BY <1>1 DEF StoreInv
  <2>2. StagedUsesLatest
    <3> SUFFICES ASSUME lone, NEW c \in Clusters, phase[c] = "help", ~olvm(c), NEW r \in Roles
                 PROVE  target(c, r) = GetImage(job[c].version, archOf(c, r))
      BY DEF StagedUsesLatest, stagesLatest, lone
    <3>1. staging(c)
      BY <2>1 DEF FitInv, jobInv, staging
    <3>2. stagesNewest(c, r)
      BY <2>1, <3>1 DEF LatestInv, latestInv, olvm
    <3> QED
      BY <3>2 DEF stagesNewest, latest
  <2>3. AppliedIsSettled
    <3> SUFFICES ASSUME NEW p \in patches \ patches', p.ign # {} PROVE newIgnition(p.cluster)' = {}
      BY DEF AppliedIsSettled
    <3>1. Apply(p)
      <4>1. \A c \in Clusters : HelpMessages(c) => patches \subseteq patches'
        BY DEF HelpMessages
      <4>2. \A q \in patches : Apply(q) => patches' = patches \ {q}
        BY DEF Apply
      <4> QED
        BY <1>1, <4>1, <4>2, PatchSteps
    <3>2. PICK c \in Clusters : c = p.cluster
      BY <2>1 DEF TypeInv
    <3>3. PICK ign \in p.ign : kcp'[c].ign = ign
      BY <2>1, <3>1, <3>2, AppliedKcp
    <3>4. settled(ign)
      BY <2>1 DEF IgnitionInv
    <3> QED
      BY <3>2, <3>3, <3>4 DEF newIgnition, settled
  <2> QED
    BY <2>2, <2>3
<1>2. StoreInv /\ [Next]_vars => [StagedUsesLatest /\ AppliedIsSettled]_vars
  BY <1>1
<1> QED
  BY <1>2, StoreInvHolds, PTL DEF Spec, LatestAndSettled
=============================================================================
