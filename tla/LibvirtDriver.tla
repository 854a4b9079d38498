--------------------------- MODULE LibvirtDriver ---------------------------
(***************************************************************************)
(* The life of a cluster on a libvirt host: Start, create, join, addNode,  *)
(* Delete and removeNode of src/pkg/cluster/driver/libvirt, and the        *)
(* volumes, domains and kubeconfigs they leave behind when a call fails or *)
(* the process is killed half way.                                         *)
(*                                                                         *)
(* Commands on the same cluster run one after the other; those on          *)
(* different clusters interleave and share the base image and the pid      *)
(* lock, which is a plain mutex here (PidLock has its protocol, LibvirtNet *)
(* what is recorded under it).  Key material is a number: the how-manieth  *)
(* PKI was generated.                                                      *)
(***************************************************************************)
EXTENDS Integers

CONSTANTS
    ClusterNames,
    First,       \* the first control plane node of a cluster
    Others,      \* the nodes that join it: same code for both roles
    Nobody,      \* the pid lock is free
    Stale,       \* the process that took the pid lock was killed
    MaxPKI,      \* bound: no Start begins once that many PKIs were generated
    Faults       \* with TRUE: calls fail, virtual machines stop, processes are killed

Nodes == {First} \cup Others

ASSUME DriverAssumption ==
    /\ First \notin Others
    /\ Nobody \notin ClusterNames
    /\ Stale \notin ClusterNames
    /\ Stale # Nobody
    /\ MaxPKI \in Nat
    /\ Faults \subseteq BOOLEAN

VARIABLES
    base,      \* the volume of the base image; "replaced" once it was deleted although
               \* it was there: from then on there is one or not, complete or not
    boot,      \* boot volumes: NoVolume, Blank or the PKI it was first booted with
    ign,       \* ignition volumes: NoIgnition or the PKI in it
    dom,       \* the domains: not defined, stopped or running
    kube,      \* the PKI of the local kubeconfig files, or NoIgnition
    issued,    \* how many PKIs were generated
    stage,     \* how far the command on a cluster is
    node,      \* the node that addNode or removeNode is busy with
    todo,      \* the nodes that remain to be joined or removed
    holder,    \* the cluster whose command holds the pid lock
    last,      \* observer: how the last command on the cluster ended
    faulty     \* whether anything goes wrong in this behaviour, chosen once

hostVars == <<base, boot, ign, dom, kube, issued>>
driverVars == <<base, boot, ign, dom, kube, issued, stage, node, todo, holder, last, faulty>>

NoVolume == -1
Blank == 0
NoIgnition == 0

Stages == {"idle",
           "start", "alive",                                \* Start
           "lock", "pki",                                   \* initializeCluster
           "image", "transfer", "upload", "volume", "ignition", "define", \* addNode
           "answer", "token",                               \* create, join
           "list", "remove", "rmIgnition", "rmVolume", "files", "unrecord"}

TypeOK ==
    /\ base \in {"none", "partial", "whole", "replaced"}
    /\ boot \in [ClusterNames -> [Nodes -> Int]]
    /\ ign \in [ClusterNames -> [Nodes -> Int]]
    /\ dom \in [ClusterNames -> [Nodes -> {"none", "off", "on"}]]
    /\ kube \in [ClusterNames -> Int]
    /\ issued \in Int
    /\ stage \in [ClusterNames -> Stages]
    /\ node \in [ClusterNames -> Nodes]
    /\ todo \in [ClusterNames -> SUBSET Nodes]
    /\ holder \in ClusterNames \cup {Nobody, Stale}
    /\ last \in [ClusterNames -> {"failed", "started", "deleted"}]

DriverInit ==
    /\ base = "none"
    /\ boot = [c \in ClusterNames |-> [n \in Nodes |-> NoVolume]]
    /\ ign = [c \in ClusterNames |-> [n \in Nodes |-> NoIgnition]]
    /\ dom = [c \in ClusterNames |-> [n \in Nodes |-> "none"]]
    /\ kube = [c \in ClusterNames |-> NoIgnition]
    /\ issued = 0
    /\ stage = [c \in ClusterNames |-> "idle"]
    /\ node = [c \in ClusterNames |-> First]
    /\ todo = [c \in ClusterNames |-> {}]
    /\ holder = Nobody
    /\ last = [c \in ClusterNames |-> "failed"]
    /\ faulty \in Faults

move(c, s) == stage' = [stage EXCEPT ![c] = s] /\ UNCHANGED faulty

\* The command returns; "started" and "deleted" mean without an error.
finish(c, how) ==
    /\ move(c, "idle")
    /\ last' = [last EXCEPT ![c] = how]
    /\ node' = [node EXCEPT ![c] = First]
    /\ todo' = [todo EXCEPT ![c] = {}]

\* Between the WaitFor and the Drop of initializeCluster.
inLock(c) ==
    /\ stage[c] \in {"pki", "image", "transfer", "upload", "volume", "ignition", "define"}
    /\ node[c] = First

\* The API server answers to the local kubeconfig, or may.
up(c) ==
    /\ dom[c][First] = "on"
    /\ base \in {"whole", "replaced"}
    /\ boot[c][First] = kube[c]

\* The first boot runs ignition and writes the certificates to the boot volume;
\* later boots leave them alone.
firstBoot(c, n) == IF boot[c][n] = Blank THEN ign[c][n] ELSE boot[c][n]

-----------------------------------------------------------------------------
(***************************************************************************)
(* Start, create and initializeCluster.                                    *)
(***************************************************************************)

BeginStart(c) ==
    /\ stage[c] = "idle"
    /\ issued < MaxPKI
    /\ move(c, "start")
    /\ last' = [last EXCEPT ![c] = "failed"]
    /\ UNCHANGED <<hostVars, node, todo, holder>>

\* setDomainRunningIfExists
StartExisting(c) ==
    /\ stage[c] = "start"
    /\ dom[c][First] # "none"
    /\ dom' = [dom EXCEPT ![c][First] = "on"]
    /\ boot' = [boot EXCEPT ![c][First] = firstBoot(c, First)]
    /\ move(c, "alive")
    /\ UNCHANGED <<base, ign, kube, issued, node, todo, holder, last>>

\* isClusterUp: nothing is created, whichever nodes the cluster has.
Alive(c) ==
    /\ stage[c] = "alive"
    /\ up(c)
    /\ finish(c, "started")
    /\ UNCHANGED <<hostVars, holder>>

StartNew(c) ==
    /\ stage[c] = "start"
    /\ dom[c][First] = "none"
    /\ move(c, "lock")
    /\ UNCHANGED <<hostVars, node, todo, holder, last>>

TakeLock(c) ==
    /\ stage[c] = "lock"
    /\ holder = Nobody
    /\ holder' = c
    /\ move(c, "pki")
    /\ UNCHANGED <<hostVars, node, todo, last>>

\* A new PKI; both kubeconfigs are written over.
GeneratePKI(c) ==
    /\ stage[c] = "pki"
    /\ issued' = issued + 1
    /\ kube' = [kube EXCEPT ![c] = issued']
    /\ move(c, "image")
    /\ UNCHANGED <<base, boot, ign, dom, node, todo, holder, last>>

-----------------------------------------------------------------------------
(***************************************************************************)
(* addNode.                                                                *)
(***************************************************************************)

\* DoesBaseImageExist: there is a volume of that name.
MutantFindImage(c) ==
    /\ stage[c] = "image"
    /\ move(c, "volume")
    /\ UNCHANGED <<hostVars, node, todo, holder, last>>

FindImage(c) ==
    /\ stage[c] = "image"
    /\ base # "none"
    /\ move(c, "volume")
    /\ UNCHANGED <<hostVars, node, todo, holder, last>>

\* There is none; any error of the lookup is taken for that, also by join, that
\* holds no lock.  TransferBaseImage pulls the container image with it.
MissImage(c) ==
    /\ stage[c] = "image"
    /\ base = "none" \/ faulty
    /\ move(c, "transfer")
    /\ UNCHANGED <<hostVars, node, todo, holder, last>>

\* The base image when TransferToPool has deleted a volume of that name.
deleted == IF base = "none" THEN "none" ELSE "replaced"

\* TransferToPool deletes a volume of that name, creates it and then uploads
\* into it.
CreateImage(c) ==
    /\ stage[c] = "transfer"
    /\ base' = IF base = "none" THEN "partial" ELSE "replaced"
    /\ move(c, "upload")
    /\ UNCHANGED <<boot, ign, dom, kube, issued, node, todo, holder, last>>

\* Nothing is uploaded when another command has created the volume in between.
ImageCreated(c) ==
    /\ stage[c] = "transfer"
    /\ base # "none"
    /\ base' = "replaced"
    /\ move(c, "volume")
    /\ UNCHANGED <<boot, ign, dom, kube, issued, node, todo, holder, last>>

UploadImage(c) ==
    /\ stage[c] = "upload"
    /\ base' = IF base = "replaced" THEN base ELSE "whole"
    /\ move(c, "volume")
    /\ UNCHANGED <<boot, ign, dom, kube, issued, node, todo, holder, last>>

\* createVolumeFromImagesPool, unless there is a volume of that name.
MakeVolume(c) ==
    /\ stage[c] = "volume"
    /\ boot' = [boot EXCEPT ![c][node[c]] = IF @ = NoVolume THEN Blank ELSE @]
    /\ move(c, "ignition")
    /\ UNCHANGED <<base, ign, dom, kube, issued, node, todo, holder, last>>

\* uploadInitialIgnitionFile replaces the volume of that name.
UploadIgnition(c) ==
    /\ stage[c] = "ignition"
    /\ ign' = [ign EXCEPT ![c][node[c]] = kube[c]]
    /\ move(c, "define")
    /\ UNCHANGED <<base, boot, dom, kube, issued, node, todo, holder, last>>

\* After a node: the lock is dropped after the first one, and join goes on with
\* the others.
nextNode(c) ==
    \/ /\ node[c] = First
       /\ holder' = Nobody
       /\ move(c, "answer")
       /\ UNCHANGED <<node, todo, last>>
    \/ /\ node[c] # First
       /\ todo[c] # {}
       /\ \E n \in todo[c] : /\ node' = [node EXCEPT ![c] = n]
                             /\ todo' = [todo EXCEPT ![c] = @ \ {n}]
       /\ move(c, "image")
       /\ UNCHANGED <<holder, last>>
    \/ /\ node[c] # First
       /\ todo[c] = {}
       /\ finish(c, "started")
       /\ UNCHANGED holder

\* createDomainFromTemplate: the error of starting the domain is ignored.
DefineDomain(c) ==
    /\ stage[c] = "define"
    /\ dom[c][node[c]] = "none"
    /\ \E running \in {TRUE, ~faulty} :
        /\ dom' = [dom EXCEPT ![c][node[c]] = IF running THEN "on" ELSE "off"]
        /\ boot' = IF running THEN [boot EXCEPT ![c][node[c]] = firstBoot(c, node[c])]
                              ELSE boot
    /\ nextNode(c)
    /\ UNCHANGED <<base, ign, kube, issued>>

\* WaitUntilGetNodesSucceeds.
Answers(c) ==
    /\ stage[c] = "answer"
    /\ up(c)
    /\ IF Others = {}
       THEN finish(c, "started")
       ELSE /\ move(c, "token")
            /\ todo' = [todo EXCEPT ![c] = Others]
            /\ UNCHANGED <<node, last>>
    /\ UNCHANGED <<hostVars, holder>>

\* join: with a token the first of the other nodes is added.
CreateJoinToken(c) ==
    /\ stage[c] = "token"
    /\ \E n \in todo[c] : /\ node' = [node EXCEPT ![c] = n]
                          /\ todo' = [todo EXCEPT ![c] = @ \ {n}]
    /\ move(c, "image")
    /\ UNCHANGED <<hostVars, holder, last>>

\* Without a token join returns nil.
JoinTokenFails(c) ==
    /\ faulty
    /\ stage[c] = "token"
    /\ finish(c, "started")
    /\ UNCHANGED <<hostVars, holder>>

-----------------------------------------------------------------------------
(***************************************************************************)
(* Delete and removeNode.                                                  *)
(***************************************************************************)

BeginDelete(c) ==
    /\ stage[c] = "idle"
    /\ move(c, "list")
    /\ last' = [last EXCEPT ![c] = "failed"]
    /\ UNCHANGED <<hostVars, node, todo, holder>>

afterNode(c, left) == move(c, IF left = {} THEN "files" ELSE "remove")

\* Only nodes with a domain are removed.
ListDomains(c) ==
    /\ stage[c] = "list"
    /\ \E left \in {{n \in Nodes : dom[c][n] # "none"}} :
        /\ todo' = [todo EXCEPT ![c] = left]
        /\ afterNode(c, left)
    /\ UNCHANGED <<hostVars, node, holder, last>>

MutantRemoveDomain(c, n) ==
    /\ stage[c] = "remove"
    /\ n \in todo[c]
    /\ node' = [node EXCEPT ![c] = n]
    /\ move(c, "rmIgnition")
    /\ UNCHANGED <<hostVars, todo, holder, last>>

RemoveDomain(c, n) ==
    /\ stage[c] = "remove"
    /\ n \in todo[c]
    /\ dom' = [dom EXCEPT ![c][n] = "none"]
    /\ node' = [node EXCEPT ![c] = n]
    /\ move(c, "rmIgnition")
    /\ UNCHANGED <<base, boot, ign, kube, issued, todo, holder, last>>

DeleteIgnition(c) ==
    /\ stage[c] = "rmIgnition"
    /\ ign' = [ign EXCEPT ![c][node[c]] = NoIgnition]
    /\ move(c, "rmVolume")
    /\ UNCHANGED <<base, boot, dom, kube, issued, node, todo, holder, last>>

DeleteVolume(c) ==
    /\ stage[c] = "rmVolume"
    /\ boot' = [boot EXCEPT ![c][node[c]] = NoVolume]
    /\ todo' = [todo EXCEPT ![c] = @ \ {node[c]}]
    /\ afterNode(c, todo[c] \ {node[c]})
    /\ UNCHANGED <<base, ign, dom, kube, issued, node, holder, last>>

RemoveKubeconfigs(c) ==
    /\ stage[c] = "files"
    /\ kube' = [kube EXCEPT ![c] = NoIgnition]
    /\ move(c, "unrecord")
    /\ UNCHANGED <<base, boot, ign, dom, issued, node, todo, holder, last>>

\* WaitFor, removeCluster and Drop.
RemoveRecord(c) ==
    /\ stage[c] = "unrecord"
    /\ holder = Nobody
    /\ finish(c, "deleted")
    /\ UNCHANGED <<hostVars, holder>>

-----------------------------------------------------------------------------
(***************************************************************************)
(* What goes wrong.                                                        *)
(***************************************************************************)

\* Without any fault: the lock is not free for 10 seconds, the cluster does
\* not answer, or there is a domain of that name.
mustFail(c) ==
    \/ stage[c] \in {"lock", "unrecord"} /\ holder # Nobody
    \/ stage[c] \in {"alive", "answer"} /\ ~up(c)
    \/ stage[c] = "define" /\ dom[c][node[c]] # "none"

\* The command returns an error.  An upload of the image or of the ignition
\* file that fails may have deleted the old volume.
Fails(c) ==
    /\ stage[c] # "idle"
    /\ faulty \/ mustFail(c)
    /\ \E lost \in BOOLEAN :
        /\ base' = IF lost /\ stage[c] = "transfer" THEN deleted ELSE base
        /\ ign' = IF lost /\ stage[c] = "ignition"
                  THEN [ign EXCEPT ![c][node[c]] = NoIgnition] ELSE ign
    /\ holder' = IF inLock(c) THEN Nobody ELSE holder
    /\ finish(c, "failed")
    /\ UNCHANGED <<boot, dom, kube, issued>>

Crash(c) ==
    /\ faulty
    /\ stage[c] # "idle"
    /\ holder' = IF inLock(c) THEN Stale ELSE holder
    /\ \E lost \in BOOLEAN : base' = IF lost /\ stage[c] = "transfer" THEN deleted ELSE base
    /\ finish(c, "failed")
    /\ UNCHANGED <<boot, ign, dom, kube, issued>>

\* The user removes the pidfile that a killed process left.
BreakLock ==
    /\ holder = Stale
    /\ holder' = Nobody
    /\ UNCHANGED <<hostVars, stage, node, todo, last, faulty>>

\* A virtual machine stops, for example because the host is restarted; whether a
\* node that joined still runs no command asks.
Stops(c) ==
    /\ faulty
    /\ dom[c][First] = "on"
    /\ dom' = [dom EXCEPT ![c][First] = "off"]
    /\ UNCHANGED <<base, boot, ign, kube, issued, stage, node, todo, holder, last, faulty>>

-----------------------------------------------------------------------------
Start(c) ==
    \/ BeginStart(c) \/ StartExisting(c) \/ Alive(c) \/ StartNew(c) \/ TakeLock(c)
    \/ GeneratePKI(c) \/ FindImage(c) \/ MissImage(c)
    \/ CreateImage(c) \/ ImageCreated(c) \/ UploadImage(c)
    \/ MakeVolume(c) \/ UploadIgnition(c) \/ DefineDomain(c) \/ Answers(c)
    \/ CreateJoinToken(c) \/ JoinTokenFails(c)

Delete(c) ==
    \/ BeginDelete(c) \/ ListDomains(c) \/ DeleteIgnition(c) \/ DeleteVolume(c)
    \/ RemoveKubeconfigs(c) \/ RemoveRecord(c)
    \/ \E n \in Nodes : RemoveDomain(c, n)

DriverNext ==
    \/ \E c \in ClusterNames : Start(c) \/ Delete(c) \/ Fails(c) \/ Crash(c) \/ Stops(c)
    \/ BreakLock

DriverSpec == DriverInit /\ [][DriverNext]_driverVars

-----------------------------------------------------------------------------
(***************************************************************************)
(* Properties.                                                             *)
(***************************************************************************)

\* A domain never loses the disk it runs from: whichever command fails or is
\* killed where, a defined domain has its boot volume, which was made from a
\* base image.  addNode makes them in this order, removeNode the reverse.  The
\* image is not safe ("replaced"): one failed lookup, and TransferToPool deletes
\* it, whoever uses it.
DomainHasVolumes ==
    \A c \in ClusterNames, n \in Nodes :
        dom[c][n] # "none" => boot[c][n] # NoVolume /\ base # "none"

\* After a Delete without an error no domain of the cluster is left, also when
\* earlier commands failed half way and left any subset of the nodes.
DeletedHasNoDomain ==
    \A c \in ClusterNames : last[c] = "deleted" => \A n \in Nodes : dom[c][n] = "none"

\* Two commands never upload the base image at once, as long as none that was
\* there has been deleted: the first addNode of a start looks for it and uploads
\* it under the pid lock, and the addNode of join, which holds no lock, finds it.
OneUpload ==
    base # "replaced" => \A c, d \in ClusterNames : stage[c] = "upload" /\ stage[d] = "upload" => c = d

\* DoesBaseImageExist "returns if the base image has been previously
\* downloaded": unless something failed, whoever goes on to make a volume
\* finds the whole image, that another command may be uploading at the time.
BaseImageWhole ==
    \A c \in ClusterNames : ~faulty /\ stage[c] = "volume" => base = "whole"

\* After a Start without an error every node of the configuration exists, as
\* long as nothing fails: no order of Starts and Deletes, and no overlap with
\* another cluster's, makes Start report success too early.
StartedCompleteUnlessFaulty ==
    ~faulty => \A c \in ClusterNames : last[c] = "started" => \A n \in Nodes : dom[c][n] # "none"

\* removeNode: "The goal is to ensure images don't exist in a pool."  After a
\* Delete without an error the cluster has no volume left, if no command before
\* it failed half way.
DeletedIsGone ==
    \A c \in ClusterNames : ~faulty /\ last[c] = "deleted" =>
        \A n \in Nodes : boot[c][n] = NoVolume /\ ign[c][n] = NoIgnition

\* The nodes of a cluster that was started have the certificates that the
\* local kubeconfig was made with: no boot volume of an earlier cluster of the
\* same name is used again, if no command failed half way.
NodesShareCerts ==
    \A c \in ClusterNames : ~faulty /\ last[c] = "started" => \A n \in Nodes : boot[c][n] = kube[c]

\* Part of DriverInv: the host as the commands on c have left it.
HostInv(c) ==
    /\ kube[c] >= 0
    /\ \A n \in Nodes : ign[c][n] >= 0
    /\ \A n \in Nodes : dom[c][n] # "none" => boot[c][n] # NoVolume /\ base # "none"
    /\ last[c] = "deleted" => \A n \in Nodes : dom[c][n] = "none"

\* Part of DriverInv: what the command that runs on c has established.
CommandInv(c) ==
    /\ holder = c <=> inLock(c)
    /\ stage[c] \in {"idle", "start", "alive", "lock", "pki"} => node[c] = First
    /\ stage[c] = "transfer" => base # "none" \/ node[c] = First
    /\ stage[c] = "upload" => base = "replaced" \/ node[c] = First
    /\ stage[c] \in {"upload", "volume", "ignition", "define", "token"} => base # "none"
    /\ stage[c] = "image" /\ node[c] # First => base # "none"
    /\ stage[c] \in {"idle", "start", "alive", "lock", "pki"} => todo[c] = {}
    /\ stage[c] \in {"image", "transfer", "upload", "volume", "ignition", "define", "token"} =>
          First \notin todo[c]
    /\ stage[c] \in {"ignition", "define"} => boot[c][node[c]] # NoVolume
    /\ stage[c] \in {"rmIgnition", "rmVolume"} => dom[c][node[c]] = "none"
    /\ stage[c] \in {"remove", "rmIgnition", "rmVolume"} =>
          \A n \in Nodes : dom[c][n] # "none" => n \in todo[c]
    /\ stage[c] \in {"files", "unrecord"} => \A n \in Nodes : dom[c][n] = "none"
    /\ stage[c] # "idle" => last[c] = "failed"

\* The inductive invariant behind DomainHasVolumes, DeletedHasNoDomain and
\* OneUpload: the pid lock is held exactly from the WaitFor of initializeCluster
\* to its return, and what a command has made or removed so far is there or gone.
DriverInv ==
    /\ TypeOK
    /\ issued >= 0
    /\ \A c \in ClusterNames : HostInv(c) /\ CommandInv(c)

\* Nothing of a node is left, or it runs with the certificates of the kubeconfig.
cleanNode(c, n) == dom[c][n] = "none" /\ boot[c][n] = NoVolume /\ ign[c][n] = NoIgnition
upNode(c, n) == dom[c][n] = "on" /\ boot[c][n] = kube[c] /\ kube[c] > 0

\* Part of DeliverInv: the nodes of a cluster while no command has failed.
\* Between commands there are none, or all of them and all run.
BetweenInv(c) ==
    \/ \A n \in Nodes : cleanNode(c, n)
    \/ base = "whole" /\ \A n \in Nodes : upNode(c, n)

adding == {"image", "transfer", "upload", "volume", "ignition", "define"}

\* Part of DeliverInv: addNode has made all nodes before this one and nothing
\* of those after it.
AddingInv(c) ==
    /\ kube[c] > 0
    /\ node[c] = First => \A n \in Others : cleanNode(c, n)
    /\ node[c] # First =>
          /\ base = "whole"
          /\ node[c] \notin todo[c]
          /\ \A n \in todo[c] : cleanNode(c, n)
          /\ \A n \in Nodes \ todo[c] : n # node[c] => upNode(c, n)
    /\ dom[c][node[c]] = "none"
    /\ stage[c] \in {"image", "transfer", "upload", "volume"} => cleanNode(c, node[c])
    /\ stage[c] = "transfer" => base = "none"
    /\ stage[c] \in {"ignition", "define"} => boot[c][node[c]] = Blank
    /\ stage[c] = "define" => ign[c][node[c]] = kube[c]
    /\ stage[c] = "upload" => base = "partial"
    /\ stage[c] \in {"volume", "ignition", "define"} => base = "whole"

\* Part of DeliverInv: what the command that runs on c, or the last one, has
\* made and removed.
FaultlessInv(c) ==
    /\ stage[c] \in {"idle", "start", "list"} => BetweenInv(c)
    /\ stage[c] = "alive" => base = "whole" /\ \A n \in Nodes : upNode(c, n)
    /\ stage[c] \in {"lock", "pki", "files", "unrecord"} => \A n \in Nodes : cleanNode(c, n)
    /\ stage[c] \in adding => AddingInv(c)
    /\ stage[c] \in {"answer", "token"} =>
          base = "whole" /\ upNode(c, First) /\ \A n \in Others : cleanNode(c, n)
    /\ stage[c] = "token" => todo[c] = Others
    /\ stage[c] \in {"remove", "rmIgnition", "rmVolume"} =>
          \A n \in Nodes \ todo[c] : cleanNode(c, n)
    /\ stage[c] = "rmVolume" => ign[c][node[c]] = NoIgnition
    /\ last[c] = "started" => \A n \in Nodes : upNode(c, n)
    /\ last[c] = "deleted" => \A n \in Nodes : cleanNode(c, n)

\* The strengthening behind FaultlessDeliver, with the base image that all
\* clusters share: it is partial only while a command uploads it, and none is
\* deleted.
DeliverInv ==
    /\ DriverInv
    /\ ~faulty => /\ \A c \in ClusterNames : FaultlessInv(c)
                  /\ base # "replaced"
                  /\ base = "partial" => \E c \in ClusterNames : stage[c] = "upload"

\* Start and Delete, wherever they fail or are killed: domains keep their
\* volumes, a delete that succeeds leaves no domain and uploads exclude each
\* other until an image that was there is deleted.
HostSafe == DomainHasVolumes /\ DeletedHasNoDomain /\ OneUpload

\* Start and Delete, as long as nothing has failed: images are whole, a start
\* that succeeds has made every node with one set of certificates, and a
\* delete that succeeds has left no volume.
FaultlessDeliver ==
    BaseImageWhole /\ StartedCompleteUnlessFaulty /\ DeletedIsGone /\ NodesShareCerts
=============================================================================
