----------------------------- MODULE ByoDriver ------------------------------
(***************************************************************************)
(* Clusters on machines that the user brings: src/pkg/cluster/driver/byo   *)
(* and the commands start, join and delete that call it.  The driver makes *)
(* no machine.  It writes the kubeconfig of a cluster that does not exist  *)
(* yet, prints ignition, and the user boots machines with it, whenever     *)
(* they like and with any of what was printed.                             *)
(*                                                                         *)
(* A certificate authority, a token and a certificate key are numbers, made*)
(* in the order 1, 2, ...                                                  *)
(***************************************************************************)
EXTENDS Ignition

CONSTANTS
    Machines,
    Files,          \* the cluster configurations a user may write
    Worlds,         \* the circumstances that are considered, see given
    MaxCommands     \* bound on the number of commands

Address == {"", "address"}
ASSUME ByoAssumption ==
    /\ MaxCommands \in Nat
    /\ Files \subseteq
           [virtualIp : Address, loadBalancer : Address, port : Nat, alt : Nat,
            iface : {"", "eth0"}, osRegistry : {"good", "tagged", "malformed"},
            extra : Extras, automatic : BOOLEAN]
    /\ Worlds \subseteq
           [config : Files,
            faults : BOOLEAN,     \* calls fail and processes die
            named : BOOLEAN,      \* join is told the cluster and not just a kubeconfig
            tty : BOOLEAN,        \* the output of start is a terminal
            again : BOOLEAN]      \* the cluster may be deleted and started again

VARIABLES
    kubeFile,       \* the file, [ca, endpoint]; NoFile if there is none
    cluster,        \* what the control plane is: [ca, serves, tokens, key]
    printed,        \* the ignition that was printed, [ign, ca, age]
    toRun,          \* what the user was told to run, [token, key]
    node,           \* [machine]: "off", "member" or "stray"
    job,            \* the command that runs
    stage,
    count,          \* how many numbers were handed out
    commands,
    outcome,        \* observer: how the last command ended
    followed,       \* observer: the token of the last instructions that were run
    given

sharedVars == <<kubeFile, cluster, printed, toRun, node>>
byoVars == <<sharedVars, job, stage, count, commands, outcome, followed, given>>

NoFile == [ca |-> 0, endpoint |-> <<"", 0>>]
NoCluster == [ca |-> 0, serves |-> {}, tokens |-> {}, key |-> 0]
NoJob == [kind |-> "none", role |-> "none", key |-> 0, token |-> 0]
Stages == {"idle", "check", "pki", "init", "prompt", "install", "token", "ignition", "upload"}

config == given.config

ByoInit ==
    /\ kubeFile = NoFile
    /\ cluster = NoCluster
    /\ printed = {}
    /\ toRun = {}
    /\ node = [m \in Machines |-> "off"]
    /\ job = NoJob
    /\ stage = "idle"
    /\ count = 0
    /\ commands = 0
    /\ outcome = "none"
    /\ followed = 0
    /\ given \in Worlds

goto(p) == stage' = p /\ UNCHANGED <<commands, outcome, followed, given>>
\* The command returns; Close removes the keys of the certificate authority.
return(s) ==
    /\ stage' = "idle"
    /\ outcome' = s
    /\ job' = NoJob
    /\ UNCHANGED <<commands, followed, given>>

-----------------------------------------------------------------------------
(* The ignition of a node                                                   *)

internalLB == config.virtualIp # ""
getKubeAPIServerIP == IF config.virtualIp # "" THEN config.virtualIp ELSE config.loadBalancer
validateClusterConfig == (config.virtualIp = "") # (config.loadBalancer = "")

\* What a user added: a unit of the system switched off, a file replaced.
extraIgnition ==
    AddUnit(AddFile(NewIgnition, "registries.conf", <<"mine">>), "ocne-update.service",
            unit("no", <<>>, Nothing))

parameters(role, ca, token) ==
    [role |-> role, osRegistry |-> config.osRegistry, osTag |-> "tag", registry |-> "registry",
     address |-> getKubeAPIServerIP, port |-> config.port, alt |-> config.alt,
     internalLB |-> internalLB, proxy |-> {}, iface |-> config.iface, key |-> job.key,
     workers |-> FALSE, version |-> 1, ca |-> ca, token |-> token, hashes |-> ca]

ignitionForNode(role, joins, ca, token) ==
    LET c == parameters(role, ca, token)
        base == IF joins THEN JoinCluster(c) ELSE InitializeCluster(c)
        all == Merge(Merge(base, Proxy(c.proxy, {getKubeAPIServerIP, "services", "pods"})),
                     OcneUser({"key"}, "unset"))
        whole == Merge(all, FromPath(config.extra, extraIgnition)) IN
    IF config.iface = "" THEN failed(NewIgnition) ELSE whole

emit(i, role, ca) == printed' = printed \cup {[ign |-> i, role |-> role, ca |-> ca, age |-> commands]}

-----------------------------------------------------------------------------
(* Start                                                                    *)

Ask(kind, role) ==
    /\ stage = "idle" /\ commands < MaxCommands
    /\ kind = "delete" => given.again
    /\ job' = [kind |-> kind, role |-> role, key |-> count + 1, token |-> 0]
    /\ count' = count + 1
    /\ commands' = commands + 1
    /\ stage' = "check"
    /\ outcome' = "runs"
    /\ UNCHANGED <<sharedVars, followed, given>>

\* A kubeconfig means that the cluster runs.
Start ==
    /\ stage = "check" /\ job.kind = "start"
    /\ kubeFile # NoFile \/ validateClusterConfig
    /\ goto(IF kubeFile # NoFile THEN "install" ELSE "pki")
    /\ UNCHANGED <<sharedVars, job, count>>

\* GeneratePKI: a new authority, and the kubeconfig for the port 6443.
GeneratePKI ==
    /\ stage = "pki"
    /\ goto("init")
    /\ count' = count + 1
    /\ kubeFile' = [ca |-> count + 1, endpoint |-> <<getKubeAPIServerIP, 6443>>]
    /\ UNCHANGED <<cluster, printed, toRun, node, job>>

ClusterInit ==
    /\ stage = "init"
    /\ LET i == ignitionForNode("cp", FALSE, kubeFile.ca, 0) IN
       /\ ~i.err
       /\ emit(i, "init", kubeFile.ca)
    /\ IF given.tty THEN goto("prompt") /\ UNCHANGED job ELSE return("printed")
    /\ UNCHANGED <<kubeFile, cluster, toRun, node, count>>

reaches(k) == k.ca = cluster.ca /\ cluster.ca # 0 /\ k.endpoint \in cluster.serves

\* The user says that the first node is up, true or not.
Prompt ==
    /\ stage = "prompt"
    /\ goto("install")
    /\ UNCHANGED <<sharedVars, job, count>>

\* The rest of start needs the API server.
MutantInstall ==
    /\ stage = "install"
    /\ return("installed")
    /\ UNCHANGED <<sharedVars, count>>

Install ==
    /\ stage = "install"
    /\ reaches(kubeFile)
    /\ return("installed")
    /\ UNCHANGED <<sharedVars, count>>

-----------------------------------------------------------------------------
(* Join                                                                     *)

\* CreateJoinToken: only with automatic tokens is the cluster told.
CreateJoinToken ==
    /\ stage = "check" /\ job.kind = "join"
    /\ validateClusterConfig
    /\ config.automatic => reaches(kubeFile)
    /\ count' = count + 1
    /\ job' = [job EXCEPT !.token = count + 1]
    /\ cluster' = IF config.automatic THEN [cluster EXCEPT !.tokens = @ \cup {count + 1}] ELSE cluster
    /\ goto("token")
    /\ UNCHANGED <<kubeFile, printed, toRun, node>>

JoinIgnition ==
    /\ stage = "token"
    /\ kubeFile # NoFile
    /\ LET i == ignitionForNode(job.role, TRUE, kubeFile.ca, job.token) IN
       /\ ~i.err
       /\ emit(i, job.role, kubeFile.ca)
    /\ goto("upload")
    /\ UNCHANGED <<kubeFile, cluster, toRun, node, job, count>>

\* bd.KubeconfigPath is made of the name of the cluster, while the rest of
\* join uses the kubeconfig it is given.
own == IF given.named THEN kubeFile ELSE NoFile

MutantFinishJoin ==
    /\ stage = "upload"
    /\ cluster' = cluster
    /\ toRun' = IF config.automatic THEN toRun
                ELSE toRun \cup {[token |-> job.token, key |-> IF job.role = "cp" THEN job.key ELSE 0]}
    /\ return("joined")
    /\ UNCHANGED <<kubeFile, printed, node, count>>

FinishJoin ==
    /\ stage = "upload"
    /\ job.role = "cp" => reaches(own)
    /\ cluster' = IF config.automatic /\ job.role = "cp" THEN [cluster EXCEPT !.key = job.key] ELSE cluster
    /\ toRun' = IF config.automatic THEN toRun
                ELSE toRun \cup {[token |-> job.token, key |-> IF job.role = "cp" THEN job.key ELSE 0]}
    /\ return("joined")
    /\ UNCHANGED <<kubeFile, printed, node, count>>

-----------------------------------------------------------------------------
\* Delete removes the kubeconfig and nothing else.
Delete ==
    /\ stage = "check" /\ job.kind = "delete"
    /\ kubeFile' = NoFile
    /\ return("deleted")
    /\ UNCHANGED <<cluster, printed, toRun, node, count>>

\* An error return, or a kill.  What is printed and written stays.
refused ==
    \/ stage = "check" /\ job.kind = "start" /\ kubeFile = NoFile /\ ~validateClusterConfig
    \/ stage = "init" /\ ignitionForNode("cp", FALSE, kubeFile.ca, 0).err
    \/ stage = "install" /\ ~reaches(kubeFile)
    \/ stage = "check" /\ job.kind = "join"
          /\ (~validateClusterConfig \/ (config.automatic /\ ~reaches(kubeFile)))
    \/ stage = "token" /\ (kubeFile = NoFile \/ ignitionForNode(job.role, TRUE, 1, 1).err)
    \/ stage = "upload" /\ job.role = "cp" /\ ~reaches(own)
giveUp ==
    /\ return("failed")
    /\ UNCHANGED <<sharedVars, count>>
Refuses == stage # "idle" /\ refused /\ giveUp
Interrupted == stage # "idle" /\ given.faults /\ giveUp

-----------------------------------------------------------------------------
(* The user and the machines                                                *)

\* What the files of a control plane node make it listen on: nginx passes on
\* to the port of the API server, which has its own port if there is none.
serves(i) ==
    LET bindPort == i.files["kubeadm.conf"][1].bindPort
        nginx == i.files["nginx.conf"] IN
    IF "nginx.conf" \notin DOMAIN i.files THEN {<<"address", bindPort>>}
    ELSE IF nginx[2] = bindPort /\ nginx[1] # bindPort THEN {<<"address", nginx[1]>>} ELSE {}

\* kubeadm init on the first node: a new cluster takes over the address.  The
\* user does not boot the first node of an older cluster again.
BootFirst(m, p) ==
    /\ p.role = "init" /\ node[m] = "off"
    /\ cluster.ca < p.ca
    /\ cluster' = [ca |-> p.ca, serves |-> serves(p.ign), tokens |-> {},
                   key |-> p.ign.files["kubeadm.conf"][1].key]
    /\ node' = [n \in Machines |-> IF n = m THEN "member" ELSE IF node[n] = "member" THEN "stray" ELSE node[n]]
    /\ followed' = 0
    /\ UNCHANGED <<kubeFile, printed, toRun, job, stage, count, commands, outcome, given>>

\* kubeadm join: endpoint, authority, token and, for a control plane node, the
\* key that the certificates in the cluster are encrypted with.
admits(p) ==
    LET k == p.ign.files["kubeadm.conf"][1] IN
    /\ cluster.ca # 0 /\ k.hashes = cluster.ca
    /\ k.endpoint \in cluster.serves
    /\ k.token \in cluster.tokens
    /\ p.role = "cp" => k.key = cluster.key

Boot(m, p) ==
    /\ p.role # "init" /\ node[m] = "off"
    /\ node' = [node EXCEPT ![m] = IF admits(p) THEN "member" ELSE "stray"]
    /\ UNCHANGED <<kubeFile, cluster, printed, toRun, job, stage, count, commands, outcome,
                   followed, given>>

\* The commands that join printed, run on a control plane node.
FollowInstructions(t) ==
    /\ t \in toRun
    /\ cluster.ca # 0
    /\ cluster' = [cluster EXCEPT !.tokens = @ \cup {t.token},
                                  !.key = IF t.key = 0 THEN @ ELSE t.key]
    /\ toRun' = toRun \ {t}
    /\ followed' = t.token
    /\ UNCHANGED <<kubeFile, printed, node, job, stage, count, commands, outcome, given>>

Command ==
    \/ Start \/ GeneratePKI \/ ClusterInit \/ Prompt \/ Install
    \/ CreateJoinToken \/ JoinIgnition \/ FinishJoin
    \/ Delete \/ Refuses

ByoNext ==
    \/ \E kind \in {"start", "delete"} : Ask(kind, "none")
    \/ \E role \in {"cp", "worker"} : Ask("join", role)
    \/ Command \/ Interrupted
    \/ \E m \in Machines, p \in printed : BootFirst(m, p) \/ Boot(m, p)
    \/ \E t \in toRun : FollowInstructions(t)

ByoSpec == ByoInit /\ [][ByoNext]_byoVars
-----------------------------------------------------------------------------
(* Properties                                                               *)

\* The state of the files, the cluster and the machines: what is printed is
\* whole and the secrets of the cluster are among those that were made.
ByoInv ==
    /\ stage \in Stages
    /\ node \in [Machines -> {"off", "member", "stray"}]
    /\ kubeFile.ca \in 0..count /\ cluster.ca \in 0..count
    /\ cluster.tokens \subseteq 1..count /\ cluster.key \in 0..count
    /\ \A p \in printed : ~p.ign.err /\ p.ca \in 1..count
    /\ \A m \in Machines : node[m] = "member" => cluster.ca # 0

\* There is ignition for the first node of the cluster that the kubeconfig is for.
ignited == \E p \in printed : p.role = "init" /\ p.ca = kubeFile.ca

\* A start has failed after it wrote the kubeconfig, before it printed.
stranded == kubeFile # NoFile /\ stage # "init" /\ ~ignited

\* Start takes a kubeconfig as proof that the cluster runs, also one that a
\* start has left that failed before it printed.  Whatever failed, was deleted
\* or booted before: a start that succeeds is for a cluster with ignition, no
\* authority is ever printed for two first nodes, and once stranded, a cluster
\* stays it until it is deleted, however often start is repeated.
StartsIgnite ==
    /\ [](outcome \in {"printed", "installed"} => ignited)
    /\ [](\A p, q \in printed : p.role = "init" /\ q.role = "init" /\ p.ca = q.ca => p = q)
    /\ [][stranded => stranded' \/ kubeFile' = NoFile]_byoVars

\* Behind a virtual IP nginx and the API server of a node cannot have one port;
\* nothing checks that the user gave them two.
portsDiffer == internalLB => config.port # config.alt

\* ignitionForNode: all control plane nodes listen where the kubeconfig of
\* every other node, and for the default port the kubeconfig of the user, look
\* for the API: nginx, keepalived and kubeadm agree on the ports.
EndpointServed ==
    portsDiffer => \A p, q \in printed :
        LET k == q.ign.files["kubeadm.conf"] IN
        p.role \in {"init", "cp"} =>
            /\ (IF q.role = "init" THEN k[2].endpoint ELSE k[1].endpoint) \in serves(p.ign)
            /\ config.port = 6443 /\ kubeFile # NoFile => kubeFile.endpoint \in serves(p.ign)
            /\ "nginx.conf" \in DOMAIN p.ign.files =>
                   p.ign.files["check_apiserver.sh"][1] = p.ign.files["nginx.conf"][1]

\* Join with automatic tokens: when it returned without error, and until the
\* next command, a machine booted with what it printed becomes a member of
\* the cluster that runs (if that is the one the kubeconfig is for).
JoinAdmits ==
    (outcome = "joined" /\ config.automatic /\ kubeFile.ca = cluster.ca) =>
        \A p \in printed : (p.age = commands) => admits(p)

\* Without automatic tokens join prints what to run: once that was run, and
\* before other printed commands are, the machine becomes a member.
InstructionsAdmit ==
    (outcome = "joined" /\ ~config.automatic /\ portsDiffer /\ kubeFile.ca = cluster.ca) =>
        \A p \in printed :
            (p.age = commands /\ followed = p.ign.files["kubeadm.conf"][1].token) => admits(p)

\* ExtraIgnition is merged last: what a user switched off or replaced stays
\* that way on every node.
ExtraWins ==
    config.extra = "good" =>
        \A p \in printed : /\ p.ign.units["ocne-update.service"].enabled = "no"
                           /\ p.ign.files["registries.conf"] = <<"mine">>

\* ignitionForNode: what is printed for a node makes it serve the API where the
\* others look for it, and keeps what the user put into the extra ignition.
NodesAsAsked == EndpointServed /\ ExtraWins

\* Join: what it prints, with the token it made or the one the user is told to
\* make, admits a machine.
JoinsAdmit == ByoInv /\ JoinAdmits /\ InstructionsAdmit
=============================================================================
