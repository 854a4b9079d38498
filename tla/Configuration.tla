---------------------------- MODULE Configuration ----------------------------
(***************************************************************************)
(* The configuration of a command: the built-in defaults, the defaults     *)
(* file, the options of the command line, the file of the cluster and what *)
(* the cluster cache has kept of an earlier command are merged into a      *)
(* Config and a ClusterConfig.  The commands start, stage and delete run   *)
(* with the result; start puts it into the cache.                          *)
(*                                                                         *)
(* A field is a path of names.  A configuration has the fields that are    *)
(* not empty, zero or nil, each with the layer that has set it.  A boolean *)
(* that may be unset is a pointer, which is such a field, and the value    *)
(* that the merge computes from it.                                        *)
(***************************************************************************)
EXTENDS Naturals, Sequences, FiniteSets

CONSTANTS
    Setups,         \* the circumstances that are considered, see setup
    MaxCommands,    \* bound on the number of commands
    None

own(names) == {<<n>> : n \in names}
within(name, fields) == {<<name>> \o f : f \in fields}

-----------------------------------------------------------------------------
(* The fields of the structures                                             *)

Proxy == own({"HttpsProxy", "HttpProxy", "NoProxy"})
CertificateInformation == own({"Country", "Org", "OrgUnit", "State"})
Node == own({"Memory", "Storage", "CPUs"})

LibvirtProvider ==
    own({"SessionURI", "SlirpSubnet", "SshKey", "StoragePool", "Network", "BootVolumeName",
         "BootVolumeContainerImagePath", "Smm", "SecureBoot"})
    \cup within("ControlPlaneNode", Node) \cup within("WorkerNode", Node)

OciInstanceShape == own({"Shape", "Ocpus", "BootVolumeSize"})
LoadBalancer == own({"Subnet1", "Subnet2"})
OciImageSet == own({"Amd64", "Arm64"})

OciProvider ==
    own({"KubeConfigPath", "Compartment", "Profile", "Namespace", "ImageBucket", "SelfManaged", "Vcn"})
    \cup within("Images", OciImageSet) \cup within("LoadBalancer", LoadBalancer)
    \cup within("ControlPlaneShape", OciInstanceShape)
    \cup within("WorkerShape", OciInstanceShape) \cup within("Proxy", Proxy)

OvirtCsiDriver ==
    own({"ConfigMapName", "ControllerPluginName", "CsiDriverName", "Install", "NodePluginName",
         "Namespace", "SecretName"})
NamespacedName == own({"Name", "Namespace"})
OlvmOck == own({"DiskName", "DiskSize", "StorageDomainName"})
OlvmAPIServer ==
    own({"InsecureSkipTLSVerify", "ServerURL", "ServerCA", "ServerCAPath"})
    \cup within("CAConfigMap", NamespacedName) \cup within("CredentialsSecret", NamespacedName)

OlvmNetwork == own({"NetworkName", "VnicName", "VnicProfileName"})
OlvmMachineCpu ==
    own({"Architecture"}) \cup within("Topology", own({"Cores", "Sockets", "Threads"}))
OlvmVirtualMachineNetwork ==
    own({"Gateway", "Interface", "InterfaceType"})
    \cup within("IPV4", own({"Subnet", "IpAddresses"})) \cup within("IPV6", own({"AutoConf", "IpAddresses"}))
OlvmVirtualMachine ==
    own({"Memory"}) \cup within("Cpu", OlvmMachineCpu)
    \cup within("Network", OlvmVirtualMachineNetwork)
OlvmMachine ==
    own({"OlvmOvirtClusterName", "VMTemplateName"}) \cup within("OlvmNetwork", OlvmNetwork)
    \cup within("VirtualMachine", OlvmVirtualMachine)
OlvmLocalAPIEndpoint == own({"BindPort", "AdvertiseAddress"})

OlvmProvider ==
    own({"DatacenterName", "Namespace", "SelfManaged"})
    \cup within("ControlPlaneMachine", OlvmMachine) \cup within("WorkerMachine", OlvmMachine)
    \cup within("CSIDriver", OvirtCsiDriver) \cup within("OlvmOck", OlvmOck)
    \cup within("LocalAPIEndpoint", OlvmLocalAPIEndpoint)
    \cup within("OlvmAPIServer", OlvmAPIServer) \cup within("Proxy", Proxy)

ByoProvider == own({"AutomaticTokenCreation", "NetworkInterface"})

Providers ==
    within("Libvirt", LibvirtProvider) \cup within("Oci", OciProvider)
    \cup within("Byo", ByoProvider) \cup within("Olvm", OlvmProvider)

EphemeralClusterConfig == own({"Name", "Preserve"}) \cup within("Node", Node)

\* The fields that Config and ClusterConfig share, and those of one of them.
Shared ==
    own({"KubeAPIServerBindPort", "KubeAPIServerBindPortAlt", "PodSubnet", "ServiceSubnet", "Registry",
         "OsRegistry", "OsTag", "KubeProxyMode", "BootVolumeContainerImage", "CNI", "Headless", "Catalog",
         "CommunityCatalog", "KubeVersion", "SshPublicKeyPath", "SshPublicKey", "Password",
         "ExtraIgnition", "ExtraIgnitionInline"})
    \cup within("Providers", Providers) \cup within("Proxy", Proxy)
    \cup within("CertificateInformation", CertificateInformation)

OfConfig ==
    own({"KubeConfig", "AutoStartUI", "Quiet"}) \cup within("EphemeralConfig", EphemeralClusterConfig)

OfClusterConfig ==
    own({"WorkingDirectory", "Name", "Provider", "WorkerNodes", "ControlPlaneNodes", "VirtualIp",
         "LoadBalancer", "CipherSuites", "ClusterDefinitionInline", "ClusterDefinition"})

\* Booleans that are pointers, and those that are true if nothing sets them.
isBool(f) ==
    f[Len(f)] \in {"Smm", "SecureBoot", "SelfManaged", "Install", "InsecureSkipTLSVerify", "AutoConf",
                   "AutomaticTokenCreation", "Headless", "Catalog", "CommunityCatalog", "Quiet"}
Bools == {f \in Shared \cup OfConfig : isBool(f)}
isDefaultTrue(f) == f[Len(f)] \in {"Install", "Catalog"}

NoFields == [f \in {} |-> None]
Empty == [set |-> NoFields, is |-> [f \in Bools |-> FALSE], apps |-> <<>>, catalogs |-> <<>>]

Preserve == <<"EphemeralConfig", "Preserve">>

\* The merge functions carry every field over, except that
\* MergeEphemeralConfig ignores Preserve.
MutantDropped == {Preserve, <<"Providers", "Byo", "NetworkInterface">>}

Dropped == {Preserve}

\* A nil ClusterConfig, and no pair of configurations: every one that a
\* command uses has a version.
NoConfig == Empty
NoRun == [c |-> Empty, cc |-> Empty]

\* ies, ieu, iei and iebpp; iebp.
pick(def, ovr, fields) ==
    [f \in ((DOMAIN def \cup DOMAIN ovr) \cap fields) \ Dropped |-> IF f \in DOMAIN ovr THEN ovr[f] ELSE def[f]]

iebp(def, ovr) ==
    [f \in Bools |-> IF f \in DOMAIN ovr THEN ovr[f].text = "true"
                     ELSE IF f \in DOMAIN def THEN def[f].text = "true"
                     ELSE isDefaultTrue(f)]

MergeConfig(def, ovr) ==
    [Empty EXCEPT !.set = pick(def.set, ovr.set, Shared \cup OfConfig), !.is = iebp(def.set, ovr.set)]

\* The applications and the catalogs of both.
MergeApplications(def, ovr) == def \o ovr
MergeCatalogs(def, ovr) == def \o ovr

MergeClusterConfig(def, ovr) ==
    [set |-> pick(def.set, ovr.set, Shared \cup OfClusterConfig), is |-> iebp(def.set, ovr.set),
     apps |-> MergeApplications(def.apps, ovr.apps), catalogs |-> MergeCatalogs(def.catalogs, ovr.catalogs)]

MutantOverlayConfig(cc, c) ==
    [cc EXCEPT !.set = [f \in (DOMAIN cc.set \cup (DOMAIN c.set \cap Shared)) |->
                            IF f \in DOMAIN c.set THEN c.set[f] ELSE cc.set[f]],
               !.is = iebp(cc.set, c.set)]

OverlayConfig(cc, c) ==
    [cc EXCEPT !.set = [f \in (DOMAIN cc.set \cup (DOMAIN c.set \cap Shared)) |->
                            IF f \in DOMAIN cc.set THEN cc.set[f] ELSE c.set[f]],
               !.is = iebp(c.set, cc.set)]

CopyConfig(c) == MergeConfig(Empty, c)
CopyClusterConfig(cc) == MergeClusterConfig(Empty, cc)
-----------------------------------------------------------------------------
(* The layers                                                               *)

\* In the order of the documentation; last what RunCmd adds.
Layers == <<"clusterFlags", "flags", "file", "defaults", "builtIn", "ocne">>
DefaultVersion == "1.32"
Versions == {"1.30", "1.31", "1.32"}

KubeVersion == <<"KubeVersion">>
OsTag == <<"OsTag">>
Image == <<"BootVolumeContainerImage">>
OsRegistry == <<"OsRegistry">>
Name == <<"Name">>
Provider == <<"Provider">>
SessionURI == <<"Providers", "Libvirt", "SessionURI">>

\* The options of start that set a Config, and those that set a ClusterConfig.
ConfigFlags ==
    {<<"KubeConfig">>, <<"AutoStartUI">>, Image, SessionURI, <<"Providers", "Libvirt", "SshKey">>}
ClusterFlags ==
    {<<"ControlPlaneNodes">>, <<"WorkerNodes">>, Name, Provider, KubeVersion, <<"VirtualIp">>, <<"LoadBalancer">>}

\* What is built in; Preserve is a plain true.
BuiltInLibvirt ==
    own({"SessionURI", "SlirpSubnet", "StoragePool", "Network", "BootVolumeName", "BootVolumeContainerImagePath"})
    \cup within("ControlPlaneNode", Node) \cup within("WorkerNode", Node)

BuiltInOci ==
    own({"Namespace", "Profile", "ImageBucket"})
    \cup within("ControlPlaneShape", OciInstanceShape) \cup within("WorkerShape", OciInstanceShape)

BuiltInOlvmMachine == within("VirtualMachine", own({"Memory"}) \cup within("Network", own({"Interface"})))

BuiltInOlvm ==
    own({"Namespace"})
    \cup within("ControlPlaneMachine", BuiltInOlvmMachine) \cup within("WorkerMachine", BuiltInOlvmMachine)
    \cup within("LocalAPIEndpoint", own({"BindPort"}))
    \cup within("CSIDriver", own({"Namespace", "SecretName", "ConfigMapName"}))

BuiltIn ==
    within("Providers", within("Libvirt", BuiltInLibvirt) \cup within("Oci", BuiltInOci) \cup within("Olvm", BuiltInOlvm))
    \cup own({"PodSubnet", "ServiceSubnet", "KubeAPIServerBindPort", "KubeAPIServerBindPortAlt", "AutoStartUI",
              "OsRegistry", "OsTag", "KubeProxyMode", "BootVolumeContainerImage", "Registry", "KubeVersion",
              "SshPublicKeyPath"})
    \cup within("CertificateInformation", CertificateInformation)
    \cup within("EphemeralConfig", EphemeralClusterConfig)

ASSUME ConfigurationAssumption ==
    /\ MaxCommands \in Nat
    /\ \A i \in 1..6 : None # Layers[i]
    /\ \A w \in Setups :
        /\ w.flags \subseteq ConfigFlags /\ w.clusterFlags \subseteq ClusterFlags
        /\ w.file = None \/ w.file \subseteq Shared \cup OfClusterConfig
        /\ \A d \in {w.defaults, w.laterDefaults} :
               d = None \/ d \subseteq Shared \cup OfConfig
        /\ w.provider \in {"libvirt", "oci"}
        /\ w.tag \in {"none", "custom"} \cup Versions
        /\ w.truth \in BOOLEAN         \* what the file says of booleans; others say the opposite
        /\ w.careful \in BOOLEAN       \* deletes name the cluster

VARIABLES
    defaults,       \* the fields in the defaults file, or None
    cache,          \* [name]: the ClusterConfig in the cache, or NoConfig
    runs,           \* clusters on hypervisors: pairs of name and session
    eph,            \* the configuration of the ephemeral cluster, or NoRun
    open,           \* the configuration of a start that uses the ephemeral cluster, or NoRun
    last,           \* observer: the last command, its configuration and its result
    commands, setup

configVars == <<defaults, cache, runs, eph, open, last, commands, setup>>

\* The name of a cluster is the layer that names it; without one it is "ocne".
ClusterNames == {"ocne", "file", "clusterFlags", "ocne-ephemeral"}
NoCommand == [cmd |-> "none", c |-> Empty, cc |-> Empty, given |-> None, cached |-> NoConfig, ok |-> TRUE]

ConfigInit ==
    /\ setup \in Setups
    /\ defaults = setup.defaults
    /\ cache = [n \in ClusterNames |-> NoConfig]
    /\ runs = {}
    /\ eph = NoRun /\ open = NoRun
    /\ last = NoCommand
    /\ commands = 0

\* What a layer says where that matters: versions, tags, booleans.
text(l, f) ==
    CASE f = KubeVersion -> IF l = "builtIn" THEN DefaultVersion ELSE IF l = "file" THEN "1.31" ELSE "1.30"
      [] f = OsTag -> IF l = "builtIn" THEN DefaultVersion ELSE "custom"
      [] f = Image -> IF l = "builtIn" THEN "none" ELSE setup.tag
      [] f = OsRegistry -> IF l = "builtIn" THEN "ostree" ELSE "plain"
      [] f = Provider -> setup.provider
      [] OTHER -> IF isBool(f) /\ ((l = "file") <=> setup.truth) THEN "true" ELSE "false"

layer(name, fields) ==
    [Empty EXCEPT !.set = [f \in fields |-> [by |-> name, text |-> text(name, f)]]]

flagConfig == layer("flags", setup.flags)
flagClusterConfig == layer("clusterFlags", setup.clusterFlags)

GetDefaultConfig ==
    LET builtIn == layer("builtIn", BuiltIn) IN
    IF defaults = None THEN builtIn ELSE MergeConfig(builtIn, layer("defaults", defaults))

\* WorkingDirectory is set in any case.
ParseClusterConfigFile ==
    [layer("file", setup.file \cup {<<"WorkingDirectory">>}) EXCEPT !.apps = <<"file">>, !.catalogs = <<"file">>]

MakeOstreeReference(v) == [v EXCEPT !.text = "ostree"]

GetFullConfig(c, cc, withFile) ==
    LET mcc == IF withFile THEN MergeClusterConfig(ParseClusterConfigFile, cc) ELSE cc
        ndf == MergeConfig(GetDefaultConfig, c)
        full == OverlayConfig(mcc, ndf) IN
    [c |-> ndf, cc |-> [full EXCEPT !.set[OsRegistry] = MakeOstreeReference(@)]]

\* A tag that is a version of Kubernetes is replaced, another one is kept.
EnsureBootImageVersion(version, image) ==
    IF image.text \in Versions \cup {"none"} THEN [image EXCEPT !.text = version] ELSE image

-----------------------------------------------------------------------------
(* The commands                                                             *)

with(cfg, f, by, txt) == [cfg EXCEPT !.set = [x \in DOMAIN @ \cup {f} |-> IF x = f THEN [by |-> by, text |-> txt] ELSE @[x]]]
ifUnset(cfg, f, by, txt) == IF f \in DOMAIN cfg.set THEN cfg ELSE with(cfg, f, by, txt)

nameOf(cc) == cc.set[Name].by
providerOf(cc) == cc.set[Provider].text
versionOf(cc) == cc.set[KubeVersion].text

\* RunCmd of start: what is still missing.
withOsTag(cc) ==
    IF cc.set[OsTag].text = DefaultVersion /\ versionOf(cc) # DefaultVersion
    THEN [cc EXCEPT !.set[OsTag].text = versionOf(cc)] ELSE cc

complete(cc) ==
    LET named == ifUnset(ifUnset(ifUnset(cc, Name, "ocne", ""), Provider, "ocne", "libvirt"),
                         <<"ControlPlaneNodes">>, "ocne", "1") IN
    withOsTag([named EXCEPT !.set[Image] = EnsureBootImageVersion(versionOf(cc), @)])

\* The libvirt driver takes these from the Config.
forLibvirt(full) ==
    IF providerOf(full.cc) # "libvirt" THEN full.c
    ELSE [full.c EXCEPT !.set[Image] = full.cc.set[Image], !.set[KubeVersion] = full.cc.set[KubeVersion],
                        !.set[OsTag] = full.cc.set[OsTag]]

\* Where the driver looks for a cluster.
place(c, cc) == IF providerOf(cc) = "libvirt" THEN OverlayConfig(cc, c).set[SessionURI].by ELSE providerOf(cc)

sameCluster(cc) ==
    LET cached == cache[nameOf(cc)] IN
    cached # NoConfig => providerOf(cached) = providerOf(cc) /\ versionOf(cached) = versionOf(cc)

\* Start of the package: a cluster that does not run is created and then
\* added to the cache, which refuses a name that it has.
create(c, cc) ==
    LET n == nameOf(cc)
        running == <<n, place(c, cc)>> \in runs IN
    IF ~sameCluster(cc) THEN [runs |-> runs, ok |-> FALSE, cache |-> cache]
    ELSE [runs |-> runs \cup {<<n, place(c, cc)>>}, ok |-> running \/ cache[n] = NoConfig,
          cache |-> IF ~running /\ cache[n] = NoConfig THEN [cache EXCEPT ![n] = cc] ELSE cache]

startFull ==
    LET full == GetFullConfig(flagConfig, flagClusterConfig, setup.file # None) IN
    [full EXCEPT !.cc = complete(@)]

ends(cmd, c, cc, cached, ok) ==
    last' = [cmd |-> cmd, c |-> c, cc |-> cc, given |-> defaults, cached |-> cached, ok |-> ok]

Start ==
    /\ open = NoRun /\ commands < MaxCommands
    /\ LET full == startFull
           c == forLibvirt(full)
           r == create(c, full.cc) IN
        /\ providerOf(full.cc) = "libvirt"
        /\ runs' = r.runs /\ cache' = r.cache
        /\ ends("start", c, full.cc, NoConfig, r.ok)
    /\ commands' = commands + 1
    /\ UNCHANGED <<defaults, eph, open, setup>>

ControlPlaneNode == {<<"Providers", "Libvirt", "ControlPlaneNode">> \o f : f \in Node}

\* StartEphemeralCluster: what it forces, booleans without their pointers.
ephemeral(c, cc) ==
    LET copy == CopyClusterConfig(cc)
        forced == [copy EXCEPT !.is = [@ EXCEPT ![<<"Headless">>] = TRUE, ![<<"Catalog">>] = FALSE,
                                                ![<<"CommunityCatalog">>] = FALSE]]
        named == with(with(forced, Name, "ocne-ephemeral", ""), Provider, "ephemeral", "libvirt")
        sized == [with(with(named, <<"ControlPlaneNodes">>, "ephemeral", "1"), <<"CNI">>, "ephemeral", "flannel")
                  EXCEPT !.set = [f \in DOMAIN @ \ {<<"WorkerNodes">>} |->
                      IF f \in ControlPlaneNode THEN c.set[<<"EphemeralConfig", "Node", f[4]>>] ELSE @[f]]] IN
    [c |-> with(with([CopyConfig(c) EXCEPT !.set[Image] = cc.set[Image], !.set[OsTag] = cc.set[OsTag],
                                           !.is[<<"Quiet">>] = TRUE],
                     KubeVersion, "ephemeral", DefaultVersion), <<"Quiet">>, "ephemeral", "true"),
     cc |-> with(sized, KubeVersion, "ephemeral", DefaultVersion)]

\* A cluster of another provider is started from the ephemeral cluster ...
EnsureCluster ==
    /\ open = NoRun /\ commands < MaxCommands
    /\ LET full == startFull
           e == ephemeral(full.c, full.cc)
           r == create(e.c, e.cc) IN
        /\ providerOf(full.cc) # "libvirt"
        /\ IF sameCluster(full.cc)
           THEN /\ runs' = r.runs /\ cache' = r.cache
                /\ eph' = e /\ open' = full
                /\ UNCHANGED last
           ELSE /\ ends("start", full.c, full.cc, NoConfig, FALSE)
                /\ UNCHANGED <<runs, cache, eph, open>>
    /\ commands' = commands + 1
    /\ UNCHANGED <<defaults, setup>>

\* ... which is deleted in the end, unless it is to be preserved.
StopEphemeralCluster ==
    /\ open # NoRun
    /\ LET r == create(open.c, open.cc)
           keep == Preserve \in DOMAIN open.c.set IN
        /\ runs' = IF keep THEN r.runs ELSE r.runs \ {<<"ocne-ephemeral", place(open.c, eph.cc)>>}
        /\ cache' = IF keep THEN r.cache ELSE [r.cache EXCEPT !["ocne-ephemeral"] = NoConfig]
        /\ eph' = IF keep THEN eph ELSE NoRun
        /\ ends("start", open.c, open.cc, NoConfig, r.ok)
    /\ open' = NoRun
    /\ UNCHANGED <<defaults, commands, setup>>

\* A staged cluster is named, or there is a file.
Stage(n) ==
    /\ open = NoRun /\ commands < MaxCommands
    /\ cache[n] # NoConfig
    /\ LET full == GetFullConfig(Empty, cache[n], FALSE) IN
        ends("stage", full.c, [full.cc EXCEPT !.set[Image] = EnsureBootImageVersion("1.32", @)], cache[n], TRUE)
    /\ commands' = commands + 1
    /\ UNCHANGED <<defaults, cache, runs, eph, open, setup>>

MutantDeleteUncached(n) ==
    /\ open = NoRun /\ commands < MaxCommands
    /\ setup.careful => n # None
    /\ LET cli == IF n = None THEN Empty ELSE with(Empty, Name, n, "")
           full == GetFullConfig(Empty, cli, FALSE)
           cc == ifUnset(ifUnset(full.cc, Name, "ocne", ""), Provider, "ocne", "libvirt") IN
        /\ runs' = runs \ {<<nameOf(cc), place(full.c, cc)>>}
        /\ cache' = [cache EXCEPT ![nameOf(cc)] = NoConfig]
        /\ ends("delete", full.c, cc, NoConfig, TRUE)
    /\ commands' = commands + 1
    /\ UNCHANGED <<defaults, eph, open, setup>>

\* The cache is asked for the name that was given, even if none was.
DeleteCluster(n) ==
    /\ open = NoRun /\ commands < MaxCommands
    /\ setup.careful => n # None
    /\ LET cached == IF n = None THEN NoConfig ELSE cache[n]
           cli == IF n = None THEN Empty ELSE with(Empty, Name, n, "")
           full == GetFullConfig(Empty, IF cached = NoConfig THEN cli ELSE cached, FALSE)
           cc == ifUnset(ifUnset(full.cc, Name, "ocne", ""), Provider, "ocne", "libvirt") IN
        /\ runs' = runs \ {<<nameOf(cc), place(full.c, cc)>>}
        /\ cache' = [cache EXCEPT ![nameOf(cc)] = NoConfig]
        /\ ends("delete", full.c, cc, cached, TRUE)
    /\ commands' = commands + 1
    /\ UNCHANGED <<defaults, eph, open, setup>>

\* The user edits the defaults file.
EditDefaults ==
    /\ open = NoRun
    /\ defaults # setup.laterDefaults
    /\ defaults' = setup.laterDefaults
    /\ UNCHANGED <<cache, runs, eph, open, last, commands, setup>>

Done == commands = MaxCommands /\ open = NoRun /\ UNCHANGED configVars

ConfigNext ==
    \/ Start \/ EnsureCluster \/ StopEphemeralCluster
    \/ \E n \in ClusterNames : Stage(n)
    \/ \E n \in (ClusterNames \ {"ocne-ephemeral"}) \cup {None} : DeleteCluster(n)
    \/ EditDefaults
    \/ Done

ConfigSpec == ConfigInit /\ [][ConfigNext]_configVars
-----------------------------------------------------------------------------
(* Properties                                                               *)

\* The state of the configurations, the cache and the hypervisors.
ConfigInv ==
    /\ \A n \in ClusterNames : cache[n] # NoConfig => nameOf(cache[n]) = n /\ <<n, place(Empty, cache[n])>> \in runs
    /\ open # NoRun => eph # NoRun
    /\ last.cmd # "none" => {Name, Provider, KubeVersion, OsTag, Image, SessionURI} \subseteq DOMAIN last.cc.set

setters(f) ==
    [l \in {"clusterFlags", "flags", "file", "defaults", "builtIn", "ocne"} |->
        CASE l = "clusterFlags" -> f \in setup.clusterFlags
          [] l = "flags" -> f \in setup.flags
          [] l = "file" -> setup.file # None /\ f \in setup.file \cup {<<"WorkingDirectory">>}
          [] l = "defaults" -> last.given # None /\ f \in last.given
          [] l = "builtIn" -> f \in BuiltIn
          [] l = "ocne" -> f \in {Name, Provider, <<"ControlPlaneNodes">>}]

firstSetter(f) ==
    IF \E i \in 1..6 : setters(f)[Layers[i]]
    THEN Layers[CHOOSE i \in 1..6 : setters(f)[Layers[i]] /\ \A j \in 1..(i - 1) : ~setters(f)[Layers[j]]]
    ELSE None

setterIn(cfg, f) == IF f \in DOMAIN cfg.set THEN cfg.set[f].by ELSE None

\* A file that sets what an option of the program sets as well.
overruled(f) == setters(f)["flags"] /\ setters(f)["file"]

\* GetFullConfig: whatever the layers set, every field of the two structures
\* reaches the command from the first of: options of the command, file of
\* the cluster, defaults file, built-in defaults; booleans have the value
\* that this layer says.  Two cases are left out where the code does another
\* thing: the file overrules the options of the program, and Preserve is
\* dropped.
LayersInOrder ==
    last.cmd = "start" =>
        /\ \A f \in Shared \cup OfClusterConfig :
               IF overruled(f) THEN setterIn(last.cc, f) \in {"file", "flags"}
               ELSE /\ setterIn(last.cc, f) = firstSetter(f)
                    /\ f \in Bools => last.cc.is[f] = IF firstSetter(f) = None THEN isDefaultTrue(f)
                                                      ELSE text(firstSetter(f), f) = "true"
        /\ \A f \in OfConfig \ {Preserve} : setterIn(last.c, f) = firstSetter(f)

\* RunCmd of stage and delete: a cluster in the cache is staged and deleted
\* with the configuration it was started with, whatever became of the
\* defaults file; only the version in the tag of its image changes.
CachedWins ==
    last.cached # NoConfig =>
        /\ \A f \in DOMAIN last.cached.set : last.cc.set[f].by = last.cached.set[f].by
        /\ \A f \in Bools \cap DOMAIN last.cached.set : last.cc.is[f] = last.cached.is[f]

sessionIsSteady == (setup.defaults # None /\ SessionURI \in setup.defaults)
                   <=> (setup.laterDefaults # None /\ SessionURI \in setup.laterDefaults)

\* Start and Delete: every cluster that runs is in the cache and where the
\* cache says, if deletes name their cluster and the defaults file names the
\* same hypervisor all the time.
Tracked ==
    (setup.careful /\ sessionIsSteady /\ last.cmd # "none" /\ open = NoRun) =>
        \A r \in runs : cache[r[1]] # NoConfig /\ place(Empty, cache[r[1]]) = r[2]

\* EnsureBootImageVersion and the OS tag: a cluster boots an image of the
\* version that it is to have and is updated from that version, unless the
\* user chose a tag of another kind; the libvirt driver is told the same.
ImageFollowsVersion ==
    last.cmd = "start" =>
        /\ last.cc.set[Image].text \in {versionOf(last.cc), "custom"}
        /\ last.cc.set[OsTag].text \in {versionOf(last.cc), "custom"}
        /\ providerOf(last.cc) = "libvirt" => last.c.set[Image] = last.cc.set[Image]

\* Start: if the configuration has not changed, a start is never refused,
\* not even when the cluster is there already.
RestartAccepted == (last.cmd = "start" /\ setup.defaults = setup.laterDefaults) => last.ok

\* StartEphemeralCluster: whatever the user wants of the cluster, the
\* ephemeral cluster is a libvirt cluster with one node of the size that
\* ephemeral clusters have, without UI and catalogs, under its own name.
EphemeralForced ==
    eph # NoRun =>
        /\ nameOf(eph.cc) = "ocne-ephemeral" /\ providerOf(eph.cc) = "libvirt"
        /\ eph.cc.is[<<"Headless">>] /\ ~eph.cc.is[<<"Catalog">>] /\ ~eph.cc.is[<<"CommunityCatalog">>]
        /\ <<"WorkerNodes">> \notin DOMAIN eph.cc.set
        /\ \A f \in ControlPlaneNode : eph.cc.set[f].by \in {"defaults", "builtIn"}
        /\ open # NoRun => nameOf(open.cc) # nameOf(eph.cc)

\* GetFullConfig and what follows it: every value that a command or its
\* ephemeral cluster works with comes from where it has to come from.
ValuesFollow == ConfigInv /\ LayersInOrder /\ ImageFollowsVersion /\ EphemeralForced

\* Start, again: a cluster that runs can be found in the cache, and started
\* again with the same configuration.
FoundAgain == Tracked /\ RestartAccepted
=============================================================================
