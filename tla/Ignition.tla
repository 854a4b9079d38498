------------------------------ MODULE Ignition ------------------------------
(***************************************************************************)
(* What a node is told on its first boot: src/pkg/cluster/ignition.  A     *)
(* configuration is a collection of keyed lists: files, directories, users,*)
(* groups and systemd units with their drop-ins; links, disks, arrays and  *)
(* file systems are only ever in what a user adds.  No list has two entries*)
(* with one key (a configuration that has is refused when it is parsed),   *)
(* so each list is a function from its keys.                               *)
(*                                                                         *)
(* The content of a file is the tuple of the values that are put into its  *)
(* template.  A configuration whose making failed has err.                 *)
(***************************************************************************)
EXTENDS Naturals, Sequences, FiniteSets

\* One entry, and two collections of which the first has precedence: what the
\* module TLC calls so, in definitions that the provers can expand.  The bound
\* a and b make TLC evaluate f and g once.
k :> v == [x \in {k} |-> v]
joined(f, g) == [x \in DOMAIN f \cup DOMAIN g |-> IF x \in DOMAIN f THEN f[x] ELSE g[x]]
f @@ g == CHOOSE h \in {joined(a, b) : a \in {f}, b \in {g}} : TRUE

Nothing == [k \in {} |-> 0]

NewIgnition ==
    [files |-> Nothing, directories |-> Nothing, links |-> Nothing, disks |-> Nothing,
     raid |-> Nothing, filesystems |-> Nothing, units |-> Nothing, users |-> Nothing,
     groups |-> Nothing, err |-> FALSE]
failed(ign) == [ign EXCEPT !.err = TRUE]

-----------------------------------------------------------------------------
(* Putting a configuration together                                         *)

\* What the Ignition library does with two values of one key: the fields of
\* the second that are set win, drop-ins and keys are merged in turn.
MutantMergeUnit(u, v) ==
    [enabled |-> IF v.enabled = "unset" THEN u.enabled ELSE v.enabled,
     contents |-> u.contents \o v.contents,
     dropins |-> v.dropins @@ u.dropins]

mergeUnit(u, v) ==
    [enabled |-> IF v.enabled = "unset" THEN u.enabled ELSE v.enabled,
     contents |-> IF v.contents = <<>> THEN u.contents ELSE v.contents,
     dropins |-> v.dropins @@ u.dropins]

mergeUser(u, v) ==
    [password |-> IF v.password = "unset" THEN u.password ELSE v.password,
     keys |-> u.keys \cup v.keys]
both(a, b) == DOMAIN a \cap DOMAIN b

merged(a, b) ==
    [files |-> b.files @@ a.files,
     directories |-> b.directories @@ a.directories,
     links |-> b.links @@ a.links,
     disks |-> b.disks @@ a.disks,
     raid |-> b.raid @@ a.raid,
     filesystems |-> b.filesystems @@ a.filesystems,
     units |-> [n \in both(a.units, b.units) |-> mergeUnit(a.units[n], b.units[n])] @@ b.units @@ a.units,
     users |-> [n \in both(a.users, b.users) |-> mergeUser(a.users[n], b.users[n])] @@ b.users @@ a.users,
     groups |-> b.groups @@ a.groups,
     err |-> a.err \/ b.err]

Merge(a, b) == CHOOSE m \in {merged(x, y) : x \in {a}, y \in {b}} : TRUE

\* AddFile, AddDir, AddUser, AddGroup: a key that is there is an error, which
\* most callers drop, and the entry stays as it was.
AddFile(ign, path, contents) == [ign EXCEPT !.files = @ @@ (path :> contents)]
AddDir(ign, path) == [ign EXCEPT !.directories = @ @@ (path :> TRUE)]
AddUser(ign, name, password, keys) ==
    [ign EXCEPT !.users = @ @@ (name :> [password |-> password, keys |-> keys])]
AddGroup(ign, name) == [ign EXCEPT !.groups = @ @@ (name :> TRUE)]

\* AddUnit merges.
unit(enabled, contents, dropins) ==
    [enabled |-> enabled, contents |-> contents, dropins |-> dropins]
AddUnit(ign, name, u) == Merge(ign, [NewIgnition EXCEPT !.units = (name :> u)])
enabledUnit == unit("yes", <<>>, Nothing)

\* An extra configuration is given in a file or inline.  Of a directory
\* FilesFromPath returns names without the directory, so nothing can be read.
Extras == {"none", "good", "malformed", "directory"}
FromPath(extra, parsed) ==
    CASE extra = "none" -> NewIgnition
      [] extra = "good" -> parsed
      [] OTHER -> failed(NewIgnition)

-----------------------------------------------------------------------------
(* The parts that all nodes have                                            *)

\* ParseOstreeReference: a transport and a registry, and a tag or none.
ParseOstreeReference(ref) ==
    [err |-> ref = "malformed", tag |-> IF ref = "tagged" THEN "tag" ELSE ""]
updateFile(ref, osTag) == <<ref, osTag>>

ContainerConfiguration(registry) ==
    AddFile(AddUnit(AddUnit(NewIgnition, "crio.service", enabledUnit),
                    "kubelet.service", enabledUnit),
            "registries.conf", <<registry>>)

KubeadmPatches ==
    AddDir(AddFile(NewIgnition, "ocne-kubeadm-upgrade.sh", <<"exit 0">>), "ock/patches")

\* The key is taken from the configuration or read from a file.
OcneUser(keys, password) == AddUser(NewIgnition, "ocne", password, keys)

\* proxy is the set of the settings that are not empty, and the addresses
\* that are not to be proxied are added to it.  Every caller adds some.
proxyUnits(conf) ==
    [crio |-> unit("yes", <<>>, "proxy.conf" :> conf),
     update |-> unit("yes", <<>>, "proxy.conf" :> conf),
     rpm |-> unit("unset", <<>>, "proxy.conf" :> conf)]
Proxy(proxy, noProxies) ==
    LET u == proxyUnits(<<proxy, noProxies>>) IN
    IF proxy = {} /\ noProxies = {} THEN NewIgnition
    ELSE AddUnit(AddUnit(AddUnit(AddUnit(NewIgnition, "crio.service", u.crio),
                                 "kublet.service", enabledUnit),
                         "ocne-update.service", u.update),
                 "rpm-ostreed.service", u.rpm)

clusterCommon(c, action) ==
    LET parsed == ParseOstreeReference(c.osRegistry)
        files == AddFile(AddFile(NewIgnition, "update.yaml", updateFile(c.osRegistry, c.osTag)),
                         "ocne.sh", <<"OcneSh">>)
        ocneUnit == unit("yes", <<>>, "bootstrap.conf" :> <<action, c.iface>>)
        units == AddUnit(AddUnit(files, "ocne-update.service", enabledUnit), "ocne.service", ocneUnit)
        all == Merge(Merge(units, ContainerConfiguration(c.registry)), KubeadmPatches) IN
    IF parsed.err \/ parsed.tag # "" THEN failed(all) ELSE all

-----------------------------------------------------------------------------
(* The virtual IP of a control plane: nginx takes the port of the API, the  *)
(* API server an alternative one, and keepalived checks nginx.              *)

keepalivedConfig(iface, vip, peers) == <<iface, vip, peers>>
GenerateKeepalivedCheckScript(port, vip) == <<port, vip>>
generateNginxConfig(port, alt) == <<port, alt>>
GetKeepalivedRefreshUnit == <<"reload", "keepalived.service">>
GetKeepalivedRefreshPathUnit == <<"keepalived.conf", "keepalived-refresh.service">>
GetNginxRefreshUnit == <<"reload", "ocne-nginx.service">>
GetNginxRefreshPathUnit == <<"nginx.conf", "ocne-nginx-refresh.service">>

vipFiles(port, alt, vip, iface) ==
    ("keepalived.conf" :> keepalivedConfig(iface, vip, {}))
        @@ ("check_apiserver.sh" :> GenerateKeepalivedCheckScript(port, vip))
        @@ ("keepalived_state.sh" :> <<"state">>) @@ ("keepalived/log" :> <<>>)
        @@ ("nginx.conf" :> generateNginxConfig(port, alt))
        @@ ("pull_ocne_nginx" :> <<"pull">>) @@ ("start_ocne_nginx" :> <<"start">>)
        @@ ("nginx/image" :> <<"image">>)
vipUnits(proxy) ==
    ("ocne-nginx.service" :>
        unit("yes", <<"nginx">>, IF proxy = {} THEN Nothing ELSE "proxy.conf" :> <<proxy>>))
        @@ ("ocne-nginx-refresh.service" :> unit("yes", GetNginxRefreshUnit, Nothing))
        @@ ("ocne-nginx-refresh.path" :> unit("yes", GetNginxRefreshPathUnit, Nothing))
        @@ ("keepalived.service" :> enabledUnit)
        @@ ("keepalived-refresh.service" :> unit("yes", GetKeepalivedRefreshUnit, Nothing))
        @@ ("keepalived-refresh.path" :> unit("yes", GetKeepalivedRefreshPathUnit, Nothing))
GenerateAssetsForVirtualIp(port, alt, vip, proxy, iface) ==
    [NewIgnition EXCEPT !.files = vipFiles(port, alt, vip, iface), !.units = vipUnits(proxy)]

\* Users and groups that are there are no error here, files are.
IgnitionForVirtualIp(ign, port, alt, vip, proxy, iface) ==
    LET assets == GenerateAssetsForVirtualIp(port, alt, vip, proxy, iface)
        known == AddUser(AddGroup(ign, "nginx_script"), "nginx_script", "unset", {})
        all == Merge(known, assets) IN
    IF DOMAIN ign.files \cap DOMAIN assets.files # {} THEN failed(all) ELSE all

-----------------------------------------------------------------------------
(* The kubeadm configuration, and all of a node                             *)

MutantLocalAPIEndpointBindPort(c) == c.port

getLocalAPIEndpointBindPort(c) == IF c.internalLB THEN c.alt ELSE c.port

GenerateKubeadmInit(c) ==
    [bindPort |-> getLocalAPIEndpointBindPort(c), key |-> c.key, tainted |-> c.workers]
GenerateClusterConfiguration(c) == [endpoint |-> <<c.address, c.port>>, version |-> c.version]
GenerateKubeadmJoin(c) ==
    [endpoint |-> <<c.address, c.port>>, token |-> c.token, hashes |-> c.hashes,
     bindPort |-> IF c.role = "cp" THEN getLocalAPIEndpointBindPort(c) ELSE 0,
     key |-> IF c.role = "cp" THEN c.key ELSE 0]

withVirtualIp(ign, c) ==
    IgnitionForVirtualIp(ign, c.port, c.alt, c.address, c.proxy, c.iface)

InitializeCluster(c) ==
    LET kubeadm == AddFile(clusterCommon(c, "init"), "kubeadm.conf",
                           <<GenerateKubeadmInit(c), GenerateClusterConfiguration(c)>>)
        ign == AddFile(AddFile(kubeadm, "ca.crt", <<c.ca>>), "ca.key", <<c.ca>>) IN
    IF c.internalLB THEN withVirtualIp(ign, c) ELSE ign

JoinCluster(c) ==
    LET ign == AddFile(clusterCommon(c, "join"), "kubeadm.conf",
                       <<GenerateKubeadmJoin(c)>>) IN
    IF c.role = "cp" /\ c.internalLB THEN withVirtualIp(ign, c) ELSE ign

-----------------------------------------------------------------------------
(* Changing the configuration of an existing control plane                  *)

\* All the comparisons are alike: as many entries, and for each entry of the
\* first the one of the second with its key is equal.
sameByKey(a, b) ==
    /\ Cardinality(DOMAIN a) = Cardinality(DOMAIN b)
    /\ \A k \in DOMAIN a : k \in DOMAIN b /\ a[k] = b[k]
compareDirectories(a, b) == sameByKey(a, b)
compareFiles(a, b) == sameByKey(a, b)
compareLinks(a, b) == sameByKey(a, b)
compareDisks(a, b) == sameByKey(a, b)
compareRaid(a, b) == sameByKey(a, b)
compareFilesystems(a, b) == sameByKey(a, b)
compareUnits(a, b) == sameByKey(a, b)
compareUnitDropins(a, b) ==
    /\ Cardinality(DOMAIN a) = Cardinality(DOMAIN b)
    /\ \A n \in DOMAIN a \cap DOMAIN b : sameByKey(a[n].dropins, b[n].dropins)
compareUsers(a, b) == sameByKey(a, b)
compareGroups(a, b) == sameByKey(a, b)

compareStorage(a, b) ==
    /\ compareDirectories(a.directories, b.directories)
    /\ compareFiles(a.files, b.files)
    /\ compareLinks(a.links, b.links)
    /\ compareDisks(a.disks, b.disks)
    /\ compareRaid(a.raid, b.raid)
    /\ compareFilesystems(a.filesystems, b.filesystems)
compareSystemd(a, b) == compareUnits(a, b) /\ compareUnitDropins(a, b)
comparePasswd(a, b) ==
    compareUsers(a.users, b.users) /\ compareGroups(a.groups, b.groups)

Compare(a, b) ==
    /\ compareStorage(a, b)
    /\ compareSystemd(a.units, b.units)
    /\ comparePasswd(a, b)

\* What an update takes away: entries of lists, and of the units that are
\* named the drop-ins that are named, or the unit if no drop-in is.
without(f, K) == [k \in DOMAIN f \ K |-> f[k]]
MutantWithoutUnits(units, removed) == without(units, DOMAIN removed)

withoutUnits(units, removed) ==
    LET whole == {n \in DOMAIN removed : removed[n] = {}}
        kept == without(units, whole) IN
    [n \in DOMAIN kept |->
        IF n \in DOMAIN removed
        THEN [kept[n] EXCEPT !.dropins = without(@, removed[n])] ELSE kept[n]]

\* UpdateIgnition: the new configuration, and whether there is a patch.
UpdateIgnition(ign, u) ==
    LET less == [ign EXCEPT !.files = without(@, u.files),
                            !.directories = without(@, u.directories),
                            !.users = without(@, u.users),
                            !.units = withoutUnits(@, u.units)]
        new == Merge(less, u.updates) IN
    [patch |-> ~Compare(new, ign), ign |-> new]

\* What Stage of OLVM changes: an older ocne kept the peers of the control
\* plane with scripts that this one does without.
retiredFiles ==
    {"keepalived-copy-kubeconfig.sh", "nginx-copy-kubeconfig.sh", "check_nginx.sh",
     "nginx-refresh/log", "51-keepalived.rules", "52-nginx.rules", "keepalived.conf.tmpl",
     "nginx.conf.tmpl", "keepalived/peers", "nginx-refresh/servers"}
controlPlaneUpdates(port, vip) ==
    LET units == ("keepalived-refresh.path" :> unit("unset", GetKeepalivedRefreshPathUnit, Nothing))
            @@ ("keepalived-refresh.service" :> unit("unset", GetKeepalivedRefreshUnit, Nothing))
            @@ ("ocne-nginx-refresh.path" :> unit("unset", GetNginxRefreshPathUnit, Nothing))
            @@ ("ocne-nginx-refresh.service" :> unit("unset", GetNginxRefreshUnit, Nothing)) IN
    [updates |-> [NewIgnition EXCEPT
        !.files = "check_apiserver.sh" :> GenerateKeepalivedCheckScript(port, vip),
        !.units = units],
     files |-> retiredFiles,
     directories |-> {"nginx-refresh"},
     users |-> {},
     units |-> ("keepalived.service" :> {"copy-kubeconfig.conf"})
                   @@ ("ocne-nginx.service" :> {"copy-kubeconfig.conf"})]

controlPlaneIgnitionPatches(ign, port, vip) == UpdateIgnition(ign, controlPlaneUpdates(port, vip))
=============================================================================
