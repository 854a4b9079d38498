---- MODULE MCConfiguration ----
EXTENDS Configuration

W(fl, cf, fi, d, l, p, t, b, c) ==
    [flags |-> fl, clusterFlags |-> cf, file |-> fi, defaults |-> d, laterDefaults |-> l,
     provider |-> p, tag |-> t, truth |-> b, careful |-> c]

opt(f, S) == {{}} \cup (IF f \in S THEN {{f}} ELSE {})
orNone(X) == X \cup {None}

\* One field in every combination of layers.
EachField ==
    UNION {{W(fl, cf, fi, d, d, "libvirt", "none", b, TRUE) :
                fl \in opt(f, ConfigFlags), cf \in opt(f, ClusterFlags),
                fi \in orNone(opt(f, Shared \cup OfClusterConfig) \ {{}}),
                d \in orNone(opt(f, Shared \cup OfConfig) \ {{}}), b \in {b \in BOOLEAN : b \/ f \in Bools}} :
           f \in Shared \cup OfConfig \cup OfClusterConfig}

Chosen == {{Provider}, {KubeVersion, Name, Provider}}
Files == {None, {Image}, {KubeVersion, OsTag, <<"Headless">>, <<"Catalog">>, <<"WorkerNodes">>,
                          <<"Providers", "Libvirt", "ControlPlaneNode", "CPUs">>}}
Later == {<<"Headless">>, SessionURI}
Preserved == {SessionURI, Preserve}

\* The defaults file, and what it is edited to.
Careless == {<<None, Later>>, <<Preserved, Preserved>>}
Edits == Careless \cup {<<{KubeVersion}, None>>, <<{KubeVersion}, {KubeVersion}>>, <<Preserved, Later>>}

\* Versions and tags, names, providers, hypervisors; deletes without a name.
Several ==
    {W(fl, cf, fi, d[1], d[2], p, t, TRUE, TRUE) :
        fl \in {{}, {SessionURI}}, cf \in Chosen, fi \in Files, d \in Edits,
        p \in {"libvirt", "oci"}, t \in {"none", "1.31"}}
    \cup {W({}, cf, fi, d[1], d[2], p, "none", TRUE, FALSE) :
            cf \in Chosen, fi \in Files, d \in Careless, p \in {"libvirt", "oci"}}
    \cup {W({}, {Provider}, fi, None, None, "libvirt", "custom", TRUE, TRUE) : fi \in {None, {Image}, {KubeVersion, OsTag}}}

MCSetups == EachField \cup Several
====
