---- MODULE MCCapiDriver ----
EXTENDS CapiDriver

CONSTANTS a, b

conf1(p, g, o, v) == [provider |-> p, given |-> g, ociSelf |-> o, olvmSelf |-> v]

\* Self-managed or not, with an ephemeral or a given bootstrap cluster; the
\* OLVM clusters with both settings or only their own.
MCKinds ==
    {conf1("oci", g, o, FALSE) : g \in BOOLEAN, o \in BOOLEAN}
    \cup {conf1("olvm", FALSE, o, TRUE) : o \in BOOLEAN}
    \cup {conf1("olvm", TRUE, FALSE, FALSE)}

W(o, f, p) == [orderly |-> o, faults |-> f, preserve |-> p]
pair(k, l) == [c \in Clusters |-> IF c = a THEN k ELSE l]

ociSelfManaged == conf1("oci", FALSE, TRUE, FALSE)
ociKept == conf1("oci", FALSE, FALSE, FALSE)
olvmSelfManaged == conf1("olvm", FALSE, TRUE, TRUE)
olvmKept == conf1("olvm", TRUE, FALSE, FALSE)

\* Commands in order: every kind of cluster beside a self-managed one and one
\* that stays in the given bootstrap cluster, also with failures; commands
\* side by side: two clusters that share the ephemeral cluster.
MCCases ==
    ({pair(k, ociSelfManaged) : k \in MCKinds} \X {W(TRUE, FALSE, FALSE)})
    \cup ({pair(k, ociSelfManaged) : k \in {ociSelfManaged, olvmSelfManaged, olvmKept}}
        \X {W(TRUE, TRUE, FALSE)})
    \cup ({pair(k, olvmKept) : k \in MCKinds} \X {W(TRUE, FALSE, FALSE)})
    \cup ({pair(olvmSelfManaged, ociKept)} \X {W(FALSE, FALSE, TRUE)})
====
