---- MODULE MCPreUpdate ----
EXTENDS PreUpdate

CONSTANTS n1, n2

MCScripts == {apps : apps \in SUBSET Apps}

W(o, im, wl, rl, v, f, s) ==
    [cps |-> IF v = "vip" /\ s THEN Nodes ELSE {n1}, old |-> o, images |-> im, workload |-> wl, release |-> rl, vip |-> v,
     faults |-> f, serial |-> s]

Everywhere == [n \in Nodes |-> Apps]
Somewhere == [n \in Nodes |-> IF n = n1 THEN Apps ELSE {"kubeProxy"}]
Unmanaged == [a \in Apps |-> IF a \in {"kubeProxy", "coreDNS"} THEN "none" ELSE "old"]
Managed == [a \in Apps |-> IF a = "ui" THEN "untagged" ELSE "old"]
Bare == [a \in Apps |-> "none"]
Removed == [a \in Apps |-> IF a \in {"kubeProxy", "flannel"} THEN "absent" ELSE "old"]
Running == [a \in Apps |-> "old"]
Custom == [a \in Apps |-> IF a = "kubeProxy" THEN "foreign" ELSE IF a = "ui" THEN "absent" ELSE "old"]

MCWorlds ==
    \* one command after the other, with every kind of failure
    {W(Nodes, Everywhere, Running, Unmanaged, "vip", f, TRUE) : f \in {{}, {"api"}, {"helm"}, {"list"}, {"kill"}}}
    \cup {W({n1}, Somewhere, Custom, Bare, "none", {"kill"}, TRUE),
          W(Nodes, Everywhere, Removed, Managed, "capi", {}, TRUE),
          W({}, Everywhere, Running, Managed, "capi", {}, TRUE),
          W({}, Everywhere, Running, Managed, "vip", {"api", "kill"}, TRUE),
          W({n1}, Everywhere, Running, Managed, "onNode", {"helm", "list"}, TRUE)}
    \* commands that overlap
    \cup {W({}, Everywhere, Running, Managed, "vip", {"kill"}, FALSE),
          W(Nodes, Everywhere, Running, Unmanaged, "onNode", {}, FALSE)}
====
