-------------------------- MODULE MCLibvirtDriver --------------------------
EXTENDS LibvirtDriver, TLC

\* Clusters, and the nodes that join, are interchangeable.
Symmetry == Permutations(ClusterNames) \cup Permutations(Others)
=============================================================================
