---------------------------- MODULE MCLibvirtNet ----------------------------
(* LibvirtNet for TLC: everything at once, and nothing going wrong. *)
EXTENDS LibvirtNet, TLC

MCWorlds == {[overlap |-> b, faults |-> b, slow |-> b] : b \in BOOLEAN}
Symmetry == Permutations(Procs) \cup Permutations(Clusters)
=============================================================================
