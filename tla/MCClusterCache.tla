--------------------------- MODULE MCClusterCache ---------------------------
(* ClusterCache for TLC: commands that overlap, with and without timeouts of *)
(* the lock, and commands one after another, with every fault.               *)
EXTENDS ClusterCache

MCWorlds == {[overlap |-> TRUE,  faults |-> FALSE, slow |-> FALSE],
             [overlap |-> TRUE,  faults |-> FALSE, slow |-> TRUE],
             [overlap |-> FALSE, faults |-> TRUE,  slow |-> TRUE]}
=============================================================================
