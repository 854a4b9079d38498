------------------------------ MODULE Custody ------------------------------
(***************************************************************************)
(* What the Cluster API drivers promise about a cluster's resources: as    *)
(* long as a cluster has machines, some management cluster holds the       *)
(* Cluster API objects that describe them.  Objects are first created in   *)
(* the bootstrap cluster, a pivot copies them to the other side before it  *)
(* drops the original, and they only disappear together with the machines. *)
(***************************************************************************)
CONSTANT Clusters

VARIABLES
    holders,    \* [Clusters -> SUBSET {"boot", "self"}]: who holds the objects
    machines    \* the clusters that have machines

custodyVars == <<holders, machines>>

Init ==
    /\ holders = [c \in Clusters |-> {}]
    /\ machines = {}

\* The bundle of objects is applied to the bootstrap cluster.
Apply(c) ==
    /\ holders' = [holders EXCEPT ![c] = @ \cup {"boot"}]
    /\ UNCHANGED machines

\* Controllers make machines only for objects somebody holds.
Provision(c) ==
    /\ holders[c] # {}
    /\ machines' = machines \cup {c}
    /\ UNCHANGED holders

\* A pivot gives the other side a copy of what one side holds ...
Copy(c) ==
    /\ holders[c] # {}
    /\ holders' = [holders EXCEPT ![c] = {"boot", "self"}]
    /\ UNCHANGED machines

\* ... and drops the original once both hold it.
Drop(c) ==
    /\ holders[c] = {"boot", "self"}
    /\ \E h \in {"boot", "self"} : holders' = [holders EXCEPT ![c] = {h}]
    /\ UNCHANGED machines

\* Machines and objects go together.
Destroy(c) ==
    /\ holders[c] # {}
    /\ holders' = [holders EXCEPT ![c] = {}]
    /\ machines' = machines \ {c}

Next ==
    \E c \in Clusters :
        Apply(c) \/ Provision(c) \/ Copy(c) \/ Drop(c) \/ Destroy(c)

Spec == Init /\ [][Next]_custodyVars
=============================================================================
