--------------------------- MODULE MCNodeUpgrade ---------------------------
EXTENDS NodeUpgrade, TLC

\* Processes, control plane nodes and workers are interchangeable.
Symmetry == Permutations(Procs) \cup Permutations(ControlPlane) \cup Permutations(Workers)
=============================================================================
