--------------------------- MODULE MCRemediation ----------------------------
(* Instance of Remediation for TLC. *)
EXTENDS Remediation, TLC

CONSTANTS d1, d2, c1, a, b, t1, t2, r1, r2, s1

OneCluster == [d \in DrsProps |-> c1]
SameVMs    == [d \in DrsProps |-> VMs]

\* Both rules are for the same VMs in the same cluster.
Symmetry == Permutations(Threads) \cup Permutations(VMs) \cup Permutations(DrsProps)
=============================================================================
