--------------------------- MODULE MCStorageScan ----------------------------
(* Instance of StorageScan for TLC. *)
EXTENDS StorageScan, TLC

CONSTANTS a, b, c, h1, h2, h3, d1, d2, p1, p2, p3

\* A cluster of two hosts, one without, one of a single host.
ThreeClusters == <<<<h1, h2>>, <<>>, <<h3>>>>
OneGroup == [n \in Names |-> "web"]
\* Of three VMs two have one name, and one of these begins in the last cluster;
\* two VMs leave room for two changes.  One of them begins anywhere, the other on
\* the first host of its cluster.
NamesOf == [v \in VMs |-> IF v = c THEN a ELSE v]
TwoOrThree == {f \in [VMs -> Hosts \cup {None}] :
                 f[a] # None /\ f[b] = h1 /\ f[c] \in {None, h3}}
SharedIso == [v \in VMs |-> IF v = a THEN d1 ELSE None]

Symmetry == Permutations(Pods)
=============================================================================
