----------------------------- MODULE DrsEngine ------------------------------
(* How AnalysisEngine.analyze_drs_compliance cuts a group of VMs, in the     *)
(* order of the cluster's inventory, into anti-affinity rules.               *)
EXTENDS Integers, Sequences

Max2(n) == IF n > 2 THEN n ELSE 2

\* max_vms_per_rule, of a cluster of n hosts.
RuleSizeOf(n) == Max2(n - 1)

\* range(0, len(vms), m): the number of slices, the last perhaps short.
NBatches(g, m) == (Len(g) + m - 1) \div m

BatchSkewed(g, m, b) ==         \* mutant: an inclusive upper bound
  SubSeq(g, (b - 1) * m + 1, IF b * m + 1 < Len(g) THEN b * m + 1 ELSE Len(g))

Batch(g, m, b) == SubSeq(g, (b - 1) * m + 1, IF b * m < Len(g) THEN b * m ELSE Len(g))

\* The batches that become rules: a cluster of one host has none, nor has a
\* batch of one VM.
RuleBatches(g, n) ==
  {b \in 1 .. NBatches(g, RuleSizeOf(n)) : n >= 2 /\ Len(Batch(g, RuleSizeOf(n), b)) >= 2}
=============================================================================
