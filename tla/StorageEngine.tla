--------------------------- MODULE StorageEngine ----------------------------
(* AnalysisEngine.analyze_storage_compliance as operators on an inventory:  *)
(* a sequence inv of VM entries [name, disks], a disk being [ds, pod, iso], *)
(* and podOf, the pod that lists each datastore.  Lists whose order nobody  *)
(* can observe are sets.                                                    *)
EXTENDS Naturals, Sequences, FiniteSets, SequencesExt

CONSTANTS Datastores, Pods, None,
          Names,        \* VM names
          GroupOf       \* Names -> group keys, or None: what the first of the
                        \* vm_name and datastore patterns that matches yields

ASSUME GroupAssumption == DOMAIN GroupOf = Names
ASSUME StoresAssumption == IsFiniteSet(Datastores) /\ IsFiniteSet(Pods) /\ None \notin Datastores

RealDisksAll(e) == {d \in e.disks : d.ds # None}        \* mutant: ISO images count

RealDisks(e) == {d \in e.disks : ~d.iso /\ d.ds # None}

\* ds_to_pod.get(...) or disk["datastore_cluster"]
PodAt(d, podOf) == IF podOf[d.ds] # None THEN podOf[d.ds] ELSE d.pod

StoresOf(e)        == {d.ds : d \in RealDisks(e)}
PodsOf(e, podOf)   == {PodAt(d, podOf) : d \in RealDisks(e)} \ {None}

Positions(inv, n) == {i \in DOMAIN inv : inv[i].name = n}

\* vm_storage: a dict by name, in the order of first insertion, that keeps the
\* entry inserted last.
Before(inv, m, n) == Min(Positions(inv, m)) < Min(Positions(inv, n))
EntryFirst(inv, n) == inv[Min(Positions(inv, n))]       \* mutant: the first stays
Entry(inv, n)      == inv[Max(Positions(inv, n))]

Grouped(inv, k)   == {i \in DOMAIN inv : GroupOf[inv[i].name] = k}

PairsByEntry(inv, k) ==                 \* mutant: vm_storage is a list
  {<<inv[p[1]], inv[p[2]]>> : p \in {q \in Grouped(inv, k) \X Grouped(inv, k) : q[1] < q[2]}}

\* The pairs (i, j), i < j, of a group's vm_storage.
Pairs(inv, k) ==
  LET names == {inv[i].name : i \in Grouped(inv, k)}
  IN IF Cardinality(Grouped(inv, k)) < 2 THEN {}
     ELSE {<<Entry(inv, p[1]), Entry(inv, p[2])>> :
             p \in {q \in names \X names : Before(inv, q[1], q[2])}}

\* Every pair of a group that shares a datastore or a pod; the severity is
\* "critical" when pods is not empty.
Violations(inv, podOf) ==
  UNION {{v \in {[group |-> k, a |-> p[1].name, b |-> p[2].name,
                   ds   |-> StoresOf(p[1]) \cap StoresOf(p[2]),
                   pods |-> PodsOf(p[1], podOf) \cap PodsOf(p[2], podOf)]
                  : p \in Pairs(inv, k)} : v.ds # {} \/ v.pods # {}}
         : k \in {GroupOf[n] : n \in Names} \ {None}}

ScatteredBoth(inv, podOf) ==            \* mutant: `and` for `or`
  {i \in DOMAIN inv : /\ Cardinality(StoresOf(inv[i])) > 1
                      /\ Cardinality(PodsOf(inv[i], podOf)) > 1}

\* The entries whose disks span several datastores or several pods.
Scattered(inv, podOf) ==
  {i \in DOMAIN inv : \/ Cardinality(StoresOf(inv[i])) > 1
                      \/ Cardinality(PodsOf(inv[i], podOf)) > 1}

\* [:3], in the arbitrary order of the inventory.
FirstThree(S) == LET s == SetToSeq(S) IN {s[i] : i \in DOMAIN s \cap (1..3)}

SuggestEarly(v, roomy, pods) ==         \* mutant: one datastore is taken for enough
  IF Cardinality(roomy) < 2 /\ Cardinality(pods) < 2 THEN [kind |-> "none", options |-> {}]
  ELSE IF v.pods # {} /\ Cardinality(pods) >= 2 THEN [kind |-> "pod", options |-> FirstThree(pods)]
  ELSE IF v.ds # {} THEN [kind |-> "datastore", options |-> FirstThree(roomy)]
  ELSE [kind |-> "manual", options |-> {}]

\* _suggest_separation: where b's disks may go, of the datastores with more
\* than 50 GB free (roomy) and the pods.
Suggest(v, roomy, pods) ==
  IF Cardinality(roomy) < 2 /\ Cardinality(pods) < 2 THEN [kind |-> "none", options |-> {}]
  ELSE IF v.pods # {} /\ Cardinality(pods) >= 2 THEN [kind |-> "pod", options |-> FirstThree(pods)]
  ELSE IF v.ds # {} /\ Cardinality(roomy) >= 2
       THEN [kind |-> "datastore", options |-> FirstThree(roomy)]
  ELSE [kind |-> "manual", options |-> {}]

\* One proposal for each violation.
Proposals(violations, roomy, pods) ==
  {[violation |-> v,
    feasible |-> Cardinality(roomy) >= 2 \/ Cardinality(pods) >= 2,
    suggestion |-> Suggest(v, roomy, pods)] : v \in violations}
=============================================================================
