---------------------------- MODULE StorageScan -----------------------------
(* VCenterService.get_full_inventory followed by both analyses, while the    *)
(* vCenter goes on working: VMs migrate between hosts, their disks are       *)
(* relocated, datastores change pods and VMs are deleted between the reads.  *)
EXTENDS StorageEngine, DrsEngine

CONSTANTS VMs, NameOf,  \* VMs -> Names
          Layout,       \* the clusters in order, each the sequence of its hosts
          RuleGroupOf,  \* Names -> group keys, or None, of the vm_name patterns
          MountedIso,   \* VMs -> the datastore of the image in its drive, or None
          Starts,       \* [VMs -> host, or None]: where the VMs may run at first
          MaxLoad       \* bound: the VMs there and the changes during one collection

HostsOf(c) == {Layout[c][h] : h \in DOMAIN Layout[c]}
Hosts == UNION {HostsOf(c) : c \in DOMAIN Layout}

\* A host has one place; a cluster may have no host.
ASSUME LayoutAssumption ==
  /\ Layout \in Seq(Seq(Hosts)) /\ None \notin Hosts
  /\ \A c, e \in DOMAIN Layout : \A h \in DOMAIN Layout[c], i \in DOMAIN Layout[e] :
       Layout[c][h] = Layout[e][i] => c = e /\ h = i
ASSUME VMsAssumption == IsFiniteSet(VMs)
ASSUME NameAssumption == NameOf \in [VMs -> Names]
ASSUME RuleGroupAssumption == DOMAIN RuleGroupOf = Names
ASSUME IsoAssumption == MountedIso \in [VMs -> Datastores \cup {None}]
ASSUME StartsAssumption == Starts \subseteq [VMs -> Hosts \cup {None}]
ASSUME LoadAssumption == MaxLoad \in Nat

VARIABLES
  host,         \* where each VM runs; None if it is not there or deleted
  placed,       \* the datastores of its virtual disks
  podOf,        \* the pod of each datastore
  pc,           \* the collection: list, read (or between clusters), failed or done
  at,           \* the cluster and host to list next, <<cluster, host>>
  listed,       \* VMs of the cluster listed and not yet read, with repetitions
  reading,      \* the VM being read: the datastores of its disks, the disks so far
  inv,          \* VM entries collected
  podsLeft,     \* the pods still to be listed
  dsToPod,      \* the pod under which each datastore was listed last
  found,        \* the results of the analysis
  moves,        \* migrations and deletion of each VM since the start (ghost)
  was,          \* placements each VM has had since the start (ghost)
  podWas,       \* pods each datastore has been in since the start (ghost)
  changes       \* changes of the vCenter so far (ghost, for the bound)

vcenter == <<host, placed, podOf>>
ghosts  == <<moves, was, podWas, changes>>
lists   == <<podsLeft, dsToPod>>
scanVars == <<vcenter, pc, at, listed, reading, inv, lists, found, ghosts>>

NoVM     == [stores |-> {}, disks |-> {}]
NotFound == [violations |-> {}, scattered |-> {}, rules |-> {}]

ScanInit ==
  /\ host \in Starts
  /\ placed \in [VMs -> SUBSET Datastores]
  /\ \A v \in VMs : host[v] = None <=> placed[v] = {}
  /\ podOf \in [Datastores -> Pods \cup {None}]
  /\ pc = "read" /\ at = <<1, 1>> /\ listed = <<>> /\ reading = NoVM /\ inv = <<>>
  /\ podsLeft = Pods /\ dsToPod = [d \in Datastores |-> None] /\ found = NotFound
  /\ moves = [v \in VMs |-> 0]
  /\ was = [v \in VMs |-> {placed[v]}]
  /\ podWas = [d \in Datastores |-> {podOf[d]}]
  /\ changes = 0
-----------------------------------------------------------------------------
(* The vCenter, external to the program *)

Changing == /\ pc \in {"list", "read"}
            /\ changes + Cardinality({v \in VMs : placed[v] # {}}) < MaxLoad
            /\ changes' = changes + 1
            /\ UNCHANGED <<pc, at, listed, reading, inv, lists, found>>

Migrate(v, h) ==
  /\ Changing
  /\ host[v] \notin {None, h}
  /\ host' = [host EXCEPT ![v] = h]
  /\ moves' = [moves EXCEPT ![v] = @ + 1]
  /\ UNCHANGED <<placed, podOf, was, podWas>>

Relocate(v, ds) ==
  /\ Changing
  /\ host[v] # None /\ placed[v] # ds
  /\ placed' = [placed EXCEPT ![v] = ds]
  /\ was' = [was EXCEPT ![v] = @ \cup {ds}]
  /\ UNCHANGED <<host, podOf, moves, podWas>>

Delete(v) ==
  /\ Changing
  /\ host[v] # None
  /\ host' = [host EXCEPT ![v] = None]
  /\ moves' = [moves EXCEPT ![v] = @ + 1]
  /\ UNCHANGED <<placed, podOf, was, podWas>>

MovePod(d, p) ==
  /\ Changing
  /\ podOf[d] # p
  /\ podOf' = [podOf EXCEPT ![d] = p]
  /\ podWas' = [podWas EXCEPT ![d] = @ \cup {p}]
  /\ UNCHANGED <<host, placed, moves, was>>
-----------------------------------------------------------------------------
(* The collection *)

\* The VMs on host h of cluster c, of which there may be none.
Running(c, h) == {v \in VMs : h \in DOMAIN Layout[c] /\ host[v] = Layout[c][h]}

\* One more host has been listed; after the last of the cluster its VMs are read.
Listed == IF at[2] < Len(Layout[at[1]]) THEN at' = <<at[1], at[2] + 1>> /\ pc' = "list"
                                        ELSE at' = <<at[1] + 1, 1>> /\ pc' = "read"

ListHostAll ==                  \* mutant: get_all_vms for get_cluster_vms
  /\ pc = "list" \/ (pc = "read" /\ listed = <<>>)
  /\ at[1] <= Len(Layout)
  /\ \E order \in SetToSeqs({v \in VMs : host[v] # None}) : listed' = listed \o order
  /\ Listed
  /\ UNCHANGED <<vcenter, reading, inv, lists, found, ghosts>>

\* host.vm of the next host of the cluster or, when the VMs of one cluster have
\* been read, of the first host of the next; in any order.
ListHost ==
  /\ pc = "list" \/ (pc = "read" /\ listed = <<>>)
  /\ at[1] <= Len(Layout)
  /\ \E order \in SetToSeqs(Running(at[1], at[2])) : listed' = listed \o order
  /\ Listed
  /\ UNCHANGED <<vcenter, reading, inv, lists, found, ghosts>>

\* The next VM is one that was deleted: reading it raises, and with that the
\* whole collection.
Gone ==
  /\ pc = "read" /\ listed # <<>> /\ host[Head(listed)] = None
  /\ pc' = "failed"
  /\ UNCHANGED <<vcenter, at, listed, reading, inv, lists, found, ghosts>>

\* get_vm_disks_with_datastores reads the devices of the next VM at once ...
ReadDevices ==
  /\ pc = "read" /\ listed # <<>> /\ reading = NoVM
  /\ LET v == Head(listed)
     IN host[v] # None /\ reading' = [stores |-> placed[v], disks |-> {}]
  /\ UNCHANGED <<vcenter, pc, at, listed, inv, lists, found, ghosts>>

\* ... and then, for one virtual disk after the other, looks up the pod above
\* its datastore.  Of one datastore there may be several disks.
LookUpDisk(d) ==
  /\ pc = "read" /\ d \in reading.stores
  /\ reading' = [reading EXCEPT !.disks = @ \cup {[ds |-> d, pod |-> podOf[d], iso |-> FALSE]}]
  /\ UNCHANGED <<vcenter, pc, at, listed, inv, lists, found, ghosts>>

\* The image in the drive, among the devices too; no pod is looked up for it.
IsoOf(v) == {[ds |-> d, pod |-> None, iso |-> TRUE] : d \in {MountedIso[v]}}

\* The VM's name is read last and its entry made.
AddEntry ==
  /\ pc = "read" /\ reading # NoVM /\ {x.ds : x \in reading.disks} = reading.stores
  /\ LET v == Head(listed)
     IN /\ host[v] # None
        /\ inv' = Append(inv, [name |-> NameOf[v], cluster |-> at[1] - 1,
                               disks |-> reading.disks \cup IsoOf(v)])
  /\ listed' = Tail(listed) /\ reading' = NoVM
  /\ UNCHANGED <<vcenter, pc, at, lists, found, ghosts>>

\* get_datastore_clusters: the datastores of each pod, listed one pod after the
\* other when all VMs have been read.  ds_to_pod keeps the last.
ListPod(p) ==
  /\ pc = "read" /\ listed = <<>> /\ at[1] > Len(Layout)
  /\ p \in podsLeft /\ podsLeft' = podsLeft \ {p}
  /\ dsToPod' = [d \in Datastores |-> IF podOf[d] = p THEN p ELSE dsToPod[d]]
  /\ UNCHANGED <<vcenter, pc, at, listed, reading, inv, found, ghosts>>

InOrder(S) == CHOOSE s \in SetToSeqs(S) : \A i, j \in DOMAIN s : i < j => s[i] < s[j]

\* The VMs of group k in the entries of cluster c, in their order.
RulePositions(es, c, k) == {i \in DOMAIN es : es[i].cluster = c /\ RuleGroupOf[es[i].name] = k}
RuleMembers(es, c, k)   == LET s == InOrder(RulePositions(es, c, k))
                           IN [i \in DOMAIN s |-> es[s[i]].name]

\* rules_to_create
RulesOf(es, c, k) ==
  LET g == RuleMembers(es, c, k)
      n == Len(Layout[c])
  IN {[cluster |-> c, vms |-> Batch(g, RuleSizeOf(n), b)] : b \in RuleBatches(g, n)}

Rules(es) == UNION {RulesOf(es, c, k) : c \in DOMAIN Layout,
                                        k \in {RuleGroupOf[m] : m \in Names} \ {None}}

\* Everything has been read, and the inventory is analysed.
Analyze ==
  /\ pc = "read" /\ listed = <<>> /\ at[1] > Len(Layout) /\ podsLeft = {}
  /\ pc' = "done"
  /\ found' = [violations |-> Violations(inv, dsToPod),
               scattered |-> {inv[i].name : i \in Scattered(inv, dsToPod)},
               rules |-> Rules(inv)]
  /\ UNCHANGED <<vcenter, at, listed, reading, inv, lists, ghosts>>

Collect == \/ ListHost \/ Gone \/ ReadDevices \/ AddEntry \/ Analyze
           \/ \E d \in Datastores : LookUpDisk(d)
           \/ \E p \in Pods : ListPod(p)

Change == \E v \in VMs : \/ \E h \in Hosts : Migrate(v, h)
                         \/ \E ds \in (SUBSET Datastores) \ {{}} : Relocate(v, ds)
                         \/ Delete(v)

ScanNext == \/ Collect
            \/ Change
            \/ \E d \in Datastores, p \in Pods \cup {None} : MovePod(d, p)

ScanSpec == ScanInit /\ [][ScanNext]_scanVars
-----------------------------------------------------------------------------
(* Properties *)

Listings(v) == Cardinality({i \in DOMAIN inv : inv[i].name = NameOf[v]})
               + Cardinality({i \in DOMAIN listed : listed[i] = v})
\* Nothing about the VM changed during the collection.
Steady(v)  == host[v] # None /\ moves[v] = 0 /\ was[v] = {placed[v]}
SteadyPod(d) == podWas[d] = {podOf[d]}
Grouped2(u, v) == GroupOf[NameOf[u]] = GroupOf[NameOf[v]] /\ GroupOf[NameOf[u]] # None
\* The VMs of a name that are or were there.
WithName(n) == {v \in VMs : NameOf[v] = n /\ placed[v] # {}}
\* The others of its name stay in clusters before its own.
LastOfName(v) == \A u \in WithName(NameOf[v]) \ {v}, c, e \in DOMAIN Layout :
  moves[u] = 0 /\ (host[u] \in HostsOf(c) /\ host[v] \in HostsOf(e) => c < e)

\* A VM that does not move while the hosts are listed is never missed and never
\* listed twice, whatever the others do; a rule proposed names it once, and in
\* the cluster where it runs.  (One that moves may stand in one rule twice.)
ListedOnce == \A v \in VMs : WithName(NameOf[v]) = {v} /\ moves[v] = 0 =>
  /\ Listings(v) <= 1
  /\ pc = "done" => Listings(v) = 1
  /\ \A x \in found.rules : LET ps == {i \in DOMAIN x.vms : x.vms[i] = NameOf[v]}
       IN Cardinality(ps) <= 1 /\ (ps # {} => host[v] \in HostsOf(x.cluster))

\* Every violation reported was real at some time: both VMs had disks on the
\* datastores, or on datastores of the pods, during the collection.
SharedWasShared == \A x \in found.violations :
  LET hadDisks(n, d) == \E v \in WithName(n) : d \in UNION was[v]
  IN /\ \A d \in x.ds : hadDisks(x.a, d) /\ hadDisks(x.b, d)
     /\ \A p \in x.pods, n \in {x.a, x.b} :
          \E d \in Datastores : hadDisks(n, d) /\ p \in podWas[d]

\* Two VMs of a group that share a datastore, or a pod, for the whole of the
\* collection are reported, with all they share.  Of several VMs of one name it
\* is the one in the last cluster of which this is true.
SteadyReported == pc = "done" => \A u, v \in VMs :
  LET ds   == placed[u] \cap placed[v]
      pods == ({podOf[d] : d \in placed[u]} \cap {podOf[d] : d \in placed[v]}) \ {None}
  IN /\ u # v /\ Grouped2(u, v) /\ Steady(u) /\ Steady(v)
     /\ NameOf[u] # NameOf[v] /\ LastOfName(u) /\ LastOfName(v)
     /\ \A d \in placed[u] \cup placed[v] : SteadyPod(d)
     /\ ds \cup pods # {}
     => \E x \in found.violations : /\ {x.a, x.b} = {NameOf[u], NameOf[v]}
                                   /\ x.ds = ds /\ x.pods = pods

\* No VM violates with itself, though a migration may list it twice with two
\* placements, and no pair is reported twice.
PairsOnce ==
  /\ \A x \in found.violations : x.a # x.b
  /\ \A x, y \in found.violations : {x.a, x.b} = {y.a, y.b} => x = y

\* A VM reported as scattered had disks on several datastores at one time of
\* the collection, or one on a datastore that changed pods during it (then two
\* disks on that datastore may carry different pods); and one that was scattered
\* throughout is reported.
ScatteredTrue ==
  /\ \A n \in found.scattered : \E v \in WithName(n) : \E s \in was[v] :
       Cardinality(s) > 1 \/ \E d \in s : ~SteadyPod(d)
  /\ pc = "done" => \A v \in VMs :
       Steady(v) /\ Cardinality(placed[v]) > 1 => NameOf[v] \in found.scattered

\* Fewer of the places are shared than are offered of them.
Few(shared, places) == \/ Cardinality(shared) = 1
                       \/ Cardinality(shared) = 2 /\ Cardinality(places) > 2

\* A feasible proposal offers a place the two VMs do not share, unless it asks
\* for a manual review or they share as many pods, or datastores outside the
\* pods, as are offered: whichever datastores have room and whatever pods are
\* empty.  (Then all that is offered may be shared: the code does not take the
\* shared places out.)
AdviceSeparates ==
  \A roomy \in SUBSET Datastores, empty \in SUBSET Pods :
    LET pods == empty \cup ({dsToPod[d] : d \in Datastores} \ {None})
    IN \A q \in Proposals(found.violations, roomy, pods) :
         LET x == q.violation
             o == q.suggestion
         IN q.feasible =>
              /\ o.kind = "pod" /\ Few(x.pods, pods) => o.options \ x.pods # {}
              /\ o.kind = "datastore" /\ x.pods = {} /\ Few(x.ds, roomy)
                   => o.options \ x.ds # {}
=============================================================================
