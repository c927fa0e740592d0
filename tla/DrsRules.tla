------------------------------ MODULE DrsRules ------------------------------
(* AnalysisEngine.analyze_drs_compliance on one cluster: group the VMs by  *)
(* the first pattern that matches their name, pick out the rules VCM made  *)
(* before, and cut every group into anti-affinity rules.  VMs are the      *)
(* positions of the cluster's inventory list; regular expressions are what *)
(* they return, a group key or NoKey.                                      *)
EXTENDS DrsEngine, FiniteSets

CONSTANTS Keys,         \* group keys: [stem, tail]; "WEB" is tail <<>>, "WEB-1" is <<1>>
          NoKey,        \* no match, or an invalid expression (re.error)
          MaxVMs,       \* bound: VMs, by number of active vm_name patterns
          MaxHosts      \* bound: hosts

ASSUME KeysAssumption ==
  /\ NoKey \notin Keys
  /\ \A k \in Keys : k = [stem |-> k.stem, tail |-> k.tail] /\ k.tail \in Seq(Nat)
ASSUME BoundsAssumption == MaxVMs \in Seq(Nat) /\ MaxHosts \in Nat

VARIABLES
  hosts,        \* cluster["host_count"]
  hits,         \* per VM, what each pattern, in query order, returns on its name
  existing,     \* the owners of the rules the cluster has: "vcm" or "manual"
  phase,        \* "group", then "split"
  next,         \* the VM to group next
  groups,       \* vm_groups in insertion order; once splitting, those left
  stale,        \* rules_to_delete
  rules,        \* rules_to_create
  skips         \* skipped_groups

vars == <<hosts, hits, existing, phase, next, groups, stale, rules, skips>>

Hit     == Keys \cup {NoKey}
VMsOf   == DOMAIN hits

GroupKeyLast(h) ==              \* mutant: no break, the last match wins
  IF \A i \in DOMAIN h : h[i] = NoKey THEN NoKey
  ELSE h[CHOOSE i \in DOMAIN h : h[i] # NoKey /\
           \A j \in DOMAIN h : j > i => h[j] = NoKey]

\* The key a VM is grouped under: the patterns are tried in order up to the
\* first match.
GroupKey(h) == IF \A i \in DOMAIN h : h[i] = NoKey THEN NoKey
               ELSE h[CHOOSE i \in DOMAIN h : h[i] # NoKey /\
                        \A j \in DOMAIN h : j < i => h[j] = NoKey]

RuleNameBare(k, b, n) == k                             \* mutant: no -{idx+1}

\* VCM-AAR-{cluster}-{key}[-{b}], the prefix being the same throughout.
RuleName(k, b, n) == IF n > 1 THEN [k EXCEPT !.tail = Append(@, b)] ELSE k
-----------------------------------------------------------------------------
Clusters(n, p) == [1..n -> [1..p -> Hit]]

\* get_drs_rules: rules of both affinities, told apart by their names later.
ExistingRules == SUBSET {"vcm", "manual"}

Init ==
  /\ hosts \in 0..MaxHosts
  /\ \E p \in DOMAIN MaxVMs : \E n \in 0..MaxVMs[p] : hits \in Clusters(n, p)
  /\ existing \in ExistingRules
  /\ phase = "group" /\ next = 1
  /\ groups = <<>> /\ stale = {} /\ rules = {} /\ skips = {}

\* One VM joins its group, which it may be the first of.
GroupVM ==
  /\ phase = "group" /\ next <= Len(hits)
  /\ next' = next + 1
  /\ LET k == GroupKey(hits[next])
         at == {i \in DOMAIN groups : groups[i].key = k}
     IN groups' = IF k = NoKey THEN groups
                  ELSE IF at = {} THEN Append(groups, [key |-> k, vms |-> <<next>>])
                  ELSE [i \in DOMAIN groups |->
                          IF i \in at THEN [groups[i] EXCEPT !.vms = Append(@, next)]
                                      ELSE groups[i]]
  /\ UNCHANGED <<hosts, hits, existing, phase, stale, rules, skips>>

FindStale ==
  /\ phase = "group" /\ next > Len(hits)
  /\ phase' = "split"
  /\ stale' = existing \cap {"vcm"}
  /\ UNCHANGED <<hosts, hits, existing, next, groups, rules, skips>>

\* "Only 1 VM in group", whatever the number of hosts.
SkipSingle ==
  /\ phase = "split" /\ groups # <<>>
  /\ Len(Head(groups).vms) = 1
  /\ skips' = skips \cup {[reason |-> "single", vms |-> Head(groups).vms]}
  /\ groups' = Tail(groups)
  /\ UNCHANGED <<hosts, hits, existing, phase, next, stale, rules>>

\* "anti-affinity not possible"
SkipHosts ==
  /\ phase = "split" /\ groups # <<>>
  /\ Len(Head(groups).vms) # 1 /\ hosts < 2
  /\ skips' = skips \cup {[reason |-> "hosts", vms |-> Head(groups).vms]}
  /\ groups' = Tail(groups)
  /\ UNCHANGED <<hosts, hits, existing, phase, next, stale, rules>>

SplitGroupDropsTail ==          \* mutant: the short batch is not reported
  /\ phase = "split" /\ groups # <<>>
  /\ Len(Head(groups).vms) # 1 /\ hosts >= 2
  /\ LET g == Head(groups)
         m == RuleSizeOf(hosts)
         n == NBatches(g.vms, m)
     IN rules' = rules \cup {[name |-> RuleName(g.key, b, n), key |-> g.key,
                              vms |-> Batch(g.vms, m, b)]
                             : b \in {c \in 1..n : Len(Batch(g.vms, m, c)) >= 2}}
  /\ groups' = Tail(groups)
  /\ UNCHANGED <<hosts, hits, existing, phase, next, stale, skips>>

SplitGroupStrict ==             \* mutant: len(batch) <= 2 is skipped
  /\ phase = "split" /\ groups # <<>>
  /\ Len(Head(groups).vms) # 1 /\ hosts >= 2
  /\ LET g == Head(groups)
         m == RuleSizeOf(hosts)
         n == NBatches(g.vms, m)
         short == {b \in 1..n : Len(Batch(g.vms, m, b)) <= 2}
     IN /\ rules' = rules \cup {[name |-> RuleName(g.key, b, n), key |-> g.key,
                                 vms |-> Batch(g.vms, m, b)] : b \in (1..n) \ short}
        /\ skips' = skips \cup {[reason |-> "tail", vms |-> Batch(g.vms, m, b)] : b \in short}
  /\ groups' = Tail(groups)
  /\ UNCHANGED <<hosts, hits, existing, phase, next, stale>>

SplitGroup ==
  /\ phase = "split" /\ groups # <<>>
  /\ Len(Head(groups).vms) # 1 /\ hosts >= 2
  /\ LET g == Head(groups)
         m == RuleSizeOf(hosts)
         n == NBatches(g.vms, m)
     IN /\ rules' = rules \cup {[name |-> RuleName(g.key, b, n), key |-> g.key,
                                 vms |-> Batch(g.vms, m, b)] : b \in RuleBatches(g.vms, hosts)}
        /\ skips' = skips \cup {[reason |-> "tail", vms |-> Batch(g.vms, m, b)]
                                : b \in (1..n) \ RuleBatches(g.vms, hosts)}
  /\ groups' = Tail(groups)
  /\ UNCHANGED <<hosts, hits, existing, phase, next, stale>>

Next == GroupVM \/ FindStale \/ SkipSingle \/ SkipHosts \/ SplitGroup

Spec == Init /\ [][Next]_vars
-----------------------------------------------------------------------------
Done == phase = "split" /\ groups = <<>>

Members(x) == {x.vms[i] : i \in DOMAIN x.vms}
KeyOf(vm)  == GroupKey(hits[vm])

\* A rule asks at least two VMs apart, and no more than the cluster's hosts can
\* keep apart: hosts - 1 of them, or two when there are two hosts.
RuleSizes == \A x \in rules : /\ hosts >= 2
                              /\ Len(x.vms) >= 2
                              /\ Len(x.vms) <= RuleSizeOf(hosts)
                              /\ Len(x.vms) <= hosts

IsFirstHit(vm, k) == \E i \in DOMAIN hits[vm] :
  hits[vm][i] = k /\ \A j \in 1..(i - 1) : hits[vm][j] = NoKey

\* When the analysis ends every VM some pattern matches stands in exactly one
\* rule or one skip, once, and no other VM stands anywhere; and in a rule of the
\* group that the first pattern to match it yields, whatever their order.
Accounted == Done => \A vm \in VMsOf :
  LET places == {p \in (rules \cup skips) \X VMsOf :
                   p[2] \in DOMAIN p[1].vms /\ p[1].vms[p[2]] = vm}
  IN /\ Cardinality(places) = IF KeyOf(vm) = NoKey THEN 0 ELSE 1
     /\ \A p \in places : p[1] \in rules => IsFirstHit(vm, p[1].key)

\* A cluster with hosts to spread over leaves at most one VM of a group of two
\* or more without a rule.
Covered == Done /\ hosts >= 2 => \A k \in Keys :
  LET group == {vm \in VMsOf : KeyOf(vm) = k}
      ruled == UNION {Members(x) : x \in {y \in rules : y.key = k}}
  IN Cardinality(group) >= 2 => Cardinality(group \ ruled) <= 1

\* Two rules to create have one name only if a key of one group is the key of
\* the other with a batch number behind it ("WEB-1" and batch 1 of "WEB").
NamesDistinct == \A x, y \in rules : x # y /\ x.name = y.name =>
  \E i \in 1..Len(hits) : \/ x.key.tail = Append(y.key.tail, i)
                         \/ y.key.tail = Append(x.key.tail, i)
=============================================================================
