---------------------------- MODULE Remediation -----------------------------
(* What operators do with the findings of completed runs: apply_drs creates *)
(* the proposed rules on the vCenter one by one and records them in one     *)
(* commit at the end, approve_storage_move logs an approval.  The vCenter   *)
(* and the database are not one transaction: sessions that are lost or      *)
(* overlap, and answers that are lost, leave rules the database does not    *)
(* know.                                                                    *)
EXTENDS Integers, FiniteSets

CONSTANTS Runs,         \* completed runs of one vCenter connection
          DrsProps,     \* rules, by name, each run reports as "drs_rule_needed"
          StorageProps, \* what each run reports as a storage finding
          Clusters, ClusterOf,  \* DrsProps -> Clusters
          VMs, MembersOf,       \* DrsProps -> SUBSET VMs
          Threads,      \* requests served at the same time
          None,
          MaxLosses,    \* bound: sessions lost to a crash or a failed commit
          MaxUnanswered, \* bound: answers lost to the creations of one rule
          MaxApprovals  \* bound: approvals of one finding

ASSUME PropsAssumption == DrsProps \cap StorageProps = {}
ASSUME ClusterAssumption == ClusterOf \in [DrsProps -> Clusters]
ASSUME MembersAssumption == MembersOf \in [DrsProps -> SUBSET VMs]
ASSUME FiniteAssumption == /\ IsFiniteSet(Threads) /\ MaxLosses \in Nat
                           /\ MaxUnanswered \in Nat /\ MaxApprovals \in Nat

Findings == Runs \X (DrsProps \cup StorageProps)
Drs      == Runs \X DrsProps

VARIABLES
  conn,         \* the connection's row exists
  clusters,     \* clusters the vCenter has under the names of the findings
  vms,          \* VMs the vCenter has in their clusters
  live,         \* findings whose rule the vCenter holds
  published,    \* runs whose findings are in the database
  taken,        \* findings with action_taken
  history,      \* rows of drs_rule_history, by finding
  moves,        \* rows of storage_move_history, by finding
  apply,        \* the apply_drs session of each thread
  submitted,    \* rule creations sent to the vCenter, by finding (ghost)
  losses,       \* sessions lost with rules created (ghost)
  unanswered    \* creations whose answer was lost, by finding (ghost)

world == <<clusters, vms>>
vars  == <<conn, clusters, vms, live, published, taken, history, moves, apply,
           submitted, losses, unanswered>>

\* No session; its other fields are those of a session not begun.
NoApply == [pc |-> "idle", run |-> None, clusters |-> {}, todo |-> {}, made |-> {}]

Init ==
  /\ conn = TRUE /\ clusters = Clusters /\ vms = VMs /\ live = {}
  /\ published = {} /\ taken = {}
  /\ history = [f \in Findings |-> 0]
  /\ moves = [f \in Findings |-> 0]
  /\ apply = [t \in Threads |-> NoApply]
  /\ submitted = [f \in Findings |-> 0]
  /\ losses = 0
  /\ unanswered = [f \in Findings |-> 0]
-----------------------------------------------------------------------------
(* Around the handlers *)

\* An analysis completes.  It looks at the inventory, not at the rules in
\* place, so a later run proposes again what an earlier one did.
Publish(r) ==
  /\ r \notin published
  /\ published' = published \cup {r}
  /\ UNCHANGED <<conn, world, live, taken, history, moves, apply, submitted, losses, unanswered>>

\* The runs survive their connection, without a reference to it.
DeleteConnection ==
  /\ conn /\ conn' = FALSE
  /\ UNCHANGED <<world, live, published, taken, history, moves, apply, submitted, losses, unanswered>>

\* A cluster is renamed or removed; a VM leaves its cluster, or comes back.
ClusterGone(c) ==
  /\ clusters' = clusters \ {c}
  /\ UNCHANGED <<conn, vms, live, published, taken, history, moves, apply, submitted, losses, unanswered>>

VMMoves(v) ==
  /\ vms' = IF v \in vms THEN vms \ {v} ELSE vms \cup {v}
  /\ UNCHANGED <<conn, clusters, live, published, taken, history, moves, apply, submitted, losses, unanswered>>
-----------------------------------------------------------------------------
(* apply_drs *)

LoadApplyAll(t, r) ==           \* mutant: no filter on action_taken
  /\ apply[t] = NoApply /\ r \in published /\ conn
  /\ apply' = [apply EXCEPT ![t] = [pc |-> "loop", run |-> r, clusters |-> clusters,
                                    todo |-> DrsProps, made |-> {}]]
  /\ UNCHANGED <<conn, world, live, published, taken, history, moves, submitted, losses, unanswered>>

\* The session connects, lists the clusters and reads the findings no action
\* was taken on.  A run without a connection, or a vCenter that cannot be
\* reached, ends the request with nothing changed.
LoadApply(t, r) ==
  /\ apply[t] = NoApply /\ r \in published /\ conn
  /\ apply' = [apply EXCEPT ![t] =
                 [pc |-> "loop", run |-> r, clusters |-> clusters,
                  todo |-> {d \in DrsProps : <<r, d>> \notin taken}, made |-> {}]]
  /\ UNCHANGED <<conn, world, live, published, taken, history, moves, submitted, losses, unanswered>>

\* create_anti_affinity_rule finds two or more of the VMs in the cluster and
\* submits the rule.  Nobody waits for the task, so nobody sees the vCenter
\* refuse it, as it does when the cluster has a rule of that name.
Submit(t, d, accepted) ==
  /\ apply[t].pc = "loop" /\ d \in apply[t].todo
  /\ ClusterOf[d] \in apply[t].clusters \cap clusters
  /\ Cardinality(MembersOf[d] \cap vms) >= 2
  /\ accepted => \A f \in live : f[2] # d
  /\ LET f == <<apply[t].run, d>>
     IN /\ submitted' = [submitted EXCEPT ![f] = @ + 1]
        /\ live' = IF accepted THEN live \cup {f} ELSE live

\* ReconfigureEx answers with the task: the finding is marked in the session.
CreateRule(t, d, accepted) ==
  /\ Submit(t, d, accepted)
  /\ apply' = [apply EXCEPT ![t].todo = @ \ {d}, ![t].made = @ \cup {d}]
  /\ UNCHANGED <<conn, world, published, taken, history, moves, losses, unanswered>>

\* The vCenter takes the request and its answer is lost: ReconfigureEx raises,
\* and False is returned for a rule that may be there.
LoseAnswer(t, d, accepted) ==
  /\ Submit(t, d, accepted)
  /\ LET f == <<apply[t].run, d>>
     IN unanswered[f] < MaxUnanswered /\ unanswered' = [unanswered EXCEPT ![f] = @ + 1]
  /\ apply' = [apply EXCEPT ![t].todo = @ \ {d}]
  /\ UNCHANGED <<conn, world, published, taken, history, moves, losses>>

\* The cluster was not there when listed (continue), has gone since, has lost
\* the VMs, or the call raised before the vCenter had it (return False).
SkipRule(t, d) ==
  /\ apply[t].pc = "loop" /\ d \in apply[t].todo
  /\ apply' = [apply EXCEPT ![t].todo = @ \ {d}]
  /\ UNCHANGED <<conn, world, live, published, taken, history, moves, submitted, losses, unanswered>>

CommitApplyUnmarked(t) ==       \* mutant: the history is written, the flag is not
  /\ apply[t].pc = "loop" /\ apply[t].todo = {}
  /\ history' = [f \in Findings |-> IF f \in {apply[t].run} \X apply[t].made
                                    THEN history[f] + 1 ELSE history[f]]
  /\ apply' = [apply EXCEPT ![t] = NoApply]
  /\ UNCHANGED <<conn, world, live, published, taken, moves, submitted, losses, unanswered>>

CommitApplyAll(t) ==            \* mutant: every finding of the run is recorded
  /\ apply[t].pc = "loop" /\ apply[t].todo = {}
  /\ taken' = taken \cup ({apply[t].run} \X DrsProps)
  /\ history' = [f \in Findings |-> IF f \in {apply[t].run} \X DrsProps
                                    THEN history[f] + 1 ELSE history[f]]
  /\ apply' = [apply EXCEPT ![t] = NoApply]
  /\ UNCHANGED <<conn, world, live, published, moves, submitted, losses, unanswered>>

\* One commit records the rules created: the flag and the history row of each.
CommitApply(t) ==
  /\ apply[t].pc = "loop" /\ apply[t].todo = {}
  /\ LET done == {apply[t].run} \X apply[t].made
     IN /\ taken' = taken \cup done
        /\ history' = [f \in Findings |-> IF f \in done THEN history[f] + 1 ELSE history[f]]
  /\ apply' = [apply EXCEPT ![t] = NoApply]
  /\ UNCHANGED <<conn, world, live, published, moves, submitted, losses, unanswered>>

\* The process dies in the loop, or the commit fails: the session is rolled
\* back, the rules stay.
LoseApply(t) ==
  /\ apply[t].pc = "loop" /\ losses < MaxLosses
  /\ apply' = [apply EXCEPT ![t] = NoApply]
  /\ losses' = losses + 1
  /\ UNCHANGED <<conn, world, live, published, taken, history, moves, submitted, unanswered>>
-----------------------------------------------------------------------------
\* approve_storage_move logs an approval of any finding, of any type, taken or
\* not, and marks it.
Approve(f) ==
  /\ f[1] \in published /\ moves[f] < MaxApprovals
  /\ moves' = [moves EXCEPT ![f] = @ + 1]
  /\ taken' = taken \cup {f}
  /\ UNCHANGED <<conn, world, live, published, history, apply, submitted, losses, unanswered>>

Apply(t) ==
  \/ \E r \in Runs : LoadApply(t, r)
  \/ \E d \in DrsProps : \/ \E accepted \in BOOLEAN : \/ CreateRule(t, d, accepted)
                                                      \/ LoseAnswer(t, d, accepted)
                         \/ SkipRule(t, d)
  \/ CommitApply(t)
  \/ LoseApply(t)

World == \/ DeleteConnection
         \/ \E c \in Clusters : ClusterGone(c)
         \/ \E v \in VMs : VMMoves(v)

Next == \/ \E r \in Runs : Publish(r)
        \/ World
        \/ \E t \in Threads : Apply(t)
        \/ \E f \in Findings : Approve(f)

Spec == Init /\ [][Next]_vars
-----------------------------------------------------------------------------
(* Properties *)

Open(f)  == {t \in Threads : apply[t].run = f[1] /\ f[2] \in apply[t].made}

TypeOK ==
  /\ conn \in BOOLEAN /\ clusters \subseteq Clusters /\ vms \subseteq VMs
  /\ live \subseteq Drs /\ published \subseteq Runs /\ taken \subseteq Findings
  /\ history \in [Findings -> Nat] /\ moves \in [Findings -> 0..MaxApprovals]
  /\ apply \in [Threads -> [pc : {"idle", "loop"}, run : Runs \cup {None},
                            clusters : SUBSET Clusters, todo : SUBSET DrsProps,
                            made : SUBSET DrsProps]]
  /\ submitted \in [Findings -> Nat] /\ losses \in 0..MaxLosses
  /\ unanswered \in [Findings -> 0..MaxUnanswered]

\* A finding is marked exactly when some record says by whose action.
TakenRecorded == \A f \in Findings : f \in taken <=> history[f] + moves[f] > 0

\* The history never claims more than was sent to the vCenter: every row, and
\* every row a session is about to commit, stands for one submission.  And it
\* claims no less but for lost sessions and lost answers: rules that may exist
\* without a record are as few as those.
RecordedSubmitted == \A f \in Findings :
  LET recorded == history[f] + Cardinality(Open(f))
  IN recorded <= submitted[f] /\ submitted[f] <= recorded + losses + unanswered[f]

\* However apply requests overlap, fail and are repeated, a rule is created
\* again only by as many requests as were open at the same time, and once more
\* for each session that was lost and for each answer that was.
DuplicatesBounded == \A f \in Findings :
  submitted[f] <= Cardinality(Threads) + losses + unanswered[f]
=============================================================================
