-------------------------- MODULE RemediationProofs --------------------------
(* Theorems of Remediation, for any runs, findings, VMs and requests. *)
EXTENDS Remediation, FiniteSetTheorems, TLAPS

-----------------------------------------------------------------------------
(* The inductive invariant *)

Applies == [pc : {"idle", "loop"}, run : Runs \cup {None}, clusters : SUBSET Clusters,
            todo : SUBSET DrsProps, made : SUBSET DrsProps]

\* A session that is not begun has nothing to do; one that is belongs to a run
\* and looks at each finding once.
Sessions == \A t \in Threads :
  IF apply[t].pc = "loop" THEN apply[t].run \in Runs /\ apply[t].todo \cap apply[t].made = {}
                          ELSE apply[t].todo = {} /\ apply[t].made = {}

\* Who may still create the rule of a finding.
Pending(f) == {t \in Threads : apply[t].run = f[1] /\ f[2] \in apply[t].todo}

\* What is submitted is recorded, but for sessions and answers lost.  Until a
\* finding is taken, its submissions are those of sessions open or lost and those
\* not answered; from then on only the sessions that had read it before can add
\* to them.
Balance(f) ==
  /\ history[f] + Cardinality(Open(f)) <= submitted[f]
  /\ submitted[f] <= history[f] + Cardinality(Open(f)) + losses + unanswered[f]
  /\ IF f \in taken
     THEN submitted[f] + Cardinality(Pending(f)) <= Cardinality(Threads) + losses + unanswered[f]
     ELSE submitted[f] <= Cardinality(Open(f)) + losses + unanswered[f]

IInv == TypeOK /\ Sessions /\ TakenRecorded /\ \A f \in Findings : Balance(f)

\* Of the finitely many threads those of two disjoint kinds are no more than all.
LEMMA Counts ==
  ASSUME NEW f
  PROVE  /\ IsFiniteSet(Open(f)) /\ IsFiniteSet(Pending(f))
         /\ Cardinality(Open(f)) \in Nat /\ Cardinality(Pending(f)) \in Nat
         /\ Cardinality(Threads) \in Nat
         /\ Sessions => Cardinality(Open(f)) + Cardinality(Pending(f)) <= Cardinality(Threads)
<1>1. Open(f) \subseteq Threads /\ Pending(f) \subseteq Threads
  BY DEF Open, Pending
<1>2. /\ IsFiniteSet(Open(f)) /\ IsFiniteSet(Pending(f))
      /\ Cardinality(Open(f)) \in Nat /\ Cardinality(Pending(f)) \in Nat
      /\ Cardinality(Threads) \in Nat
  BY <1>1, FiniteAssumption, FS_Subset, FS_CardinalityType
<1>3. ASSUME Sessions
      PROVE  Cardinality(Open(f)) + Cardinality(Pending(f)) <= Cardinality(Threads)
  <2>1. Open(f) \cap Pending(f) = {}
    BY <1>3 DEF Sessions, Open, Pending
  <2>2. Cardinality(Open(f) \cup Pending(f)) = Cardinality(Open(f)) + Cardinality(Pending(f))
    <3>1. /\ IsFiniteSet(Open(f) \cup Pending(f))
          /\ Cardinality(Open(f) \cup Pending(f)) =
               Cardinality(Open(f)) + Cardinality(Pending(f)) - Cardinality(Open(f) \cap Pending(f))
      BY <1>2, FS_Union
    <3>2. Cardinality({}) = 0
      BY FS_EmptySet
    <3>3. Cardinality(Open(f) \cap Pending(f)) = 0
      BY <2>1, <3>2
    <3> QED
      BY <1>2, <3>1, <3>3
  <2>3. Cardinality(Open(f) \cup Pending(f)) <= Cardinality(Threads)
    BY <1>1, FiniteAssumption, FS_Subset
  <2> QED
    BY <2>2, <2>3
<1> QED
  BY <1>2, <1>3

\* No run is published, no session open and no rule submitted at first.
LEMMA InitIInv == Init => IInv
<1> SUFFICES ASSUME Init PROVE IInv
  OBVIOUS
<1>1. TypeOK
  BY FiniteAssumption DEF Init, TypeOK, NoApply
<1>2. Sessions
  BY DEF Init, Sessions, NoApply
<1>3. ASSUME NEW f \in Findings PROVE Open(f) = {} /\ Pending(f) = {}
  BY DEF Init, Open, Pending, NoApply
<1>4. \A f \in Findings : /\ history[f] = 0 /\ moves[f] = 0 /\ submitted[f] = 0
                            /\ unanswered[f] = 0 /\ f \notin taken
  BY DEF Init
<1>5. losses = 0
  BY DEF Init
<1> QED
  BY <1>1, <1>2, <1>3, <1>4, <1>5, FS_EmptySet, Counts
  DEF IInv, TakenRecorded, Balance

\* One step of an operator, of a session or of the vCenter keeps the invariant.
LEMMA StepIInv == IInv /\ [Next]_vars => IInv'
<1> SUFFICES ASSUME IInv, [Next]_vars PROVE IInv'
  OBVIOUS
<1> USE DEF IInv
<1>0. /\ losses \in Nat
      /\ \A f \in Findings : /\ f = <<f[1], f[2]>> /\ f[1] \in Runs
                            /\ submitted[f] \in Nat /\ history[f] \in Nat /\ moves[f] \in Nat
                            /\ unanswered[f] \in Nat
  BY FiniteAssumption DEF TypeOK, Findings
<1>c. ASSUME NEW f
      PROVE  /\ IsFiniteSet(Open(f)) /\ IsFiniteSet(Pending(f))
             /\ Cardinality(Open(f)) \in Nat /\ Cardinality(Pending(f)) \in Nat
             /\ Cardinality(Threads) \in Nat
             /\ Cardinality(Open(f)) + Cardinality(Pending(f)) <= Cardinality(Threads)
  BY Counts
<1>1. ASSUME TypeOK', UNCHANGED <<taken, history, moves, apply, submitted, losses, unanswered>>
      PROVE  IInv'
  <2>1. \A f : Open(f)' = Open(f) /\ Pending(f)' = Pending(f)
    BY <1>1 DEF Open, Pending
  <2> QED
    BY <1>1, <2>1 DEF Sessions, TakenRecorded, Balance
<1>2. ASSUME NEW r \in Runs, Publish(r) PROVE IInv'
  BY <1>1, <1>2 DEF Publish, TypeOK, world
<1>3. CASE World
  BY <1>1, <1>3 DEF World, DeleteConnection, ClusterGone, VMMoves, TypeOK, world
<1>4. ASSUME NEW t \in Threads, NEW r \in Runs, LoadApply(t, r) PROVE IInv'
  <2> DEFINE new == [pc |-> "loop", run |-> r, clusters |-> clusters,
                     todo |-> {d \in DrsProps : <<r, d>> \notin taken}, made |-> {}]
  <2>1. /\ apply' = [apply EXCEPT ![t] = new] /\ apply[t].made = {} /\ apply[t].todo = {}
        /\ UNCHANGED <<conn, world, live, published, taken, history, moves, submitted, losses, unanswered>>
    BY <1>4 DEF LoadApply, NoApply
  <2>2. new \in Applies
    BY DEF TypeOK, Applies
  <2>3. TypeOK'
    <3>1. apply' \in [Threads -> Applies]
      BY <2>1, <2>2 DEF TypeOK, Applies
    <3> QED
      BY <2>1, <3>1 DEF TypeOK, world, Applies
  <2>4. Sessions'
    BY <2>1 DEF Sessions, TypeOK
  <2>5. ASSUME NEW f \in Findings
        PROVE  Open(f)' = Open(f) /\ (f \in taken => Pending(f)' = Pending(f))
    BY <1>0, <2>1 DEF Open, Pending, TypeOK
  <2> QED
    BY <2>1, <2>3, <2>4, <2>5 DEF TakenRecorded, Balance
<1>5. ASSUME NEW t \in Threads, NEW d \in DrsProps, NEW accepted \in BOOLEAN,
             CreateRule(t, d, accepted)
      PROVE  IInv'
  <2>0. PICK g \in Runs \X DrsProps : g = <<apply[t].run, d>>
    BY <1>5 DEF CreateRule, Submit, Sessions
  <2>1. /\ apply[t].pc = "loop" /\ d \in apply[t].todo /\ d \notin apply[t].made
        /\ apply[t].run \in Runs
        /\ apply' = [apply EXCEPT ![t].todo = @ \ {d}, ![t].made = @ \cup {d}]
        /\ UNCHANGED <<conn, world, published, taken, history, moves, losses, unanswered>>
        /\ submitted' = [submitted EXCEPT ![g] = @ + 1]
        /\ live' \in {live, live \cup {g}}
    BY <1>5, <2>0 DEF CreateRule, Submit, Sessions
  <2>2. g \in Findings /\ g \in Drs /\ g[1] = apply[t].run /\ g[2] = d
    BY <2>0 DEF Findings, Drs
  <2>3. TypeOK'
    <3>1. apply' \in [Threads -> Applies]
      BY <2>1 DEF TypeOK, Applies
    <3>2. submitted' \in [Findings -> Nat]
      BY <2>1, <2>2 DEF TypeOK
    <3> QED
      BY <2>1, <2>2, <3>1, <3>2 DEF TypeOK, world, Applies
  <2>4. Sessions'
    BY <2>1 DEF Sessions, TypeOK
  <2>5. ASSUME NEW f \in Findings, f # g
        PROVE  Open(f)' = Open(f) /\ Pending(f)' = Pending(f) /\ submitted'[f] = submitted[f]
    BY <1>0, <2>0, <2>1, <2>5 DEF Open, Pending, TypeOK
  <2>6. /\ Open(g)' = Open(g) \cup {t} /\ t \notin Open(g)
        /\ Pending(g)' = Pending(g) \ {t} /\ t \in Pending(g)
    BY <2>1, <2>2 DEF Open, Pending, TypeOK
  <2>7. /\ Cardinality(Open(g)') = Cardinality(Open(g)) + 1
        /\ Cardinality(Pending(g)') = Cardinality(Pending(g)) - 1
    <3>1. /\ Cardinality(Open(g) \cup {t}) = Cardinality(Open(g)) + 1
          /\ Cardinality(Pending(g) \ {t}) = Cardinality(Pending(g)) - 1
      BY <1>c, <2>6, FS_AddElement, FS_RemoveElement
    <3> QED
      BY <2>6, <3>1
  <2>8. submitted'[g] = submitted[g] + 1
    BY <2>1, <2>2 DEF TypeOK
  <2>9. TakenRecorded'
    BY <2>1 DEF TakenRecorded
  <2>10. ASSUME NEW f \in Findings PROVE Balance(f)'
    <3>1. Balance(f) /\ Balance(g)
      BY <2>2
    <3>2. CASE f # g
      BY <2>1, <2>5, <3>1, <3>2 DEF Balance
    <3>3. CASE f = g
      <4>1. /\ history[g] \in Nat /\ submitted[g] \in Nat /\ unanswered[g] \in Nat
            /\ losses \in Nat
            /\ Cardinality(Open(g)) \in Nat /\ Cardinality(Pending(g)) \in Nat
            /\ Cardinality(Threads) \in Nat
        BY <1>0, <1>c, <2>2
      <4> QED
        BY <2>1, <2>7, <2>8, <3>1, <3>3, <4>1 DEF Balance
    <3> QED
      BY <3>2, <3>3
  <2> QED
    BY <2>1, <2>3, <2>4, <2>9, <2>10
<1>11. ASSUME NEW t \in Threads, NEW d \in DrsProps, NEW accepted \in BOOLEAN,
              LoseAnswer(t, d, accepted)
       PROVE  IInv'
  <2>0. PICK g \in Runs \X DrsProps : g = <<apply[t].run, d>>
    BY <1>11 DEF LoseAnswer, Submit, Sessions
  <2>1. /\ apply[t].pc = "loop" /\ d \in apply[t].todo /\ apply[t].run \in Runs
        /\ apply' = [apply EXCEPT ![t].todo = @ \ {d}]
        /\ UNCHANGED <<conn, world, published, taken, history, moves, losses>>
        /\ submitted' = [submitted EXCEPT ![g] = @ + 1]
        /\ unanswered[g] < MaxUnanswered /\ unanswered' = [unanswered EXCEPT ![g] = @ + 1]
        /\ live' \in {live, live \cup {g}}
    BY <1>11, <2>0 DEF LoseAnswer, Submit, Sessions
  <2>2. g \in Findings /\ g \in Drs /\ g[1] = apply[t].run /\ g[2] = d
    BY <2>0 DEF Findings, Drs
  <2>3. TypeOK'
    <3>1. apply' \in [Threads -> Applies]
      BY <2>1 DEF TypeOK, Applies
    <3>2. /\ submitted' \in [Findings -> Nat]
          /\ unanswered' \in [Findings -> 0..MaxUnanswered]
      BY <2>1, <2>2, FiniteAssumption DEF TypeOK
    <3> QED
      BY <2>1, <2>2, <3>1, <3>2 DEF TypeOK, world, Applies
  <2>4. Sessions'
    BY <2>1 DEF Sessions, TypeOK
  <2>5. ASSUME NEW f \in Findings, f # g
        PROVE  /\ Open(f)' = Open(f) /\ Pending(f)' = Pending(f)
               /\ submitted'[f] = submitted[f] /\ unanswered'[f] = unanswered[f]
    BY <1>0, <2>0, <2>1, <2>5 DEF Open, Pending, TypeOK
  <2>6. Open(g)' = Open(g) /\ Pending(g)' = Pending(g) \ {t} /\ t \in Pending(g)
    BY <2>1, <2>2 DEF Open, Pending, TypeOK
  <2>7. /\ Cardinality(Open(g)') = Cardinality(Open(g))
        /\ Cardinality(Pending(g)') = Cardinality(Pending(g)) - 1
    BY <1>c, <2>6, FS_RemoveElement
  <2>8. submitted'[g] = submitted[g] + 1 /\ unanswered'[g] = unanswered[g] + 1
    BY <2>1, <2>2 DEF TypeOK
  <2>9. TakenRecorded'
    BY <2>1 DEF TakenRecorded
  <2>10. ASSUME NEW f \in Findings PROVE Balance(f)'
    <3>1. Balance(f) /\ Balance(g)
      BY <2>2
    <3>2. CASE f # g
      BY <2>1, <2>5, <3>1, <3>2 DEF Balance
    <3>3. CASE f = g
      <4>1. /\ history[g] \in Nat /\ submitted[g] \in Nat /\ unanswered[g] \in Nat
            /\ losses \in Nat
            /\ Cardinality(Open(g)) \in Nat /\ Cardinality(Pending(g)) \in Nat
            /\ Cardinality(Threads) \in Nat
        BY <1>0, <1>c, <2>2
      <4> QED
        BY <2>1, <2>7, <2>8, <3>1, <3>3, <4>1 DEF Balance
    <3> QED
      BY <3>2, <3>3
  <2> QED
    BY <2>3, <2>4, <2>9, <2>10
<1>6. ASSUME NEW t \in Threads, NEW d \in DrsProps, SkipRule(t, d) PROVE IInv'
  <2>1. /\ apply[t].pc = "loop" /\ apply' = [apply EXCEPT ![t].todo = @ \ {d}]
        /\ UNCHANGED <<conn, world, live, published, taken, history, moves, submitted, losses, unanswered>>
    BY <1>6 DEF SkipRule
  <2>2. TypeOK'
    <3>1. apply' \in [Threads -> Applies]
      BY <2>1 DEF TypeOK, Applies
    <3> QED
      BY <2>1, <3>1 DEF TypeOK, world, Applies
  <2>3. Sessions'
    BY <2>1 DEF Sessions, TypeOK
  <2>4. ASSUME NEW f \in Findings
        PROVE  Open(f)' = Open(f) /\ Cardinality(Pending(f)') <= Cardinality(Pending(f))
               /\ Cardinality(Pending(f)') \in Nat
    <3>1. Open(f)' = Open(f) /\ Pending(f)' \subseteq Pending(f)
      BY <2>1 DEF Open, Pending, TypeOK
    <3> QED
      BY <1>c, <3>1, FS_Subset, FS_CardinalityType
  <2> QED
    BY <1>0, <1>c, <2>1, <2>2, <2>3, <2>4 DEF TakenRecorded, Balance
<1>7. ASSUME NEW t \in Threads, CommitApply(t) PROVE IInv'
  <2> DEFINE done == {apply[t].run} \X apply[t].made
  <2>1. /\ apply[t].pc = "loop" /\ apply[t].todo = {} /\ apply[t].run \in Runs
        /\ apply' = [apply EXCEPT ![t] = NoApply] /\ taken' = taken \cup done
        /\ history' = [f \in Findings |-> IF f \in done THEN history[f] + 1 ELSE history[f]]
        /\ UNCHANGED <<conn, world, live, published, moves, submitted, losses, unanswered>>
    BY <1>7 DEF CommitApply, Sessions
  <2>2. done \subseteq Findings
    BY <2>1 DEF TypeOK, Findings
  <2>3. TypeOK'
    <3>1. apply' \in [Threads -> Applies]
      BY <2>1 DEF TypeOK, Applies, NoApply
    <3>2. history' \in [Findings -> Nat]
      BY <1>0, <2>1
    <3> QED
      BY <2>1, <2>2, <3>1, <3>2 DEF TypeOK, world, Applies
  <2>4. Sessions'
    BY <2>1 DEF Sessions, TypeOK, NoApply
  <2>5. ASSUME NEW f \in Findings
        PROVE  /\ Pending(f)' = Pending(f) /\ Open(f)' = Open(f) \ {t}
               /\ f \in done <=> t \in Open(f)
               /\ history'[f] = IF f \in done THEN history[f] + 1 ELSE history[f]
    <3>1. f \in done <=> apply[t].run = f[1] /\ f[2] \in apply[t].made
      BY <1>0
    <3> QED
      BY <2>1, <3>1 DEF Open, Pending, NoApply, TypeOK
  <2>6. ASSUME NEW f \in Findings
        PROVE  Cardinality(Open(f)') = IF f \in done THEN Cardinality(Open(f)) - 1
                                                     ELSE Cardinality(Open(f))
    BY <1>c, <2>5, FS_RemoveElement
  <2> HIDE DEF done
  <2>7. TakenRecorded'
    BY <1>0, <2>1, <2>5 DEF TakenRecorded
  <2>8. ASSUME NEW f \in Findings PROVE Balance(f)'
    <3>1. Balance(f)
      OBVIOUS
    <3> QED
      BY <1>0, <1>c, <2>1, <2>5, <2>6, <3>1 DEF Balance
  <2> QED
    BY <2>1, <2>3, <2>4, <2>7, <2>8
<1>8. ASSUME NEW t \in Threads, LoseApply(t) PROVE IInv'
  <2>1. /\ apply[t].pc = "loop" /\ apply' = [apply EXCEPT ![t] = NoApply]
        /\ losses' = losses + 1 /\ losses < MaxLosses
        /\ UNCHANGED <<conn, world, live, published, taken, history, moves, submitted, unanswered>>
    BY <1>8 DEF LoseApply
  <2>2. TypeOK'
    <3>1. apply' \in [Threads -> Applies]
      BY <2>1 DEF TypeOK, Applies, NoApply
    <3> QED
      BY <2>1, <3>1, FiniteAssumption DEF TypeOK, world, Applies
  <2>3. Sessions'
    BY <2>1 DEF Sessions, TypeOK, NoApply
  <2>4. ASSUME NEW f \in Findings
        PROVE  /\ Cardinality(Pending(f)') <= Cardinality(Pending(f))
               /\ Cardinality(Pending(f)') \in Nat
               /\ Cardinality(Open(f)') \in {Cardinality(Open(f)), Cardinality(Open(f)) - 1}
    <3>1. Open(f)' = Open(f) \ {t} /\ Pending(f)' = Pending(f) \ {t}
      BY <2>1 DEF Open, Pending, NoApply, TypeOK
    <3>2. /\ Cardinality(Open(f) \ {t}) \in {Cardinality(Open(f)), Cardinality(Open(f)) - 1}
          /\ Cardinality(Pending(f) \ {t}) \in {Cardinality(Pending(f)), Cardinality(Pending(f)) - 1}
      BY <1>c, FS_RemoveElement
    <3>3. IsFiniteSet(Pending(f) \ {t})
      BY <1>c, FS_RemoveElement
    <3>4. Cardinality(Pending(f) \ {t}) \in Nat
      BY <3>3, FS_CardinalityType
    <3> QED
      BY <1>c, <3>1, <3>2, <3>4
  <2>5. ASSUME NEW f \in Findings PROVE Balance(f)'
    <3>1. Balance(f)
      OBVIOUS
    <3> QED
      BY <1>0, <1>c, <2>1, <2>4, <3>1 DEF Balance
  <2> QED
    BY <2>1, <2>2, <2>3, <2>5 DEF TakenRecorded
<1>9. ASSUME NEW g \in Findings, Approve(g) PROVE IInv'
  <2>1. /\ moves[g] < MaxApprovals /\ moves' = [moves EXCEPT ![g] = @ + 1]
        /\ taken' = taken \cup {g}
        /\ UNCHANGED <<conn, world, live, published, history, apply, submitted, losses, unanswered>>
    BY <1>9 DEF Approve
  <2>2. TypeOK'
    <3>1. moves' \in [Findings -> 0..MaxApprovals]
      BY <2>1, FiniteAssumption DEF TypeOK
    <3> QED
      BY <2>1, <3>1 DEF TypeOK, world
  <2>3. Sessions'
    BY <2>1 DEF Sessions
  <2>4. \A f : Open(f)' = Open(f) /\ Pending(f)' = Pending(f)
    BY <2>1 DEF Open, Pending
  <2>5. TakenRecorded'
    BY <1>0, <2>1, <2>4 DEF TakenRecorded, TypeOK
  <2>6. ASSUME NEW f \in Findings PROVE Balance(f)'
    <3>1. Balance(f)
      OBVIOUS
    <3> QED
      BY <1>0, <1>c, <2>1, <2>4, <3>1 DEF Balance
  <2> QED
    BY <2>2, <2>3, <2>5, <2>6
<1>10. CASE UNCHANGED vars
  BY <1>1, <1>10 DEF vars, TypeOK, world
<1> QED
  BY <1>2, <1>3, <1>4, <1>5, <1>6, <1>7, <1>8, <1>9, <1>10, <1>11 DEF Next, Apply
-----------------------------------------------------------------------------
(* Theorems *)

\* What the database records of the rules, and what the vCenter was sent.
THEOREM Invariance == Spec => []IInv
  BY InitIInv, StepIInv, PTL DEF Spec

\* Findings, histories and sessions keep their types.
THEOREM TypeCorrect == Spec => []TypeOK
<1>1. IInv => TypeOK
  BY DEF IInv
<1> QED
  BY <1>1, Invariance, PTL

\* A finding is marked if and only if a history says by what.
THEOREM MarksRecorded == Spec => []TakenRecorded
<1>1. IInv => TakenRecorded
  BY DEF IInv
<1> QED
  BY <1>1, Invariance, PTL

\* The rule history claims nothing that was not sent to the vCenter, and misses
\* no more of what was sent than sessions and answers were lost.
THEOREM HistorySubmitted == Spec => []RecordedSubmitted
<1>1. IInv => RecordedSubmitted
  BY DEF IInv, Balance, RecordedSubmitted
<1> QED
  BY <1>1, Invariance, PTL

\* A rule is sent at most once for each request served at a time and for each
\* session or answer lost, however often operators apply.
THEOREM FewDuplicates == Spec => []DuplicatesBounded
<1>1. IInv => DuplicatesBounded
  <2> SUFFICES ASSUME IInv, NEW f \in Findings
               PROVE  submitted[f] <= Cardinality(Threads) + losses + unanswered[f]
    BY DEF DuplicatesBounded
  <2>1. submitted[f] \in Nat /\ losses \in Nat /\ unanswered[f] \in Nat
    BY FiniteAssumption DEF IInv, TypeOK
  <2> QED
    BY <2>1, Counts DEF IInv, Balance
<1> QED
  BY <1>1, Invariance, PTL
=============================================================================
