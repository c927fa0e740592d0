----------------------------- MODULE PoolProofs -----------------------------
(* Theorems of Pool, for pools of any size and any number of requests. *)
EXTENDS Pool, FiniteSetTheorems, SequenceTheorems, TLAPS

\* The pools stay finite: a thread is granted below the bound of threads, a
\* connection taken below that of connections.
Filled == /\ IsFiniteSet(conn) /\ Cardinality(conn) <= Conns
          /\ IsFiniteSet(thread) /\ Cardinality(thread) <= Threads

IInv == TypeOK /\ NoLeak /\ Filled

\* One that is taken while there is room fits; one that is given back does no harm.
LEMMA Take ==
  ASSUME NEW S, NEW x, NEW N \in Nat, IsFiniteSet(S), Cardinality(S) < N
  PROVE  IsFiniteSet(S \cup {x}) /\ Cardinality(S \cup {x}) <= N
  BY FS_AddElement, FS_CardinalityType

\* One given back leaves room.
LEMMA GiveBack ==
  ASSUME NEW S, NEW x, NEW N \in Nat, IsFiniteSet(S), Cardinality(S) <= N
  PROVE  IsFiniteSet(S \ {x}) /\ Cardinality(S \ {x}) <= N
  BY FS_RemoveElement, FS_CardinalityType

\* Nobody holds anything at first.
LEMMA InitIInv == Init => IInv
<1> SUFFICES ASSUME Init PROVE IInv
  OBVIOUS
<1>1. TypeOK
  BY DEF Init, TypeOK, Pcs
<1>2. NoLeak
  BY DEF Init, NoLeak, Remote
<1>3. Filled
  BY FS_EmptySet, SizesAssumption DEF Init, Filled
<1> QED
  BY <1>1, <1>2, <1>3 DEF IInv

\* Each step of a request, a task or a sweep takes and gives back what it must.
LEMMA StepIInv == IInv /\ [Next]_vars => IInv'
<1> SUFFICES ASSUME IInv, [Next]_vars PROVE IInv'
  OBVIOUS
<1> USE DEF IInv
<1>0. Threads \in Nat /\ Conns \in Nat
  BY SizesAssumption
<1>1. CASE Grant
  <2>1. Head(queue) \in Clients /\ Tail(queue) \in Seq(Clients)
    BY <1>1 DEF Grant, TypeOK
  <2>2. Filled'
    BY <1>0, <1>1, Take DEF Grant, Filled
  <2> QED
    BY <1>1, <2>1, <2>2 DEF Grant, TypeOK, NoLeak
<1>2. ASSUME NEW c \in Clients, Arrive(c) PROVE IInv'
  <2>1. TypeOK'
    BY <1>2 DEF Arrive, Move, TypeOK, Actors, Pcs, Remote
  <2>2. NoLeak'
    BY <1>2 DEF Arrive, Move, TypeOK, NoLeak, Actors, Remote
  <2> QED
    BY <1>2, <2>1, <2>2 DEF Arrive, Filled
<1>3. ASSUME NEW c \in Clients, Authenticate(c) PROVE IInv'
  <2>1. TypeOK'
    BY <1>3 DEF Authenticate, Move, TypeOK, Actors, Pcs, Remote
  <2>2. NoLeak'
    BY <1>3 DEF Authenticate, Move, TypeOK, NoLeak, Actors, Remote
  <2>3. Filled'
    BY <1>0, <1>3, Take, GiveBack DEF Authenticate, Connect, Filled
  <2> QED
    BY <2>1, <2>2, <2>3
<1>4. ASSUME NEW c \in Clients, Refuse(c) PROVE IInv'
  <2>1. TypeOK'
    BY <1>4 DEF Refuse, Move, TypeOK, Actors, Pcs, Remote
  <2>2. NoLeak'
    BY <1>4 DEF Refuse, Move, TypeOK, NoLeak, Actors, Remote
  <2>3. Filled'
    BY <1>0, <1>4, GiveBack DEF Refuse, Connect, Filled
  <2> QED
    BY <2>1, <2>2, <2>3
<1>5. ASSUME NEW c \in Clients, Handle(c) PROVE IInv'
  <2>1. TypeOK'
    BY <1>5 DEF Handle, Move, TypeOK, Actors, Pcs, Remote
  <2>2. NoLeak'
    BY <1>5 DEF Handle, Move, TypeOK, NoLeak, Actors, Remote
  <2>3. Filled'
    BY <1>0, <1>5, GiveBack DEF Handle, Filled
  <2> QED
    BY <2>1, <2>2, <2>3
<1>6. ASSUME NEW c \in Clients, CallVcenter(c) PROVE IInv'
  <2>1. TypeOK'
    BY <1>6 DEF CallVcenter, Move, TypeOK, Actors, Pcs, Remote
  <2>2. NoLeak'
    BY <1>6 DEF CallVcenter, Move, TypeOK, NoLeak, Actors, Remote
  <2> QED
    BY <1>6, <2>1, <2>2 DEF CallVcenter, Filled
<1>7. ASSUME NEW c \in Clients, NEW row \in {"refresh", "run"}, Commit(c, row) PROVE IInv'
  <2>1. TypeOK'
    BY <1>7 DEF Commit, Move, TypeOK, Actors, Pcs, Remote
  <2>2. NoLeak'
    BY <1>7 DEF Commit, Move, TypeOK, NoLeak, Actors, Remote
  <2>3. Filled'
    BY <1>0, <1>7, GiveBack DEF Commit, Connect, Filled
  <2> QED
    BY <2>1, <2>2, <2>3
<1>8. ASSUME NEW c \in Clients, Respond(c) PROVE IInv'
  <2>1. TypeOK'
    BY <1>8 DEF Respond, Move, TypeOK, Actors, Pcs, Remote
  <2>2. NoLeak'
    BY <1>8 DEF Respond, Move, TypeOK, NoLeak, Actors, Remote
  <2>3. Filled'
    BY <1>0, <1>8, GiveBack DEF Respond, Filled
  <2> QED
    BY <2>1, <2>2, <2>3
<1>9. ASSUME NEW a \in Actors, Begin(a) PROVE IInv'
  <2>1. TypeOK'
    BY <1>9 DEF Begin, Move, TypeOK, Actors, Pcs, Remote
  <2>2. NoLeak'
    BY <1>9 DEF Begin, Move, TypeOK, NoLeak, Actors, Remote
  <2>3. Filled'
    BY <1>0, <1>9, Take DEF Begin, Connect, Filled
  <2> QED
    BY <2>1, <2>2, <2>3
<1>10. ASSUME NEW s \in Sweepers, Tick(s) PROVE IInv'
  <2>1. TypeOK'
    BY <1>10 DEF Tick, Move, TypeOK, Actors, Pcs, Remote
  <2>2. NoLeak'
    BY <1>10 DEF Tick, Move, TypeOK, NoLeak, Actors, Remote
  <2> QED
    BY <1>10, <2>1, <2>2 DEF Tick, Filled
<1>11. ASSUME NEW a \in Actors, Answer(a) PROVE IInv'
  <2>1. TypeOK'
    BY <1>11 DEF Answer, Move, TypeOK, Actors, Pcs, Remote
  <2>2. NoLeak'
    BY <1>11 DEF Answer, Move, TypeOK, NoLeak, Actors, Remote
  <2>3. Filled'
    BY <1>0, <1>11, GiveBack DEF Answer, Filled
  <2> QED
    BY <2>1, <2>2, <2>3
<1>12. ASSUME NEW s \in Sweepers, NEW to \in {"task", "idle"}, Loop(s, to) PROVE IInv'
  <2>1. TypeOK'
    BY <1>12 DEF Loop, Move, TypeOK, Actors, Pcs, Remote
  <2>2. NoLeak'
    BY <1>12 DEF Loop, Move, TypeOK, NoLeak, Actors, Remote
  <2> QED
    BY <1>12, <2>1, <2>2 DEF Loop, Filled
<1>13. ASSUME NEW a \in Actors, TimeOut(a) PROVE IInv'
  <2>1. TypeOK'
    BY <1>13 DEF TimeOut, Move, TypeOK, Actors, Pcs, Remote
  <2>2. NoLeak'
    BY <1>13 DEF TimeOut, Waits, TypeOK, NoLeak, Actors, Remote
  <2>3. Filled'
    BY <1>0, <1>13, GiveBack DEF TimeOut, Filled
  <2> QED
    BY <2>1, <2>2, <2>3
<1>15. ASSUME NEW c \in Clients, LoginLocal(c) PROVE IInv'
  <2>1. TypeOK'
    BY <1>15 DEF LoginLocal, Move, TypeOK, Actors, Pcs, Remote
  <2>2. NoLeak'
    BY <1>15 DEF LoginLocal, Move, TypeOK, NoLeak, Actors, Remote
  <2>3. Filled'
    BY <1>0, <1>15, GiveBack DEF LoginLocal, Connect, Filled
  <2> QED
    BY <2>1, <2>2, <2>3
<1>16. ASSUME NEW c \in Clients, CallDirectory(c) PROVE IInv'
  <2>1. TypeOK'
    BY <1>16 DEF CallDirectory, Move, TypeOK, Actors, Pcs, Remote
  <2>2. NoLeak'
    BY <1>16 DEF CallDirectory, Move, TypeOK, NoLeak, Actors, Remote
  <2>3. Filled'
    BY <1>0, <1>16, Take DEF CallDirectory, Connect, Filled
  <2> QED
    BY <2>1, <2>2, <2>3
<1>17. ASSUME NEW c \in Clients, DirectoryAnswers(c) PROVE IInv'
  <2>1. TypeOK'
    BY <1>17 DEF DirectoryAnswers, Move, TypeOK, Actors, Pcs, Remote
  <2>2. NoLeak'
    BY <1>17 DEF DirectoryAnswers, Move, TypeOK, NoLeak, Actors, Remote
  <2>3. Filled'
    BY <1>0, <1>17, GiveBack DEF DirectoryAnswers, Connect, Filled
  <2> QED
    BY <2>1, <2>2, <2>3
<1>18. ASSUME NEW c \in Clients, IssueToken(c) PROVE IInv'
  <2>1. TypeOK'
    BY <1>18 DEF IssueToken, Move, TypeOK, Actors, Pcs, Remote
  <2>2. NoLeak'
    BY <1>18 DEF IssueToken, Move, TypeOK, NoLeak, Actors, Remote
  <2>3. Filled'
    BY <1>0, <1>18, GiveBack DEF IssueToken, Connect, Filled
  <2> QED
    BY <2>1, <2>2, <2>3
<1>19. ASSUME NEW c \in Clients, Reply(c) PROVE IInv'
  <2>1. TypeOK'
    BY <1>19 DEF Reply, Move, TypeOK, Actors, Pcs, Remote
  <2>2. NoLeak'
    BY <1>19 DEF Reply, Move, TypeOK, NoLeak, Actors, Remote
  <2>3. Filled'
    BY <1>0, <1>19, GiveBack DEF Reply, Connect, Filled
  <2> QED
    BY <2>1, <2>2, <2>3
<1>14. CASE UNCHANGED vars
  BY <1>14 DEF vars, TypeOK, NoLeak, Filled
<1> QED
  BY <1>1, <1>2, <1>3, <1>4, <1>5, <1>6, <1>7, <1>8, <1>9, <1>10, <1>11, <1>12, <1>13, <1>14,
     <1>15, <1>16, <1>17, <1>18, <1>19
  DEF Next, Step

-----------------------------------------------------------------------------
(* Theorems *)

\* The pools, and what each request, task and sweep holds of them.
THEOREM Invariance == Spec => []IInv
  BY InitIInv, StepIInv, PTL DEF Spec

\* Places, queue and holders keep their types.
THEOREM TypeCorrect == Spec => []TypeOK
<1>1. IInv => TypeOK
  BY DEF IInv
<1> QED
  BY <1>1, Invariance, PTL

\* Connections are held exactly between the user's read and the end or commit,
\* and while a vCenter or the directory is waited for.
THEOREM ConnectionsReturn == Spec => []NoLeak
<1>1. IInv => NoLeak
  BY DEF IInv
<1> QED
  BY <1>1, Invariance, PTL

\* Hanging vCenters and directory logins never hold every worker thread: each
\* that holds one holds a connection too.
THEOREM ThreadsLeft == Spec => []ThreadLeft
<1>1. IInv => ThreadLeft
  <2> SUFFICES ASSUME IInv PROVE ThreadLeft
    OBVIOUS
  <2> DEFINE waiting == {c \in thread : pc[c] \in Remote}
  <2>1. waiting \subseteq conn
    BY DEF IInv, TypeOK, NoLeak, Actors, Remote
  <2>2. Cardinality(waiting) <= Cardinality(conn) /\ IsFiniteSet(waiting)
    BY <2>1, FS_Subset DEF IInv, Filled
  <2>3. Cardinality(waiting) \in Nat /\ Cardinality(conn) \in Nat
    BY <2>2, FS_CardinalityType DEF IInv, Filled
  <2>4. Cardinality(waiting) < Threads
    BY <2>2, <2>3, SizesAssumption DEF IInv, Filled
  <2> QED
    BY <2>4 DEF ThreadLeft, IInv, Filled
<1> QED
  BY <1>1, Invariance, PTL
=============================================================================
