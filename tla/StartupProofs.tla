---------------------------- MODULE StartupProofs ----------------------------
(* Theorems of Startup, for any processes, types, patterns and settings. *)
EXTENDS Startup, FiniteSetTheorems, TLAPS

Items == Types \cup Patterns \cup Keys
-----------------------------------------------------------------------------
(* The inductive invariant *)

\* The types are created together and precede the tables.
Ordered == types \in {{}, Types} /\ (tables => types = Types)

\* Who is past a step of the startup has found done, or has done, what it is for.
Past(p) ==
  /\ pc[p] \in {"admin", "insert", "seed", "ready"} => tables
  /\ pc[p] = "seed" => admin
  /\ pc[p] \in Steps => p \in Seeders

\* Of a lookup under way, what is neither still to be looked up nor missing is
\* there, or was a pattern and has been deleted since.
Looked(p) ==
  /\ pc[p] = "types" => /\ todo[p] \cup missing[p] \subseteq Types
                        /\ Types \subseteq todo[p] \cup missing[p] \cup types
  /\ pc[p] = "seed" =>
       /\ todo[p] \cup missing[p] \subseteq Patterns \cup Keys
       /\ Keys \subseteq todo[p] \cup missing[p] \cup keys
       /\ \A n \in Patterns \ (todo[p] \cup missing[p]) : patterns[n] > 0 \/ n \in deleted

\* A startup is lost over the types before they are there only by the time they
\* are, and over the tables likewise.
Lost(p) ==
  /\ races[p] <= 2
  /\ types # Types \/ (pc[p] = "types" /\ missing[p] # {}) => races[p] = 0
  /\ ~tables \/ pc[p] = "ddl" => races[p] <= 1

IInv == TypeOK /\ Ordered /\ \A p \in Procs : Past(p) /\ Looked(p) /\ Lost(p)

\* No process is up at first, and nothing is there but the schema.
LEMMA InitIInv == Init => IInv
<1> SUFFICES ASSUME Init PROVE IInv
  OBVIOUS
<1>1. TypeOK /\ Ordered
  BY DEF Init, TypeOK, Ordered, Crons
<1>2. \A p \in Procs : pc[p] = "down" /\ races[p] = 0
  BY DEF Init
<1> QED
  BY <1>1, <1>2 DEF IInv, Past, Looked, Lost, Steps

\* One step of any process, or of the administrator, keeps the invariant.
LEMMA StepIInv == IInv /\ [Next]_vars => IInv'
<1> SUFFICES ASSUME IInv, [Next]_vars PROVE IInv'
  OBVIOUS
<1> USE ItemsAssumption, KeysAssumption DEF IInv, Items
<1>1. ASSUME NEW p \in Procs, Start(p) PROVE IInv'
  <2>1. TypeOK' /\ Ordered'
    BY <1>1 DEF Start, GoTo, db, TypeOK, Ordered, Steps, Past, Looked
  <2>2. ASSUME NEW q \in Procs PROVE Past(q)'
    BY <1>1 DEF Start, GoTo, db, TypeOK, Steps, Past, Ordered, Procs, Seeders
  <2>3. ASSUME NEW q \in Procs PROVE Looked(q)'
    BY <1>1 DEF Start, GoTo, db, TypeOK, Steps, Looked
  <2>4. ASSUME NEW q \in Procs PROVE Lost(q)'
    BY <1>1 DEF Start, GoTo, db, TypeOK, Steps, Lost, Ordered, Looked
  <2> QED
    BY <2>1, <2>2, <2>3, <2>4
<1>2. ASSUME NEW p \in Procs, NEW x \in Items, LookUp(p, x) PROVE IInv'
  <2>1. TypeOK' /\ Ordered'
    BY <1>2 DEF LookUp, db, Present, TypeOK, Ordered, Steps, Past, Looked
  <2>2. ASSUME NEW q \in Procs PROVE Past(q)'
    BY <1>2 DEF LookUp, db, Present, TypeOK, Steps, Past, Ordered, Procs, Seeders
  <2>3. ASSUME NEW q \in Procs PROVE Looked(q)'
    <3>1. CASE q # p \/ pc[p] = "types"
      BY <1>2, <2>3, <3>1 DEF LookUp, db, Present, TypeOK, Looked
    <3>2. CASE q = p /\ pc[p] = "seed"
      <4>1. /\ todo'[p] = todo[p] \ {x} /\ x \in todo[p]
            /\ missing'[p] = IF Present(x) THEN missing[p] ELSE missing[p] \cup {x}
        BY <1>2 DEF LookUp, TypeOK
      <4>2. x \in Patterns \cup Keys /\ Looked(p)
        BY <4>1, <3>2 DEF Looked
      <4>3. Present(x) => x \in keys \/ (x \in Patterns /\ patterns[x] > 0)
        BY <4>2, ItemsAssumption DEF Present, TypeOK
      <4> QED
        BY <1>2, <3>2, <4>1, <4>2, <4>3 DEF LookUp, db, TypeOK, Looked
    <3> QED
      BY <1>2, <2>3, <3>1, <3>2 DEF LookUp
  <2>4. ASSUME NEW q \in Procs PROVE Lost(q)'
    BY <1>2 DEF LookUp, db, Present, TypeOK, Steps, Lost, Ordered, Looked
  <2> QED
    BY <2>1, <2>2, <2>3, <2>4
<1>3. ASSUME NEW p \in Procs, CreateTypes(p) PROVE IInv'
  <2>1. TypeOK' /\ Ordered'
    <3>1. types' \in {{}, Types} /\ (tables => types' = Types)
      BY <1>3 DEF CreateTypes, TypeOK, Ordered, Looked
    <3>2. GoTo(p, "table", {}) \/ Fail(p)
      BY <1>3 DEF CreateTypes
    <3>3. /\ pc' \in [Procs -> Steps \cup {"down", "failed", "schedule", "ready"}]
          /\ todo' \in [Procs -> SUBSET Items] /\ missing' \in [Procs -> SUBSET Items]
      BY <3>2 DEF TypeOK, GoTo, Fail, Steps
    <3>4. races' \in [Procs -> Nat]
      <4>1. races' = races \/ races' = [races EXCEPT ![p] = @ + 1]
        BY <1>3 DEF CreateTypes
      <4> QED
        BY <4>1 DEF TypeOK
    <3>5. UNCHANGED <<tables, admin, patterns, keys, cron, deleted>>
      BY <1>3 DEF CreateTypes
    <3> QED
      BY <3>1, <3>3, <3>4, <3>5 DEF TypeOK, Ordered
  <2>2. ASSUME NEW q \in Procs PROVE Past(q)'
    BY <1>3 DEF CreateTypes, GoTo, db, Fail, TypeOK, Steps, Past, Ordered, Procs, Seeders
  <2>3. ASSUME NEW q \in Procs PROVE Looked(q)'
    BY <1>3 DEF CreateTypes, GoTo, db, Fail, TypeOK, Steps, Looked
  <2>4. ASSUME NEW q \in Procs PROVE Lost(q)'
    BY <1>3 DEF CreateTypes, GoTo, db, Fail, TypeOK, Steps, Lost, Ordered, Looked
  <2> QED
    BY <2>1, <2>2, <2>3, <2>4
<1>4. ASSUME NEW p \in Procs, FindTables(p) PROVE IInv'
  <2>1. TypeOK' /\ Ordered'
    BY <1>4 DEF FindTables, GoTo, db, TypeOK, Ordered, Steps, Past, Looked
  <2>2. ASSUME NEW q \in Procs PROVE Past(q)'
    BY <1>4 DEF FindTables, GoTo, db, TypeOK, Steps, Past, Ordered, Procs, Seeders
  <2>3. ASSUME NEW q \in Procs PROVE Looked(q)'
    BY <1>4 DEF FindTables, GoTo, db, TypeOK, Steps, Looked
  <2>4. ASSUME NEW q \in Procs PROVE Lost(q)'
    BY <1>4 DEF FindTables, GoTo, db, TypeOK, Steps, Lost, Ordered, Looked
  <2> QED
    BY <2>1, <2>2, <2>3, <2>4
<1>5. ASSUME NEW p \in Procs, CreateTables(p) PROVE IInv'
  <2>1. TypeOK' /\ Ordered'
    <3>1. Fail(p) \/ GoTo(p, "admin", {})
      BY <1>5 DEF CreateTables
    <3>2. /\ pc' \in [Procs -> Steps \cup {"down", "failed", "schedule", "ready"}]
          /\ todo' \in [Procs -> SUBSET Items] /\ missing' \in [Procs -> SUBSET Items]
      BY <3>1 DEF TypeOK, GoTo, Fail, Steps
    <3>3. races' \in [Procs -> Nat]
      <4>1. races' = races \/ races' = [races EXCEPT ![p] = @ + 1]
        BY <1>5 DEF CreateTables
      <4> QED
        BY <4>1 DEF TypeOK
    <3>4. tables' \in BOOLEAN /\ (tables' => types = Types)
      <4>1. tables' = tables \/ (tables' = TRUE /\ types = Types)
        BY <1>5, Zenon DEF CreateTables
      <4>2. tables \in BOOLEAN /\ (tables => types = Types)
        BY DEF TypeOK, Ordered
      <4>3. CASE tables' = tables
        BY <4>2, <4>3, Zenon
      <4>4. CASE tables' = TRUE /\ types = Types
        BY <4>4, Zenon
      <4> QED
        BY <4>1, <4>3, <4>4, Zenon
    <3>5. UNCHANGED <<types, admin, patterns, keys, cron, deleted>>
      BY <1>5 DEF CreateTables
    <3> QED
      BY <3>2, <3>3, <3>4, <3>5 DEF TypeOK, Ordered
  <2>2. ASSUME NEW q \in Procs PROVE Past(q)'
    BY <1>5 DEF CreateTables, GoTo, db, Fail, TypeOK, Steps, Past, Ordered, Procs, Seeders
  <2>3. ASSUME NEW q \in Procs PROVE Looked(q)'
    BY <1>5 DEF CreateTables, GoTo, db, Fail, TypeOK, Steps, Looked
  <2>4. ASSUME NEW q \in Procs PROVE Lost(q)'
    BY <1>5 DEF CreateTables, GoTo, db, Fail, TypeOK, Steps, Lost, Ordered, Looked
  <2> QED
    BY <2>1, <2>2, <2>3, <2>4
<1>6. ASSUME NEW p \in Procs, FindAdmin(p) PROVE IInv'
  <2>1. TypeOK' /\ Ordered'
    BY <1>6 DEF FindAdmin, GoTo, db, TypeOK, Ordered, Steps, Past, Looked
  <2>2. ASSUME NEW q \in Procs PROVE Past(q)'
    BY <1>6 DEF FindAdmin, GoTo, db, TypeOK, Steps, Past, Ordered, Procs, Seeders
  <2>3. ASSUME NEW q \in Procs PROVE Looked(q)'
    BY <1>6 DEF FindAdmin, GoTo, db, TypeOK, Steps, Looked
  <2>4. ASSUME NEW q \in Procs PROVE Lost(q)'
    BY <1>6 DEF FindAdmin, GoTo, db, TypeOK, Steps, Lost, Ordered, Looked
  <2> QED
    BY <2>1, <2>2, <2>3, <2>4
<1>7. ASSUME NEW p \in Procs, CreateAdmin(p) PROVE IInv'
  <2>1. TypeOK' /\ Ordered'
    BY <1>7 DEF CreateAdmin, GoTo, db, SeedEnds, TypeOK, Ordered, Steps, Past, Looked
  <2>2. ASSUME NEW q \in Procs PROVE Past(q)'
    BY <1>7 DEF CreateAdmin, GoTo, db, SeedEnds, TypeOK, Steps, Past, Ordered, Procs, Seeders
  <2>3. ASSUME NEW q \in Procs PROVE Looked(q)'
    BY <1>7 DEF CreateAdmin, GoTo, db, SeedEnds, TypeOK, Steps, Looked
  <2>4. ASSUME NEW q \in Procs PROVE Lost(q)'
    BY <1>7 DEF CreateAdmin, GoTo, db, SeedEnds, TypeOK, Steps, Lost, Ordered, Looked
  <2> QED
    BY <2>1, <2>2, <2>3, <2>4
<1>8. ASSUME NEW p \in Procs, CommitSeed(p) PROVE IInv'
  <2>1. TypeOK' /\ Ordered'
    BY <1>8 DEF CommitSeed, GoTo, db, SeedEnds, TypeOK, Ordered, Steps, Past, Looked
  <2>2. ASSUME NEW q \in Procs PROVE Past(q)'
    BY <1>8 DEF CommitSeed, GoTo, db, SeedEnds, TypeOK, Steps, Past, Ordered, Procs, Seeders
  <2>3. ASSUME NEW q \in Procs PROVE Looked(q)'
    BY <1>8 DEF CommitSeed, GoTo, db, SeedEnds, TypeOK, Steps, Looked
  <2>4. ASSUME NEW q \in Procs PROVE Lost(q)'
    BY <1>8 DEF CommitSeed, GoTo, db, SeedEnds, TypeOK, Steps, Lost, Ordered, Looked
  <2> QED
    BY <2>1, <2>2, <2>3, <2>4
<1>9. ASSUME NEW p \in Procs, SeedFails(p) PROVE IInv'
  <2>1. TypeOK' /\ Ordered'
    BY <1>9 DEF SeedFails, GoTo, db, SeedEnds, TypeOK, Ordered, Steps, Past, Looked
  <2>2. ASSUME NEW q \in Procs PROVE Past(q)'
    BY <1>9 DEF SeedFails, GoTo, db, SeedEnds, TypeOK, Steps, Past, Ordered, Procs, Seeders
  <2>3. ASSUME NEW q \in Procs PROVE Looked(q)'
    BY <1>9 DEF SeedFails, GoTo, db, SeedEnds, TypeOK, Steps, Looked
  <2>4. ASSUME NEW q \in Procs PROVE Lost(q)'
    BY <1>9 DEF SeedFails, GoTo, db, SeedEnds, TypeOK, Steps, Lost, Ordered, Looked
  <2> QED
    BY <2>1, <2>2, <2>3, <2>4
<1>10. ASSUME NEW p \in Procs, Schedule(p) PROVE IInv'
  <2>1. TypeOK' /\ Ordered'
    BY <1>10 DEF Schedule, GoTo, db, Fail, TypeOK, Ordered, Steps, Past, Looked
  <2>2. ASSUME NEW q \in Procs PROVE Past(q)'
    BY <1>10 DEF Schedule, GoTo, db, Fail, TypeOK, Steps, Past, Ordered, Procs, Seeders
  <2>3. ASSUME NEW q \in Procs PROVE Looked(q)'
    BY <1>10 DEF Schedule, GoTo, db, Fail, TypeOK, Steps, Looked
  <2>4. ASSUME NEW q \in Procs PROVE Lost(q)'
    BY <1>10 DEF Schedule, GoTo, db, Fail, TypeOK, Steps, Lost, Ordered, Looked
  <2> QED
    BY <2>1, <2>2, <2>3, <2>4
<1>11. ASSUME NEW p \in Procs, Stop(p) PROVE IInv'
  <2>1. TypeOK' /\ Ordered'
    BY <1>11 DEF Stop, GoTo, db, TypeOK, Ordered, Steps, Past, Looked
  <2>2. ASSUME NEW q \in Procs PROVE Past(q)'
    BY <1>11 DEF Stop, GoTo, db, TypeOK, Steps, Past, Ordered, Procs, Seeders
  <2>3. ASSUME NEW q \in Procs PROVE Looked(q)'
    BY <1>11 DEF Stop, GoTo, db, TypeOK, Steps, Looked
  <2>4. ASSUME NEW q \in Procs PROVE Lost(q)'
    BY <1>11 DEF Stop, GoTo, db, TypeOK, Steps, Lost, Ordered, Looked
  <2> QED
    BY <2>1, <2>2, <2>3, <2>4
<1>12. ASSUME NEW c \in Crons, SetCron(c) PROVE IInv'
  <2>1. TypeOK' /\ Ordered'
    BY <1>12 DEF SetCron, TypeOK, Ordered, Steps, Past, Looked
  <2>2. ASSUME NEW q \in Procs PROVE Past(q)'
    BY <1>12 DEF SetCron, TypeOK, Steps, Past, Ordered, Procs, Seeders
  <2>3. ASSUME NEW q \in Procs PROVE Looked(q)'
    BY <1>12 DEF SetCron, TypeOK, Steps, Looked
  <2>4. ASSUME NEW q \in Procs PROVE Lost(q)'
    BY <1>12 DEF SetCron, TypeOK, Steps, Lost, Ordered, Looked
  <2> QED
    BY <2>1, <2>2, <2>3, <2>4
<1>13. ASSUME NEW n \in Patterns, DeletePattern(n) PROVE IInv'
  <2>1. TypeOK' /\ Ordered'
    BY <1>13 DEF DeletePattern, TypeOK, Ordered, Steps, Past, Looked
  <2>2. ASSUME NEW q \in Procs PROVE Past(q)'
    BY <1>13 DEF DeletePattern, TypeOK, Steps, Past, Ordered, Procs, Seeders
  <2>3. ASSUME NEW q \in Procs PROVE Looked(q)'
    BY <1>13 DEF DeletePattern, TypeOK, Steps, Looked
  <2>4. ASSUME NEW q \in Procs PROVE Lost(q)'
    BY <1>13 DEF DeletePattern, TypeOK, Steps, Lost, Ordered, Looked
  <2> QED
    BY <2>1, <2>2, <2>3, <2>4
<1>14. CASE UNCHANGED vars
  BY <1>14 DEF vars, db, TypeOK, Ordered, Past, Looked, Lost
<1> QED
  BY <1>1, <1>2, <1>3, <1>4, <1>5, <1>6, <1>7, <1>8, <1>9, <1>10, <1>11, <1>12, <1>13, <1>14 DEF Next, Step

\* What holds of every startup, whatever the others have done meanwhile.
THEOREM Invariance == Spec => []IInv
  BY InitIInv, StepIInv, PTL DEF Spec

\* Every variable keeps its type over any sequence of starts, stops and races.
THEOREM TypeCorrect == Spec => []TypeOK
<1>1. IInv => TypeOK
  BY DEF IInv
<1> QED
  BY <1>1, Invariance, PTL

\* A process that is started again after it lost its startup to other processes
\* loses it twice at most: it is bound to go further in the end.
THEOREM FewRaces == Spec => []RacesBounded
<1>1. IInv => RacesBounded
  BY DEF IInv, Lost, RacesBounded
<1> QED
  BY <1>1, Invariance, PTL
-----------------------------------------------------------------------------
(* Copies of a default pattern *)

\* There are finitely many seeders, and no more of any kind than all of them.
LEMMA SeedersFinite ==
  ASSUME NEW S, S \subseteq Seeders
  PROVE  IsFiniteSet(S) /\ Cardinality(S) \in Nat /\ Cardinality(S) <= Cardinality(Seeders)
         /\ Cardinality(Seeders) \in Nat
  BY ProcsAssumption, FS_Subset, FS_CardinalityType DEF Seeders

\* A commit takes its process out of those that would add a copy, and adds one.
LEMMA CopiesStep == IInv /\ CopiesBounded /\ [Next]_vars => CopiesBounded'
<1> SUFFICES ASSUME IInv, CopiesBounded, [Next]_vars, NEW n \in Patterns
             PROVE  patterns'[n] + Cardinality(Seeding(n)') <= Cardinality(Seeders)
  BY DEF CopiesBounded
<1> USE DEF IInv
<1>1. /\ patterns[n] \in Nat /\ patterns[n] + Cardinality(Seeding(n)) <= Cardinality(Seeders)
      /\ Seeding(n) \subseteq Seeders /\ Seeding(n)' \subseteq Seeders
  BY DEF CopiesBounded, TypeOK, Seeding
<1>2. /\ Cardinality(Seeding(n)) \in Nat /\ Cardinality(Seeding(n)') \in Nat
      /\ Cardinality(Seeding(n)') <= Cardinality(Seeders) /\ Cardinality(Seeders) \in Nat
      /\ IsFiniteSet(Seeding(n))
  BY <1>1, SeedersFinite
<1>3. CASE patterns'[n] <= patterns[n] /\ patterns'[n] \in Nat /\ Seeding(n)' \subseteq Seeding(n)
  <2>1. Cardinality(Seeding(n)') <= Cardinality(Seeding(n))
    BY <1>2, <1>3, FS_Subset
  <2> QED
    BY <1>1, <1>2, <1>3, <2>1
<1>4. ASSUME NEW p \in Procs, NEW x \in Items, LookUp(p, x)
      PROVE  patterns'[n] + Cardinality(Seeding(n)') <= Cardinality(Seeders)
  <2>1. patterns' = patterns /\ pc' = pc
    BY <1>4 DEF LookUp, db
  <2>2. CASE patterns[n] = 0
    BY <1>2, <2>1, <2>2
  <2>3. CASE patterns[n] # 0
    <3>1. n \in missing'[p] => n \in missing[p]
      BY <1>1, <1>4, <2>3 DEF LookUp, Present, TypeOK
    <3>2. Seeding(n)' \subseteq Seeding(n)
      BY <1>4, <2>1, <3>1 DEF Seeding, LookUp, TypeOK
    <3> QED
      BY <1>1, <1>3, <2>1, <3>2
  <2> QED
    BY <2>2, <2>3
<1>5. ASSUME NEW p \in Procs, CommitSeed(p)
      PROVE  patterns'[n] + Cardinality(Seeding(n)') <= Cardinality(Seeders)
  <2>1. Seeding(n)' = Seeding(n) \ {p}
    BY <1>5 DEF CommitSeed, SeedEnds, GoTo, Seeding, TypeOK, Procs, Seeders
  <2>2. p \in Seeders
    BY <1>5 DEF CommitSeed, Past, Steps
  <2>3. CASE n \in missing[p]
    <3>1. p \in Seeding(n)
      BY <1>5, <2>2, <2>3 DEF Seeding, CommitSeed
    <3>2. Cardinality(Seeding(n)') = Cardinality(Seeding(n)) - 1
      BY <1>2, <2>1, <3>1, FS_RemoveElement
    <3>3. patterns'[n] \in {patterns[n], patterns[n] + 1}
      BY <1>5 DEF CommitSeed, TypeOK
    <3> QED
      BY <1>1, <1>2, <3>2, <3>3
  <2>4. CASE n \notin missing[p]
    <3>1. patterns'[n] = patterns[n]
      BY <1>5, <2>4 DEF CommitSeed, TypeOK
    <3> QED
      BY <1>1, <1>3, <2>1, <3>1
  <2> QED
    BY <2>3, <2>4
<1>7. ASSUME NEW m \in Patterns, DeletePattern(m)
      PROVE  patterns'[n] + Cardinality(Seeding(n)') <= Cardinality(Seeders)
  BY <1>1, <1>3, <1>7 DEF DeletePattern, Seeding, TypeOK
<1>8. ASSUME NEW p \in Procs, UNCHANGED patterns, NEW step, NEW items, GoTo(p, step, items)
      PROVE  patterns'[n] + Cardinality(Seeding(n)') <= Cardinality(Seeders)
  <2>1. Seeding(n)' \subseteq Seeding(n)
    BY <1>8 DEF GoTo, Seeding, TypeOK, Procs, Seeders
  <2> QED
    BY <1>1, <1>3, <1>8, <2>1
<1>9. CASE UNCHANGED <<patterns, pc, missing>>
  BY <1>1, <1>3, <1>9 DEF Seeding
<1>10. ASSUME NEW p \in Procs, Step(p), ~CommitSeed(p), \A x \in Items : ~LookUp(p, x)
       PROVE  patterns' = patterns /\ \E step, items : GoTo(p, step, items)
  BY <1>10 DEF Step, Start, CreateTypes, FindTables, CreateTables, FindAdmin, CreateAdmin,
     SeedFails, Schedule, Stop, Fail, SeedEnds, db, Items
<1> QED
  BY <1>4, <1>5, <1>7, <1>8, <1>9, <1>10 DEF Next, SetCron, Step, vars, db, Items

\* However many processes seed at once, and are stopped and started again, there
\* are never more copies of a default pattern than processes that seed.
THEOREM FewCopies == Spec => []CopiesBounded
<1>1. Init => CopiesBounded
  <2> SUFFICES ASSUME Init, NEW n \in Patterns
               PROVE  patterns[n] + Cardinality(Seeding(n)) <= Cardinality(Seeders)
    BY DEF CopiesBounded
  <2>1. patterns[n] = 0 /\ Seeding(n) = {}
    BY DEF Init, Seeding, Procs, Seeders
  <2> QED
    BY <2>1, FS_EmptySet, SeedersFinite
<1> QED
  BY <1>1, CopiesStep, Invariance, PTL DEF Spec
-----------------------------------------------------------------------------
(* The refinement *)

\* What a process does with its own state alone is seen by nobody, unless it
\* begins or ceases to serve.
LEMMA OwnStep ==
  ASSUME TypeOK, NEW p \in Procs, NEW step, NEW items, GoTo(p, step, items)
  PROVE  /\ step # "ready" /\ pc[p] # "ready" => Up' = Up
         /\ step = "ready" => Up' = Up \cup {p}
         /\ step = "down" => Up' = Up \ {p}
  BY DEF TypeOK, GoTo, Up

\* The schema is that of the types and tables.
LEMMA SchemaKept == UNCHANGED <<types, tables>> => UNCHANGED Schema
  BY DEF Schema

\* The defaults are those of the patterns and settings.
LEMMA DefaultsKept == UNCHANGED <<patterns, keys>> => UNCHANGED Defaults
  BY DEF Defaults

\* Every step is a step of Provisioning or is not seen there.
LEMMA RefinementStep == IInv /\ [Next]_vars => [Provisioned!Next]_(Provisioned!vars)
<1> SUFFICES ASSUME IInv, [Next]_vars PROVE [Provisioned!Next]_(Provisioned!vars)
  OBVIOUS
<1> USE DEF IInv
<1>1. ASSUME UNCHANGED <<types, tables, admin, patterns, keys, deleted>>, UNCHANGED Up
      PROVE  UNCHANGED Provisioned!vars
  BY <1>1, SchemaKept, DefaultsKept DEF Provisioned!vars
<1>2. ASSUME NEW p \in Procs, Start(p) \/ FindTables(p) \/ FindAdmin(p) \/ SeedFails(p)
      PROVE  UNCHANGED Provisioned!vars
  <2>1. pc[p] # "ready" /\ UNCHANGED <<types, tables, admin, patterns, keys, deleted>>
    BY <1>2 DEF Start, FindTables, FindAdmin, SeedFails, db
  <2>2. \E step, items : step # "ready" /\ GoTo(p, step, items)
    BY <1>2 DEF Start, FindTables, FindAdmin, SeedFails, SeedEnds
  <2> QED
    BY <2>1, <2>2, <1>1, OwnStep
<1>3. ASSUME NEW p \in Procs, NEW x \in Items, LookUp(p, x)
      PROVE  UNCHANGED Provisioned!vars
  BY <1>1, <1>3 DEF LookUp, db, Up
<1>4. ASSUME NEW p \in Procs, CreateTypes(p)
      PROVE  Provisioned!MakeTypes \/ UNCHANGED Provisioned!vars
  <2>1. pc[p] # "ready" /\ UNCHANGED <<tables, admin, patterns, keys, deleted>>
    BY <1>4 DEF CreateTypes
  <2>2. UNCHANGED Up
    BY <1>4, <2>1, OwnStep DEF CreateTypes, Fail
  <2>3. CASE types' = types
    BY <1>1, <2>1, <2>2, <2>3
  <2>4. CASE types' # types
    <3>1. types # Types /\ types' = Types /\ tables = FALSE
      BY <1>4, <2>4 DEF CreateTypes, Ordered, Looked, TypeOK
    <3>2. Schema = "empty" /\ Schema' = "types"
      BY <2>1, <3>1 DEF Schema
    <3> QED
      BY <2>1, <2>2, <3>2, DefaultsKept DEF Provisioned!MakeTypes
  <2> QED
    BY <2>3, <2>4
<1>5. ASSUME NEW p \in Procs, CreateTables(p)
      PROVE  Provisioned!MakeTables \/ UNCHANGED Provisioned!vars
  <2>1. pc[p] # "ready" /\ UNCHANGED <<types, admin, patterns, keys, deleted>>
    BY <1>5 DEF CreateTables
  <2>2. UNCHANGED Up
    BY <1>5, <2>1, OwnStep DEF CreateTables, Fail
  <2>3. tables' = tables \/ (~tables /\ types = Types /\ tables' = TRUE)
    BY <1>5, Zenon DEF CreateTables
  <2>4. CASE tables' = tables
    BY <1>1, <2>1, <2>2, <2>4
  <2>5. CASE ~tables /\ types = Types /\ tables' = TRUE
    <3>1. Schema = "types" /\ Schema' = "tables"
      BY <2>1, <2>5 DEF Schema
    <3> QED
      BY <2>1, <2>2, <3>1, DefaultsKept DEF Provisioned!MakeTables
  <2> QED
    BY <2>3, <2>4, <2>5
<1>6. ASSUME NEW p \in Procs, CreateAdmin(p)
      PROVE  Provisioned!MakeAdmin \/ UNCHANGED Provisioned!vars
  <2>1. /\ pc[p] = "insert" /\ admin' = TRUE
        /\ UNCHANGED <<types, tables, patterns, keys, deleted>>
    BY <1>6 DEF CreateAdmin
  <2>2. UNCHANGED Up
    BY <1>6, <2>1, OwnStep DEF CreateAdmin, SeedEnds
  <2>3. Schema = "tables"
    BY <2>1 DEF Past, Schema
  <2>4. CASE admin
    BY <1>1, <2>1, <2>2, <2>4 DEF TypeOK
  <2>5. CASE ~admin
    BY <2>1, <2>2, <2>3, <2>5, SchemaKept, DefaultsKept DEF Provisioned!MakeAdmin
  <2> QED
    BY <2>4, <2>5
<1>7. ASSUME NEW p \in Procs, CommitSeed(p)
      PROVE  Provisioned!Seed \/ UNCHANGED Provisioned!vars
  <2>1. /\ pc[p] = "seed" /\ todo[p] = {}
        /\ UNCHANGED <<types, tables, admin, deleted>>
    BY <1>7 DEF CommitSeed
  <2>2. UNCHANGED Up
    BY <1>7, <2>1, OwnStep DEF CommitSeed, SeedEnds
  <2>3. Schema = "tables" /\ admin
    BY <2>1 DEF Past, Schema
  <2>4. CASE missing[p] \cap keys # {}
    BY <1>1, <1>7, <2>1, <2>2, <2>4 DEF CommitSeed
  <2>5. CASE missing[p] \cap keys = {}
    <3> DEFINE spared == {n \in Patterns : patterns'[n] = 0}
    <3>1. keys' = Keys
      BY <1>7, <2>1, <2>5 DEF CommitSeed, Looked, TypeOK
    <3>2. ASSUME NEW n \in Patterns
          PROVE  /\ patterns'[n] > 0 <=> n \notin spared
                 /\ patterns[n] > 0 => n \notin spared
                 /\ n \in spared => n \in deleted
      BY <1>7, <2>1, <2>5 DEF CommitSeed, Looked, TypeOK
    <3>3. Defaults' = Defaults \cup Keys \cup (Patterns \ spared)
      <4>1. {n \in Patterns : patterns'[n] > 0} = Patterns \ spared
        BY <3>2
      <4>2. {n \in Patterns : patterns[n] > 0} \subseteq Patterns \ spared
        BY <3>2
      <4> QED
        BY <3>1, <4>1, <4>2 DEF Defaults, TypeOK
    <3>4. spared \in SUBSET deleted
      BY <3>2
    <3> HIDE DEF spared
    <3>5. Defaults' = Defaults \cup ((Patterns \cup Keys) \ spared)
      <4>1. Keys \cap spared = {}
        BY <3>4, ItemsAssumption DEF TypeOK
      <4> QED
        BY <3>3, <4>1
    <3> QED
      BY <2>1, <2>2, <2>3, <3>4, <3>5, SchemaKept DEF Provisioned!Seed
  <2> QED
    BY <2>4, <2>5
<1>8. ASSUME NEW p \in Procs, Schedule(p)
      PROVE  Provisioned!Serve(p) \/ UNCHANGED Provisioned!vars
  <2>1. pc[p] = "schedule" /\ UNCHANGED <<types, tables, admin, patterns, keys, deleted>>
    BY <1>8 DEF Schedule, db
  <2>2. CASE Fail(p)
    BY <1>1, <2>1, <2>2, OwnStep DEF Fail
  <2>3. CASE tables /\ GoTo(p, "ready", {})
    <3>1. Schema = "tables" /\ Up' = Up \cup {p}
      BY <2>3, OwnStep DEF Schema
    <3> QED
      BY <2>1, <3>1, SchemaKept, DefaultsKept DEF Provisioned!Serve
  <2> QED
    BY <1>8, <2>2, <2>3 DEF Schedule
<1>9. ASSUME NEW p \in Procs, Stop(p)
      PROVE  Provisioned!Stop(p)
  <2>1. Up' = Up \ {p} /\ UNCHANGED <<types, tables, admin, patterns, keys, deleted>>
    BY <1>9, OwnStep DEF Stop, db
  <2> QED
    BY <2>1, SchemaKept, DefaultsKept DEF Provisioned!Stop
<1>10. Served => admin /\ Up # {}
  BY DEF Served, Up, Procs
<1>11. ASSUME NEW v \in Crons, SetCron(v)
       PROVE  Provisioned!SetCron
  <2>1. /\ UNCHANGED <<types, tables, admin, patterns, deleted, Up>>
        /\ keys' = keys \cup {Cron} /\ admin /\ Up # {}
    BY <1>10, <1>11 DEF SetCron, Up
  <2>2. Defaults' = Defaults \cup {Cron}
    BY <2>1 DEF Defaults
  <2> QED
    BY <2>1, <2>2, SchemaKept DEF Provisioned!SetCron
<1>12. ASSUME NEW n \in Patterns, DeletePattern(n)
       PROVE  Provisioned!DeletePattern(n)
  <2>1. /\ UNCHANGED <<types, tables, admin, keys, Up>> /\ deleted' = deleted \cup {n}
        /\ admin /\ Up # {}
        /\ patterns[n] > 0 /\ patterns' = [patterns EXCEPT ![n] = @ - 1]
    BY <1>10, <1>12 DEF DeletePattern, Up
  <2>2. n \in Defaults /\ Defaults' \in {Defaults, Defaults \ {n}}
    <3>1. /\ patterns[n] \in Nat \ {0} /\ patterns'[n] = patterns[n] - 1
          /\ \A m \in Patterns \ {n} : patterns'[m] = patterns[m]
      BY <2>1 DEF TypeOK
    <3>2. n \notin keys
      BY ItemsAssumption DEF TypeOK
    <3>3. CASE patterns[n] = 1
      <4>1. \A m \in Patterns : patterns'[m] > 0 <=> patterns[m] > 0 /\ m # n
        BY <3>1, <3>3
      <4> QED
        BY <2>1, <3>2, <4>1 DEF Defaults
    <3>4. CASE patterns[n] > 1
      <4>1. \A m \in Patterns : patterns'[m] > 0 <=> patterns[m] > 0
        BY <3>1, <3>4
      <4> QED
        BY <2>1, <4>1 DEF Defaults
    <3> QED
      BY <3>1, <3>3, <3>4
  <2> QED
    BY <2>1, <2>2, SchemaKept DEF Provisioned!DeletePattern
<1>13. CASE UNCHANGED vars
  BY <1>1, <1>13 DEF vars, db, Up
<1> QED
  BY <1>2, <1>3, <1>4, <1>5, <1>6, <1>7, <1>8, <1>9, <1>11, <1>12, <1>13
  DEF Next, Step, Items, Provisioned!Next

\* Starting processes, however many, provision the database in the order and
\* with the completeness that Provisioning states.
THEOREM Refinement == Spec => RefinesProvisioning
<1>1. Init => Provisioned!Init
  <2> SUFFICES ASSUME Init PROVE Provisioned!Init
    OBVIOUS
  <2>1. Defaults = {} /\ Up = {} /\ Schema \in {"empty", "types", "tables"}
    BY DEF Init, Defaults, Up, Schema
  <2> QED
    BY <2>1 DEF Init, Provisioned!Init
<1> QED
  BY <1>1, RefinementStep, Invariance, PTL DEF Spec, RefinesProvisioning, Provisioned!Spec
=============================================================================
