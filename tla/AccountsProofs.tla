--------------------------- MODULE AccountsProofs ---------------------------
(* Theorems of Accounts, for any names and any number of sessions. *)
EXTENDS Accounts, FiniteSetTheorems, TLAPS

-----------------------------------------------------------------------------
(* The inductive invariant *)

Requests == [pc : Pcs, by : Names \cup {None}, target : Names \cup {None},
             seen : Rows \cup {NoRow}, role : Roles \cup {None}, crossed : BOOLEAN]

\* What the steps that a session has behind it tell of its fields, and of the
\* table: accounts are never deleted, so what was read exists.
Fit(q) ==
  /\ q.pc \in {"issue", "ldap", "upsert", "update", "create", "reset"} => q.target \in Names
  /\ q.pc \in {"ldap", "upsert"} => q.role \in Roles /\ q.by = None
  /\ q.pc \in {"ldap", "upsert", "reset"} /\ q.seen # NoRow => users[q.target] # NoRow
  /\ q.pc = "update" => users[q.target] # NoRow
  /\ q.pc = "issue" => q.seen \in Rows

Fitting == \A t \in Sessions : Fit(req[t])

\* Whoever a request acts for is an administrator still, if no revocation has
\* overlapped it.
Acting(q) == q.by # None => q.crossed \/ Admin(q.by)
ActForAdmin == \A t \in Sessions : Acting(req[t])

IInv == TypeOK /\ Fitting /\ ActForAdmin /\ LateBounded /\ AdminLeft /\ LocalHavePassword

\* No row of the table is the absence of one.
LEMMA RowsExist == NoRow \notin Rows
  BY RolesAssumption DEF NoRow, Rows

\* The requests in flight of one user are no more than all sessions.
LEMMA Counts ==
  ASSUME NEW n
  PROVE  /\ IsFiniteSet(InFlight(n)) /\ Cardinality(InFlight(n)) \in Nat
         /\ Cardinality(Sessions) \in Nat
         /\ Cardinality(InFlight(n)) <= Cardinality(Sessions)
<1>1. InFlight(n) \subseteq Sessions
  BY DEF InFlight
<1> QED
  BY <1>1, SessionsAssumption, FS_Subset, FS_CardinalityType

\* The seed's administrator is there, and no session.
LEMMA InitIInv == Init => IInv
<1> SUFFICES ASSUME Init PROVE IInv
  OBVIOUS
<1>1. users[Root] = [role |-> "admin", active |-> TRUE, ldap |-> FALSE, password |-> TRUE]
  BY RootAssumption DEF Init
<1>2. users \in [Names -> Rows \cup {NoRow}]
  BY RolesAssumption DEF Init, Rows
<1>3. Idle \in Requests
  BY DEF Idle, Requests, Pcs
<1>4. TypeOK
  BY <1>2, <1>3 DEF Init, TypeOK, Requests
<1>5. Fitting /\ ActForAdmin
  BY DEF Init, Fitting, Fit, ActForAdmin, Acting, Idle
<1>6. LateBounded
  <2> SUFFICES ASSUME NEW n \in Names
               PROVE  late[n] = 0 /\ late[n] + Cardinality(InFlight(n)) <= Cardinality(Sessions)
    BY DEF LateBounded
  <2>1. late[n] = 0
    BY DEF Init
  <2> QED
    BY <2>1, Counts
<1>7. AdminLeft
  BY <1>1, RootAssumption DEF AdminLeft, Admin, IsAdmin
<1>8. LocalHavePassword
  BY <1>1 DEF Init, LocalHavePassword
<1> QED
  BY <1>4, <1>5, <1>6, <1>7, <1>8 DEF IInv
-----------------------------------------------------------------------------
(* A step that writes no account *)

\* It keeps the invariant if what the session goes on with is in order.
LEMMA BecomeIInv ==
  ASSUME IInv, NEW t \in Sessions, NEW next \in Requests, Become(t, next),
         tokens' \subseteq [user : Names, role : Roles],
         Fit(next), Acting(next),
         next.by # req[t].by => next.by = None \/ Admin(next.by)
  PROVE  IInv'
<1>1. /\ req' = [req EXCEPT ![t] = next] /\ users' = users /\ late' = late
      /\ explained' = explained
  BY DEF Become
<1>2. req \in [Sessions -> Requests]
  BY DEF IInv, TypeOK, Requests
<1>3. req'[t] = next /\ \A s \in Sessions \ {t} : req'[s] = req[s]
  BY <1>1, <1>2
<1>4. TypeOK'
  <2>1. req' \in [Sessions -> Requests]
    BY <1>1, <1>2
  <2> QED
    BY <1>1, <2>1 DEF IInv, TypeOK, Requests
<1>5. Fitting'
  <2> SUFFICES ASSUME NEW s \in Sessions PROVE Fit(req[s])'
    BY DEF Fitting
  <2>1. CASE s = t
    BY <1>1, <1>3, <2>1 DEF Fit
  <2>2. CASE s # t
    BY <1>1, <1>3, <2>2 DEF Fit, Fitting, IInv
  <2> QED
    BY <2>1, <2>2
<1>6. ActForAdmin'
  <2> SUFFICES ASSUME NEW s \in Sessions PROVE Acting(req[s])'
    BY DEF ActForAdmin
  <2>1. CASE s = t
    BY <1>1, <1>3, <2>1 DEF Acting, Admin
  <2>2. CASE s # t
    BY <1>1, <1>3, <2>2 DEF Acting, Admin, ActForAdmin, IInv
  <2> QED
    BY <2>1, <2>2
<1>7. LateBounded'
  <2> SUFFICES ASSUME NEW n \in Names
               PROVE  /\ Admin(n) => late[n] = 0
                      /\ ~Admin(n) => late[n] + Cardinality(InFlight(n)') <= Cardinality(Sessions)
    BY <1>1 DEF LateBounded, Admin
  <2>1. /\ late[n] \in Nat
        /\ Admin(n) => late[n] = 0
        /\ ~Admin(n) => late[n] + Cardinality(InFlight(n)) <= Cardinality(Sessions)
    BY DEF IInv, LateBounded, TypeOK
  <2>2. CASE ~Admin(n)
    <3>1. InFlight(n)' \subseteq InFlight(n)
      <4>1. next.by = n => req[t].by = n
        BY <2>2, NoneAssumption
      <4> QED
        BY <1>3, <4>1 DEF InFlight
    <3>2. Cardinality(InFlight(n)') <= Cardinality(InFlight(n)) /\ Cardinality(InFlight(n)') \in Nat
      BY <3>1, Counts, FS_Subset, FS_CardinalityType
    <3> QED
      BY <2>1, <2>2, <3>2, Counts
  <2> QED
    BY <2>1, <2>2
<1>8. AdminLeft' /\ LocalHavePassword'
  BY <1>1 DEF IInv, AdminLeft, Admin, LocalHavePassword
<1> QED
  BY <1>4, <1>5, <1>6, <1>7, <1>8 DEF IInv
-----------------------------------------------------------------------------
(* A step that writes one *)

\* It keeps the invariant if the row is one of an account, with a password or
\* the directory's, and the session goes on for nobody.
LEMMA StoreIInv ==
  ASSUME IInv, NEW t \in Sessions, NEW row \in Rows, NEW next \in Requests,
         Store(t, row, next),
         tokens' \subseteq [user : Names, role : Roles],
         req[t].target \in Names,
         row.ldap \/ row.password,
         next.by = None,
         next.pc \in {"idle", "issue", "print"},
         next.pc = "issue" => next.target \in Names /\ next.seen \in Rows
  PROVE  IInv'
<1> DEFINE n  == req[t].target
           by == req[t].by
           revokes == Admin(n) /\ ~IsAdmin(row)
<1>1. /\ users' = [users EXCEPT ![n] = row]
      /\ req' = [s \in Sessions |->
           IF s = t THEN next
           ELSE [req[s] EXCEPT !.crossed = @ \/ (revokes /\ req[s].by # None)]]
      /\ late' = [m \in Names |->
           IF m = n /\ IsAdmin(row) THEN 0
           ELSE IF m = by /\ ~Admin(m) THEN late[m] + 1 ELSE late[m]]
      /\ explained' = (explained \/ (revokes /\ (by \in {None, n} \/ req[t].crossed)))
  BY DEF Store
<1>2. req \in [Sessions -> Requests] /\ users \in [Names -> Rows \cup {NoRow}]
  BY DEF IInv, TypeOK, Requests
<1>3. users'[n] = row /\ \A m \in Names \ {n} : users'[m] = users[m]
  BY <1>1, <1>2
<1>4. req'[t] = next
  BY <1>1
<1>5. ASSUME NEW s \in Sessions, s # t
      PROVE  /\ req'[s] \in Requests
             /\ req'[s].pc = req[s].pc /\ req'[s].by = req[s].by
             /\ req'[s].target = req[s].target /\ req'[s].seen = req[s].seen
             /\ req'[s].role = req[s].role
             /\ req[s].crossed \/ (revokes /\ req[s].by # None) => req'[s].crossed
  <2> DEFINE c == req[s].crossed \/ (revokes /\ req[s].by # None)
  <2>1. req'[s] = [req[s] EXCEPT !.crossed = c]
    BY <1>1, <1>5
  <2>2. req[s] \in Requests /\ c \in BOOLEAN
    BY <1>2
  <2> HIDE DEF c
  <2>3. /\ req'[s] \in Requests
        /\ req'[s].pc = req[s].pc /\ req'[s].by = req[s].by
        /\ req'[s].target = req[s].target /\ req'[s].seen = req[s].seen
        /\ req'[s].role = req[s].role
    BY <2>1, <2>2 DEF Requests
  <2>4. c => req'[s].crossed
    BY <2>1, <2>2 DEF Requests
  <2> QED
    BY <2>3, <2>4 DEF c
<1>6. \A m \in Names : Admin(m)' <=> IF m = n THEN IsAdmin(row) ELSE Admin(m)
  BY <1>3 DEF Admin
<1> HIDE DEF n, by, revokes
<1>7. n \in Names /\ by \in Names \cup {None}
  BY <1>2 DEF n, by, Requests
<1>8. TypeOK'
  <2>1. req' \in [Sessions -> Requests]
    BY <1>1, <1>4, <1>5
  <2>2. users' \in [Names -> Rows \cup {NoRow}]
    BY <1>1, <1>2
  <2>3. late' \in [Names -> Nat]
    BY <1>1 DEF IInv, TypeOK
  <2>4. explained' \in BOOLEAN
    BY <1>1
  <2> QED
    BY <2>1, <2>2, <2>3, <2>4 DEF TypeOK, Requests
<1>9. Fitting'
  <2> SUFFICES ASSUME NEW s \in Sessions PROVE Fit(req[s])'
    BY DEF Fitting
  <2>1. CASE s = t
    BY <1>4, <2>1 DEF Fit
  <2>2. CASE s # t
    <3>1. Fit(req[s])
      BY DEF IInv, Fitting
    <3>2. \A m \in Names : users[m] # NoRow => users'[m] # NoRow
      BY <1>3, RowsExist
    <3>3. req'[s].pc \in {"ldap", "upsert", "update", "reset"} => req[s].target \in Names
      BY <1>5, <2>2, <3>1 DEF Fit
    <3> QED
      BY <1>5, <2>2, <3>1, <3>2, <3>3 DEF Fit
  <2> QED
    BY <2>1, <2>2
<1>10. ActForAdmin'
  <2> SUFFICES ASSUME NEW s \in Sessions PROVE Acting(req[s])'
    BY DEF ActForAdmin
  <2>1. CASE s = t
    BY <1>4, <2>1 DEF Acting
  <2>2. CASE s # t
    <3>1. Acting(req[s])
      BY DEF IInv, ActForAdmin
    <3> SUFFICES ASSUME NEW m \in Names, m = req[s].by, ~req'[s].crossed PROVE Admin(m)'
      BY <1>2, <1>5, <2>2 DEF Acting, Admin, Requests
    <3>2. ~revokes /\ Admin(m)
      BY <1>5, <2>2, <3>1, NoneAssumption DEF Acting
    <3> QED
      BY <1>6, <3>2 DEF revokes
  <2> QED
    BY <2>1, <2>2
<1>11. LateBounded'
  <2> SUFFICES ASSUME NEW m \in Names
               PROVE  /\ Admin(m)' => late'[m] = 0
                      /\ ~Admin(m)' => late'[m] + Cardinality(InFlight(m)') <= Cardinality(Sessions)
    BY DEF LateBounded
  <2>1. /\ late[m] \in Nat
        /\ Admin(m) => late[m] = 0
        /\ ~Admin(m) => late[m] + Cardinality(InFlight(m)) <= Cardinality(Sessions)
    BY DEF IInv, LateBounded, TypeOK
  <2>2. late'[m] = IF m = n /\ IsAdmin(row) THEN 0
                   ELSE IF m = by /\ ~Admin(m) THEN late[m] + 1 ELSE late[m]
    BY <1>1
  <2>3. InFlight(m)' = InFlight(m) \ {t} /\ (t \in InFlight(m) <=> m = by)
    <3>1. next.by # m
      BY NoneAssumption
    <3> QED
      BY <1>4, <1>5, <3>1 DEF InFlight, by
  <2>4. Cardinality(InFlight(m)') =
          IF m = by THEN Cardinality(InFlight(m)) - 1 ELSE Cardinality(InFlight(m))
    <3>1. Cardinality(InFlight(m) \ {t}) =
            IF m = by THEN Cardinality(InFlight(m)) - 1 ELSE Cardinality(InFlight(m))
      BY <2>3, Counts, FS_RemoveElement
    <3> QED
      BY <2>3, <3>1
  <2>5. /\ Cardinality(InFlight(m)) \in Nat /\ Cardinality(Sessions) \in Nat
        /\ Cardinality(InFlight(m)) <= Cardinality(Sessions)
    BY Counts
  <2>6. CASE Admin(m)'
    <3>1. CASE m = n
      BY <1>6, <2>2, <2>6, <3>1
    <3>2. CASE m # n
      BY <1>6, <2>1, <2>2, <2>6, <3>2
    <3> QED
      BY <2>6, <3>1, <3>2
  <2>7. CASE ~Admin(m)'
    <3>1. ~(m = n /\ IsAdmin(row))
      BY <1>6, <2>7
    <3>2. late'[m] = IF m = by /\ ~Admin(m) THEN late[m] + 1 ELSE late[m]
      BY <2>2, <3>1
    <3>3. CASE Admin(m)
      <4>1. late'[m] = 0
        BY <2>1, <3>2, <3>3
      <4> QED
        BY <2>4, <2>5, <2>7, <4>1
    <3>4. CASE ~Admin(m)
      <4>1. late'[m] = IF m = by THEN late[m] + 1 ELSE late[m]
        BY <3>2, <3>4
      <4>2. late[m] + Cardinality(InFlight(m)) <= Cardinality(Sessions)
        BY <2>1, <3>4
      <4> QED
        BY <2>1, <2>4, <2>5, <2>7, <4>1, <4>2
    <3> QED
      BY <3>3, <3>4
  <2> QED
    BY <2>6, <2>7
<1>12. AdminLeft'
  <2> SUFFICES ASSUME ~explained' PROVE \E m \in Names : Admin(m)'
    BY DEF AdminLeft
  <2>1. ~explained /\ (revokes => by \notin {None, n} /\ ~req[t].crossed)
    BY <1>1
  <2>2. CASE revokes
    <3>1. by \in Names /\ by # n /\ Admin(by)
      BY <1>7, <2>1, <2>2 DEF IInv, ActForAdmin, Acting, by
    <3> QED
      BY <1>6, <3>1
  <2>3. CASE ~revokes
    <3>1. PICK m \in Names : Admin(m)
      BY <2>1 DEF IInv, AdminLeft
    <3> QED
      BY <1>6, <2>3, <3>1 DEF revokes
  <2> QED
    BY <2>2, <2>3
<1>13. LocalHavePassword'
  <2> SUFFICES ASSUME NEW m \in Names, users'[m] # NoRow, ~users'[m].ldap
               PROVE  users'[m].password
    BY DEF LocalHavePassword
  <2>1. CASE m = n
    <3>1. users'[m] = row
      BY <1>3, <2>1
    <3> QED
      BY <3>1
  <2>2. CASE m # n
    BY <1>3, <2>2 DEF IInv, LocalHavePassword
  <2> QED
    BY <2>1, <2>2
<1> QED
  BY <1>8, <1>9, <1>10, <1>11, <1>12, <1>13 DEF IInv
-----------------------------------------------------------------------------
(* Every step *)

\* Whatever a session does, its fields stay in order.
LEMMA StepIInv == IInv /\ [Next]_vars => IInv'
<1> SUFFICES ASSUME IInv, [Next]_vars PROVE IInv'
  OBVIOUS
<1>1. /\ req \in [Sessions -> Requests] /\ users \in [Names -> Rows \cup {NoRow}]
      /\ tokens \subseteq [user : Names, role : Roles]
  BY DEF IInv, TypeOK, Requests
<1>2. \A t \in Sessions : /\ Fit(req[t]) /\ Acting(req[t])
                          /\ req[t] \in Requests
  BY <1>1 DEF IInv, Fitting, ActForAdmin
<1>3. Idle \in Requests /\ Fit(Idle) /\ Acting(Idle) /\ Idle.by = None
  BY DEF Idle, Requests, Pcs, Fit, Acting
<1>4. ASSUME NEW t \in Sessions, Drop(t) PROVE IInv'
  <2>1. Become(t, Idle) /\ tokens' \subseteq [user : Names, role : Roles]
    BY <1>1, <1>4 DEF Drop
  <2> QED
    BY <1>3, <2>1, BecomeIInv
<1>5. ASSUME NEW t \in Sessions, LdapLoad(t) PROVE IInv'
  <2> DEFINE read == IF req[t].seen = NoRow THEN users[req[t].target] ELSE req[t].seen
             next == [req[t] EXCEPT !.pc = "upsert", !.seen = read]
  <2>1. req[t].pc = "ldap" /\ Become(t, next) /\ tokens' = tokens
    BY <1>5 DEF LdapLoad
  <2>2. /\ req[t].target \in Names /\ req[t].role \in Roles /\ req[t].by = None
        /\ req[t].seen # NoRow => users[req[t].target] # NoRow
    BY <1>2, <2>1 DEF Fit
  <2>3. read \in Rows \cup {NoRow} /\ (read # NoRow => users[req[t].target] # NoRow)
    BY <1>1, <1>2, <2>2 DEF Requests
  <2> HIDE DEF read
  <2>4. next \in Requests
    BY <1>2, <2>3 DEF Requests, Pcs
  <2>5. /\ next.pc = "upsert" /\ next.seen = read /\ next.target = req[t].target
        /\ next.role = req[t].role /\ next.by = req[t].by
    BY <1>2 DEF Requests
  <2> HIDE DEF next
  <2>6. Fit(next) /\ Acting(next)
    BY <2>2, <2>3, <2>5 DEF Fit, Acting
  <2> QED
    BY <1>1, <2>1, <2>4, <2>5, <2>6, BecomeIInv
<1>6. ASSUME NEW t \in Sessions, LdapUpsert(t) PROVE IInv'
  <2> DEFINE n    == req[t].target
             role == Changed(req[t].role, req[t].seen.role, users[n].role)
             row  == IF req[t].seen = NoRow
                     THEN [role |-> req[t].role, active |-> TRUE, ldap |-> TRUE, password |-> FALSE]
                     ELSE [users[n] EXCEPT !.role = role]
             next == [req[t] EXCEPT !.pc = "issue", !.seen = row]
  <2>1. /\ req[t].pc = "upsert" /\ tokens' = tokens
        /\ Become(t, Idle) \/ Store(t, row, next)
    BY <1>6 DEF LdapUpsert, Changed
  <2>2. /\ n \in Names /\ req[t].role \in Roles /\ req[t].by = None
        /\ req[t].seen # NoRow => users[n] # NoRow
    BY <1>2, <2>1 DEF Fit
  <2>3. row \in Rows /\ (row.ldap \/ row.password)
    <3>1. CASE req[t].seen = NoRow
      <4>1. row = [role |-> req[t].role, active |-> TRUE, ldap |-> TRUE, password |-> FALSE]
        BY <3>1
      <4> QED
        BY <2>2, <4>1 DEF Rows
    <3>2. CASE req[t].seen # NoRow
      <4>1. users[n] \in Rows /\ (users[n].ldap \/ users[n].password)
        BY <1>1, <2>2, <3>2 DEF IInv, LocalHavePassword
      <4>2. role \in Roles
        BY <2>2, <4>1 DEF Changed, Rows
      <4>3. row = [users[n] EXCEPT !.role = role]
        BY <3>2
      <4> HIDE DEF role, row
      <4>4. row \in Rows /\ row.ldap = users[n].ldap /\ row.password = users[n].password
        BY <4>1, <4>2, <4>3 DEF Rows
      <4> QED
        BY <4>1, <4>4
    <3> QED
      BY <3>1, <3>2
  <2> HIDE DEF row
  <2>4. /\ next \in Requests /\ next.by = None /\ next.pc = "issue"
        /\ next.target = n /\ next.seen = row
    BY <1>2, <2>2, <2>3 DEF Requests, Pcs
  <2> HIDE DEF next
  <2>5. CASE Become(t, Idle)
    BY <1>1, <1>3, <2>1, <2>5, BecomeIInv
  <2>6. CASE Store(t, row, next)
    BY <1>1, <2>1, <2>2, <2>3, <2>4, <2>6, StoreIInv
  <2> QED
    BY <2>1, <2>5, <2>6
<1>7. ASSUME NEW t \in Sessions, Issue(t) PROVE IInv'
  <2>1. /\ req[t].pc = "issue" /\ Become(t, Idle)
        /\ tokens' = tokens \cup {[user |-> req[t].target, role |-> req[t].seen.role]}
    BY <1>7 DEF Issue
  <2>2. req[t].target \in Names /\ req[t].seen.role \in Roles
    BY <1>2, <2>1 DEF Fit, Rows
  <2>3. tokens' \subseteq [user : Names, role : Roles]
    BY <1>1, <2>1, <2>2
  <2> QED
    BY <1>3, <2>1, <2>3, BecomeIInv
<1>8. ASSUME NEW t \in Sessions, ResetCommit(t) PROVE IInv'
  <2> DEFINE n   == req[t].target
             active == Changed(TRUE, req[t].seen.active, users[n].active)
             row == IF req[t].seen = NoRow
                    THEN [role |-> "admin", active |-> TRUE, ldap |-> FALSE, password |-> TRUE]
                    ELSE [users[n] EXCEPT !.password = TRUE, !.active = active]
             next == [Idle EXCEPT !.pc = "print", !.target = n, !.seen = row]
  <2>1. req[t].pc = "reset" /\ tokens' = tokens /\ Store(t, row, next)
    BY <1>8 DEF ResetCommit, Changed
  <2>2. n \in Names /\ (req[t].seen # NoRow => users[n] # NoRow)
    BY <1>2, <2>1 DEF Fit
  <2>3. row \in Rows /\ row.password = TRUE
    <3>1. CASE req[t].seen = NoRow
      <4>1. row = [role |-> "admin", active |-> TRUE, ldap |-> FALSE, password |-> TRUE]
        BY <3>1
      <4> QED
        BY <4>1, RolesAssumption DEF Rows
    <3>2. CASE req[t].seen # NoRow
      <4>1. users[n] \in Rows
        BY <1>1, <2>2, <3>2
      <4>2. active \in BOOLEAN
        BY <4>1 DEF Changed, Rows
      <4>3. row = [users[n] EXCEPT !.password = TRUE, !.active = active]
        BY <3>2
      <4> HIDE DEF active, row
      <4> QED
        BY <4>1, <4>2, <4>3 DEF Rows
    <3> QED
      BY <3>1, <3>2
  <2> HIDE DEF row
  <2>4. next \in Requests /\ next.by = None /\ next.pc = "print"
    BY <2>2, <2>3 DEF Idle, Requests, Pcs
  <2> HIDE DEF next
  <2> QED
    BY <1>1, <2>1, <2>2, <2>3, <2>4, StoreIInv
<1>9. ASSUME NEW t \in Sessions, NEW n \in Names, LoginLocal(t, n) PROVE IInv'
  <2> DEFINE next == [Idle EXCEPT !.pc = "issue", !.target = n, !.seen = users[n]]
  <2>1. users[n].active /\ Become(t, next) /\ tokens' = tokens
    BY <1>9 DEF LoginLocal
  <2>2. users[n] \in Rows
    BY <1>1, <2>1 DEF NoRow
  <2>3. /\ next \in Requests /\ next.pc = "issue" /\ next.by = None /\ next.target = n
        /\ next.seen = users[n] /\ next.role = None
    BY <2>2 DEF Idle, Requests, Pcs
  <2> HIDE DEF next
  <2>4. Fit(next) /\ Acting(next)
    BY <2>2, <2>3 DEF Fit, Acting
  <2> QED
    BY <1>1, <2>1, <2>3, <2>4, BecomeIInv
<1>10. ASSUME NEW t \in Sessions, NEW n \in Names, NEW r \in Roles, LoginLdap(t, n, r) PROVE IInv'
  <2> DEFINE read == IF users[n].active THEN users[n] ELSE NoRow
             next == [Idle EXCEPT !.pc = "ldap", !.target = n, !.role = r, !.seen = read]
  <2>1. Become(t, next) /\ tokens' = tokens
    BY <1>10 DEF LoginLdap
  <2>2. read \in Rows \cup {NoRow} /\ (read # NoRow => users[n] # NoRow)
    BY <1>1
  <2> HIDE DEF read
  <2>3. /\ next \in Requests /\ next.pc = "ldap" /\ next.by = None /\ next.target = n
        /\ next.seen = read /\ next.role = r
    BY <2>2 DEF Idle, Requests, Pcs
  <2> HIDE DEF next
  <2>4. Fit(next) /\ Acting(next)
    BY <2>2, <2>3 DEF Fit, Acting
  <2> QED
    BY <1>1, <2>1, <2>3, <2>4, BecomeIInv
<1>11. ASSUME NEW t \in Sessions, NEW n \in Names, LoadUser(t, n) PROVE IInv'
  <2> DEFINE read == IF n = req[t].by THEN req[t].seen ELSE users[n]
             next == [req[t] EXCEPT !.pc = "update", !.target = n, !.seen = read]
  <2>1. users[n] # NoRow /\ Become(t, next) /\ tokens' = tokens
    BY <1>11 DEF LoadUser
  <2>2. read \in Rows \cup {NoRow}
    BY <1>1, <1>2 DEF Requests
  <2> HIDE DEF read
  <2>3. /\ next \in Requests /\ next.pc = "update" /\ next.target = n
        /\ next.by = req[t].by /\ next.crossed = req[t].crossed
    BY <1>2, <2>2 DEF Requests, Pcs
  <2> HIDE DEF next
  <2>4. Fit(next)
    BY <2>1, <2>3 DEF Fit
  <2>5. Acting(next)
    BY <1>2, <2>3, Zenon DEF Acting
  <2> QED
    BY <1>1, <2>1, <2>3, <2>4, <2>5, BecomeIInv
<1>12. ASSUME NEW t \in Sessions, NEW n \in Names, CheckName(t, n) PROVE IInv'
  <2> DEFINE next == [req[t] EXCEPT !.pc = "create", !.target = n]
  <2>1. Become(t, next) /\ tokens' = tokens
    BY <1>12 DEF CheckName
  <2>2. /\ next \in Requests /\ next.pc = "create" /\ next.target = n
        /\ next.by = req[t].by /\ next.crossed = req[t].crossed
    BY <1>2 DEF Requests, Pcs
  <2> HIDE DEF next
  <2>3. Fit(next)
    BY <2>2 DEF Fit
  <2>4. Acting(next)
    BY <1>2, <2>2, Zenon DEF Acting
  <2> QED
    BY <1>1, <2>1, <2>2, <2>3, <2>4, BecomeIInv
<1>13. ASSUME NEW t \in Sessions, NEW n \in Names, ResetLoad(t, n) PROVE IInv'
  <2> DEFINE next == [Idle EXCEPT !.pc = "reset", !.target = n, !.seen = users[n]]
  <2>1. Become(t, next) /\ tokens' = tokens
    BY <1>13 DEF ResetLoad
  <2>2. users[n] \in Rows \cup {NoRow}
    BY <1>1
  <2>3. /\ next \in Requests /\ next.pc = "reset" /\ next.by = None /\ next.target = n
        /\ next.seen = users[n] /\ next.role = None
    BY <2>2 DEF Idle, Requests, Pcs
  <2> HIDE DEF next
  <2>4. Fit(next) /\ Acting(next)
    BY <2>2, <2>3 DEF Fit, Acting
  <2> QED
    BY <1>1, <2>1, <2>3, <2>4, BecomeIInv
<1>14. ASSUME NEW t \in Sessions, NEW k \in tokens, Authenticate(t, k) PROVE IInv'
  <2> DEFINE next == [Idle EXCEPT !.pc = "admin", !.by = k.user, !.seen = users[k.user]]
  <2>1. Admin(k.user) /\ Become(t, next) /\ tokens' = tokens
    BY <1>14 DEF Authenticate
  <2>2. k.user \in Names /\ users[k.user] \in Rows \cup {NoRow}
    BY <1>1
  <2>3. /\ next \in Requests /\ next.pc = "admin" /\ next.by = k.user /\ next.target = None
        /\ next.seen = users[k.user] /\ next.role = None
    BY <2>2 DEF Idle, Requests, Pcs
  <2> HIDE DEF next
  <2>4. Fit(next) /\ Acting(next)
    BY <2>1, <2>3 DEF Fit, Acting
  <2> QED
    BY <1>1, <2>1, <2>3, <2>4, BecomeIInv
<1>15. ASSUME NEW t \in Sessions, NEW r \in Roles, CreateUser(t, r) PROVE IInv'
  <2> DEFINE row == [role |-> r, active |-> TRUE, ldap |-> FALSE, password |-> TRUE]
  <2>1. req[t].pc = "create" /\ Store(t, row, Idle) /\ tokens' = tokens
    BY <1>15 DEF CreateUser
  <2>2. req[t].target \in Names /\ row \in Rows /\ row.password /\ Idle.pc = "idle"
    BY <1>2, <2>1 DEF Fit, Rows, Idle
  <2> HIDE DEF row
  <2> QED
    BY <1>1, <1>3, <2>1, <2>2, StoreIInv
<1>16. ASSUME NEW t \in Sessions, NEW r \in Roles \cup {None}, NEW a \in BOOLEAN \cup {None},
              UpdateUser(t, r, a)
       PROVE  IInv'
  <2> DEFINE n      == req[t].target
             role   == Changed(r, req[t].seen.role, users[n].role)
             active == Changed(a, req[t].seen.active, users[n].active)
             row    == [users[n] EXCEPT !.role = role, !.active = active]
  <2>1. req[t].pc = "update" /\ Store(t, row, Idle) /\ tokens' = tokens
    BY <1>16 DEF UpdateUser, Changed
  <2>2. n \in Names /\ users[n] # NoRow /\ Idle.pc = "idle"
    BY <1>2, <2>1 DEF Fit, Idle
  <2>3. users[n] \in Rows /\ (users[n].ldap \/ users[n].password)
    BY <1>1, <2>2 DEF IInv, LocalHavePassword
  <2>4. role \in Roles
    BY <2>3 DEF Changed, Rows
  <2>5. active \in BOOLEAN
    BY <2>3 DEF Changed, Rows
  <2> HIDE DEF role, active
  <2>6. row \in Rows /\ row.ldap = users[n].ldap /\ row.password = users[n].password
    BY <2>3, <2>4, <2>5 DEF Rows
  <2> HIDE DEF row
  <2>7. row.ldap \/ row.password
    BY <2>3, <2>6
  <2> QED
    BY <1>1, <1>3, <2>1, <2>2, <2>6, <2>7, StoreIInv
<1>17. ASSUME NEW k \in tokens, Expire(k) PROVE IInv'
  <2>1. tokens' \subseteq [user : Names, role : Roles] /\ UNCHANGED <<users, req, late, explained>>
    BY <1>1, <1>17 DEF Expire
  <2> QED
    BY <2>1 DEF IInv, TypeOK, Fitting, Fit, ActForAdmin, Acting, Admin, LateBounded, InFlight,
                AdminLeft, LocalHavePassword
<1>18. CASE UNCHANGED vars
  BY <1>18 DEF vars, IInv, TypeOK, Fitting, Fit, ActForAdmin, Acting, Admin, LateBounded, InFlight,
               AdminLeft, LocalHavePassword
<1> QED
  BY <1>4, <1>5, <1>6, <1>7, <1>8, <1>9, <1>10, <1>11, <1>12, <1>13, <1>14, <1>15, <1>16, <1>17,
     <1>18 DEF Next, Step
-----------------------------------------------------------------------------
(* Theorems *)

\* Accounts, tokens and the sessions that read and write them.
THEOREM Invariance == Spec => []IInv
  BY InitIInv, StepIInv, PTL DEF Spec

\* Rows, tokens and sessions keep their types.
THEOREM TypeCorrect == Spec => []TypeOK
<1>1. IInv => TypeOK
  BY DEF IInv
<1> QED
  BY <1>1, Invariance, PTL

\* Who is revoked gets no more through than the requests in flight.
THEOREM RevokedStop == Spec => []LateBounded
<1>1. IInv => LateBounded
  BY DEF IInv
<1> QED
  BY <1>1, Invariance, PTL

\* Administrators who take turns keep one of them.
THEOREM AdministratorsStay == Spec => []AdminLeft
<1>1. IInv => AdminLeft
  BY DEF IInv
<1> QED
  BY <1>1, Invariance, PTL

\* No local account is without a password.
THEOREM PasswordsSet == Spec => []LocalHavePassword
<1>1. IInv => LocalHavePassword
  BY DEF IInv
<1> QED
  BY <1>1, Invariance, PTL
=============================================================================
