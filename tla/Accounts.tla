------------------------------ MODULE Accounts ------------------------------
(* The accounts: login with a password or over the directory (LDAP), the      *)
(* administration of users, tokens, and the script that resets an             *)
(* administrator.  Every database session reads before it writes, and writes  *)
(* the columns whose value differs from what it read; sessions interleave.    *)
EXTENDS Naturals, FiniteSets

CONSTANTS Names,        \* usernames (unique in the table, never changed)
          Roles,        \* the roles in use, "admin" among them
          Sessions,     \* database sessions: request threads and the script
          Root,         \* ADMIN_USERNAME
          LdapEnabled,
          None

ASSUME RolesAssumption == "admin" \in Roles /\ Roles \subseteq {"admin", "operator", "viewer"}
ASSUME RootAssumption == Root \in Names
ASSUME NoneAssumption == None \notin Names \cup Roles /\ None \notin BOOLEAN
ASSUME SessionsAssumption == IsFiniteSet(Sessions)

VARIABLES users,        \* table users, by username
          tokens,       \* tokens issued and not expired, with the role they name
          req,          \* what each session does and has read
          late,         \* writes of each user since it is no administrator (ghost)
          explained     \* an administrator revoked himself, was revoked by a
                        \* request overlapping another, or by the directory (ghost)

vars == <<users, tokens, req, late, explained>>

NoRow == [role |-> "none", active |-> FALSE, ldap |-> FALSE, password |-> FALSE]
Rows  == [role : Roles, active : BOOLEAN, ldap : BOOLEAN, password : BOOLEAN]

Idle == [pc |-> "idle", by |-> None, target |-> None, seen |-> NoRow,
         role |-> None, crossed |-> FALSE]

IsAdmin(row) == row.active /\ row.role = "admin"
Admin(n)     == IsAdmin(users[n])

\* The seed's administrator, and nobody else.
Init ==
  /\ users = [n \in Names |->
        IF n = Root THEN [role |-> "admin", active |-> TRUE, ldap |-> FALSE, password |-> TRUE]
                    ELSE NoRow]
  /\ tokens = {}
  /\ req = [t \in Sessions |-> Idle]
  /\ late = [n \in Names |-> 0]
  /\ explained = FALSE
-----------------------------------------------------------------------------
\* A column that a session set to a value other than the one it read.
Changed(new, read, now) == IF new \in {None, read} THEN now ELSE new

\* Session t commits a row, on behalf of an administrator or of nobody, and
\* goes on.
Store(t, row, next) ==
  LET n == req[t].target
      by == req[t].by
      revokes == Admin(n) /\ ~IsAdmin(row)
  IN /\ users' = [users EXCEPT ![n] = row]
     /\ req' = [s \in Sessions |->
           IF s = t THEN next
           ELSE [req[s] EXCEPT !.crossed = @ \/ (revokes /\ req[s].by # None)]]
     /\ late' = [m \in Names |->
           IF m = n /\ IsAdmin(row) THEN 0
           ELSE IF m = by /\ ~Admin(m) THEN late[m] + 1 ELSE late[m]]
     /\ explained' = (explained \/ (revokes /\ (by \in {None, n} \/ req[t].crossed)))

Become(t, next) == /\ req' = [req EXCEPT ![t] = next]
                   /\ UNCHANGED <<users, late, explained>>

\* A session ends without a commit: refused, failed, or its process stopped.
Drop(t) ==
  /\ req[t] # Idle
  /\ Become(t, Idle)
  /\ UNCHANGED tokens
-----------------------------------------------------------------------------
(* Login *)

\* login, local path: an active account with a password, of other than LDAP.
LoginLocal(t, n) ==
  /\ req[t] = Idle
  /\ users[n].active /\ users[n].password
  /\ ~(LdapEnabled /\ users[n].ldap)
  /\ Become(t, [Idle EXCEPT !.pc = "issue", !.target = n, !.seen = users[n]])
  /\ UNCHANGED tokens

\* login, LDAP path: no active account of the name, or an LDAP one.  The
\* directory knows the user, and its groups map to a role.
LoginLdap(t, n, r) ==
  /\ req[t] = Idle
  /\ LdapEnabled
  /\ users[n].active => users[n].ldap
  /\ Become(t, [Idle EXCEPT !.pc = "ldap", !.target = n, !.role = r,
                            !.seen = IF users[n].active THEN users[n] ELSE NoRow])
  /\ UNCHANGED tokens

\* _do_ldap_login looks for the name, active or not; a row the session has
\* already is not read again.
LdapLoad(t) ==
  /\ req[t].pc = "ldap"
  /\ Become(t, [req[t] EXCEPT !.pc = "upsert",
                   !.seen = IF @ = NoRow THEN users[req[t].target] ELSE @])
  /\ UNCHANGED tokens

LdapUpsertLocal(t) ==           \* mutant: is_ldap left to its default
  /\ req[t].pc = "upsert"
  /\ users[req[t].target] = NoRow
  /\ Store(t, [role |-> req[t].role, active |-> TRUE, ldap |-> FALSE, password |-> FALSE], Idle)
  /\ UNCHANGED tokens

\* It inserts the account, unless the name has been inserted since, or sets its
\* role; commits; and reads it again.
LdapUpsert(t) ==
  /\ req[t].pc = "upsert"
  /\ LET now == users[req[t].target]
         row == IF req[t].seen = NoRow
                THEN [role |-> req[t].role, active |-> TRUE, ldap |-> TRUE, password |-> FALSE]
                ELSE [now EXCEPT !.role = Changed(req[t].role, req[t].seen.role, @)]
     IN IF req[t].seen = NoRow /\ now # NoRow
        THEN Become(t, Idle)
        ELSE Store(t, row, [req[t] EXCEPT !.pc = "issue", !.seen = row])
  /\ UNCHANGED tokens

\* The login is recorded and committed, then the token is sent.
Issue(t) ==
  /\ req[t].pc = "issue"
  /\ tokens' = tokens \cup {[user |-> req[t].target, role |-> req[t].seen.role]}
  /\ Become(t, Idle)

Expire(k) ==
  /\ k \in tokens
  /\ tokens' = tokens \ {k}
  /\ UNCHANGED <<users, req, late, explained>>
-----------------------------------------------------------------------------
(* Administration of users *)

AuthenticateByToken(t, k) ==    \* mutant: the role is the token's
  /\ req[t] = Idle
  /\ k \in tokens
  /\ users[k.user].active /\ k.role = "admin"
  /\ Become(t, [Idle EXCEPT !.pc = "admin", !.by = k.user, !.seen = users[k.user]])
  /\ UNCHANGED tokens

AuthenticateInactive(t, k) ==   \* mutant: is_active is looked at in login only
  /\ req[t] = Idle
  /\ k \in tokens
  /\ users[k.user].role = "admin"
  /\ Become(t, [Idle EXCEPT !.pc = "admin", !.by = k.user, !.seen = users[k.user]])
  /\ UNCHANGED tokens

\* get_current_user and require_admin: the account is read, whatever the token
\* says of its role.
Authenticate(t, k) ==
  /\ req[t] = Idle
  /\ k \in tokens
  /\ Admin(k.user)
  /\ Become(t, [Idle EXCEPT !.pc = "admin", !.by = k.user, !.seen = users[k.user]])
  /\ UNCHANGED tokens

\* update_user and deactivate_user read the account; one's own is read already.
LoadUser(t, n) ==
  /\ req[t].pc = "admin"
  /\ users[n] # NoRow
  /\ Become(t, [req[t] EXCEPT !.pc = "update", !.target = n,
                   !.seen = IF n = req[t].by THEN @ ELSE users[n]])
  /\ UNCHANGED tokens

\* A role or is_active that is not sent is None.
UpdateUser(t, r, a) ==
  /\ req[t].pc = "update"
  /\ Store(t, [users[req[t].target] EXCEPT !.role = Changed(r, req[t].seen.role, @),
                                           !.active = Changed(a, req[t].seen.active, @)], Idle)
  /\ UNCHANGED tokens

\* create_user: 409 if the name is taken ...
CheckName(t, n) ==
  /\ req[t].pc = "admin"
  /\ users[n] = NoRow
  /\ Become(t, [req[t] EXCEPT !.pc = "create", !.target = n])
  /\ UNCHANGED tokens

\* ... and an integrity error if it has been taken since.
CreateUser(t, r) ==
  /\ req[t].pc = "create"
  /\ users[req[t].target] = NoRow
  /\ Store(t, [role |-> r, active |-> TRUE, ldap |-> FALSE, password |-> TRUE], Idle)
  /\ UNCHANGED tokens
-----------------------------------------------------------------------------
(* scripts/reset_admin.py *)

ResetLoad(t, n) ==
  /\ req[t] = Idle
  /\ Become(t, [Idle EXCEPT !.pc = "reset", !.target = n, !.seen = users[n]])
  /\ UNCHANGED tokens

\* A new password and is_active for an account that exists, or a new account,
\* which is then printed as "Admin user updated" or "created".
ResetCommit(t) ==
  /\ req[t].pc = "reset"
  /\ LET now == users[req[t].target]
         row == IF req[t].seen = NoRow
                THEN [role |-> "admin", active |-> TRUE, ldap |-> FALSE, password |-> TRUE]
                ELSE [now EXCEPT !.password = TRUE,
                                 !.active = Changed(TRUE, req[t].seen.active, @)]
     IN /\ req[t].seen = NoRow => now = NoRow
        /\ Store(t, row, [Idle EXCEPT !.pc = "print", !.target = req[t].target, !.seen = row])
  /\ UNCHANGED tokens

Step(t) ==
  \/ Drop(t) \/ LdapLoad(t) \/ LdapUpsert(t) \/ Issue(t) \/ ResetCommit(t)
  \/ \E n \in Names : \/ LoginLocal(t, n) \/ LoadUser(t, n) \/ CheckName(t, n)
                      \/ ResetLoad(t, n) \/ \E r \in Roles : LoginLdap(t, n, r)
  \/ \E k \in tokens : Authenticate(t, k)
  \/ \E r \in Roles : CreateUser(t, r)
  \/ \E r \in Roles \cup {None}, a \in BOOLEAN \cup {None} : UpdateUser(t, r, a)

Next == (\E t \in Sessions : Step(t)) \/ (\E k \in tokens : Expire(k))

Spec == Init /\ [][Next]_vars
-----------------------------------------------------------------------------
(* Properties *)

Pcs == {"idle", "issue", "ldap", "upsert", "admin", "update", "create", "reset", "print"}

TypeOK ==
  /\ users \in [Names -> Rows \cup {NoRow}]
  /\ tokens \subseteq [user : Names, role : Roles]
  /\ req \in [Sessions -> [pc : Pcs, by : Names \cup {None}, target : Names \cup {None},
                           seen : Rows \cup {NoRow}, role : Roles \cup {None},
                           crossed : BOOLEAN]]
  /\ late \in [Names -> Nat] /\ explained \in BOOLEAN

\* Who is demoted or deactivated administers no more, though his tokens live on
\* for hours and name his old role: at most the requests in flight when he was
\* revoked still take effect.
InFlight(n) == {t \in Sessions : req[t].by = n}
LateBounded == \A n \in Names :
  /\ Admin(n) => late[n] = 0
  /\ ~Admin(n) => late[n] + Cardinality(InFlight(n)) <= Cardinality(Sessions)

\* There is an active administrator, as long as none revokes himself, no
\* request of one overlaps the revocation of an administrator, and the
\* directory demotes none: administrators who take turns cannot lose the last.
AdminLeft == explained \/ \E n \in Names : Admin(n)

\* Every account that is not the directory's has a password: the answer
\* "Account not configured" is never given to one of them.
LocalHavePassword == \A n \in Names :
  users[n] # NoRow /\ ~users[n].ldap => users[n].password
=============================================================================
