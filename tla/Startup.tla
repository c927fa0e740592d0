------------------------------ MODULE Startup -------------------------------
(* What every process does before it serves: create the enum types and the  *)
(* tables if they are missing, seed the administrator, the default patterns  *)
(* and the default settings, and start its scheduler; and the script that    *)
(* seeds by hand.  Processes share the database only.  PostgreSQL's DDL is   *)
(* transactional, so each transaction is one action, preceded by the reads   *)
(* it decides upon; an item another process committed in between is a        *)
(* duplicate, and raises.                                                    *)
EXTENDS Naturals, FiniteSets

CONSTANTS Api,          \* processes of the API (main.py)
          Workers,      \* processes of worker.py
          Scripts,      \* runs of scripts/seed.py
          Types,        \* enum types
          Patterns,     \* names of the default patterns
          Keys,         \* keys of the default settings
          Cron          \* the key "analysis_cron"

ASSUME ProcsAssumption == /\ Api \cap Workers = {} /\ Api \cap Scripts = {}
                          /\ Workers \cap Scripts = {}
                          /\ IsFiniteSet(Api \cup Scripts)
ASSUME KeysAssumption == Cron \in Keys
ASSUME ItemsAssumption == /\ Types \cap (Patterns \cup Keys) = {}
                          /\ Patterns \cap Keys = {}

Procs   == Api \cup Workers \cup Scripts
Seeders == Api \cup Scripts

\* Values of analysis_cron: accepted (of other than five fields too, without a
\* job then), or raising: an invalid field, or encrypted, so that it reads None.
Crons == {"accepted", "raises"}

VARIABLES
  types,        \* enum types in the database
  tables,       \* whether the tables exist
  admin,        \* whether the administrator exists
  patterns,     \* copies of each default pattern; names are not unique
  keys,         \* settings present; keys are unique
  cron,         \* the value of analysis_cron
  pc,           \* where each process is
  todo,         \* what it still has to look up in the current step
  missing,      \* what it looked up and did not find
  races,        \* startups lost to another process's commit (ghost)
  deleted       \* default patterns operators have deleted (ghost)

db   == <<types, tables, admin, patterns, keys, cron>>
vars == <<db, pc, todo, missing, races, deleted>>

Steps == {"types", "table", "scan", "ddl", "admin", "insert", "seed"}

Init ==
  /\ \/ types = {} /\ tables = FALSE
     \/ types = Types /\ tables \in BOOLEAN
  /\ admin = FALSE
  /\ patterns = [n \in Patterns |-> 0] /\ keys = {} /\ cron = "accepted"
  /\ pc = [p \in Procs |-> "down"]
  /\ todo = [p \in Procs |-> {}] /\ missing = [p \in Procs |-> {}]
  /\ races = [p \in Procs |-> 0]
  /\ deleted = {}

\* The process goes to a step that looks up the items of a set.
GoTo(p, step, items) ==
  /\ pc' = [pc EXCEPT ![p] = step]
  /\ todo' = [todo EXCEPT ![p] = items]
  /\ missing' = [missing EXCEPT ![p] = {}]

\* An exception leaves lifespan or main: the process does not start.
Fail(p) == GoTo(p, "failed", {})
-----------------------------------------------------------------------------
\* worker.py calls create_all with no model imported: it creates nothing.  The
\* script imports them, and leaves the types to the API.
Start(p) ==
  /\ pc[p] \in {"down", "failed"}
  /\ IF p \in Api THEN GoTo(p, "types", Types)
     ELSE GoTo(p, IF p \in Workers THEN "schedule" ELSE "scan", {})
  /\ UNCHANGED <<db, races, deleted>>

PresentUntyped(x) ==            \* mutant: CREATE TYPE without a look at pg_type
  \/ x \in Patterns /\ patterns[x] > 0
  \/ x \in keys

PresentUnnamed(x) == x \in types \cup keys     \* mutant: patterns without a look

Present(x) == \/ x \in types
              \/ x \in Patterns /\ patterns[x] > 0
              \/ x \in keys

\* One SELECT; patterns are looked up before settings.
LookUp(p, x) ==
  /\ pc[p] \in {"types", "seed"}
  /\ x \in todo[p]
  /\ x \in Keys => todo[p] \subseteq Keys
  /\ todo' = [todo EXCEPT ![p] = @ \ {x}]
  /\ missing' = [missing EXCEPT ![p] = IF Present(x) THEN @ ELSE @ \cup {x}]
  /\ UNCHANGED <<db, pc, races, deleted>>

\* create_enums: one commit for all types.
CreateTypes(p) ==
  /\ pc[p] = "types" /\ todo[p] = {}
  /\ IF missing[p] \cap types = {}
     THEN types' = types \cup missing[p] /\ GoTo(p, "table", {}) /\ UNCHANGED races
     ELSE UNCHANGED types /\ Fail(p) /\ races' = [races EXCEPT ![p] = @ + 1]
  /\ UNCHANGED <<tables, admin, patterns, keys, cron, deleted>>

\* init_db looks for "users", then create_all looks for each table.
FindTables(p) ==
  /\ pc[p] \in {"table", "scan"}
  /\ GoTo(p, IF tables THEN "admin" ELSE IF pc[p] = "table" THEN "scan" ELSE "ddl", {})
  /\ UNCHANGED <<db, races, deleted>>

\* create_all: all tables, in one transaction, which their types must precede.
CreateTables(p) ==
  /\ pc[p] = "ddl"
  /\ \/ tables /\ UNCHANGED tables /\ Fail(p) /\ races' = [races EXCEPT ![p] = @ + 1]
     \/ ~ tables /\ types # Types /\ Fail(p) /\ UNCHANGED <<tables, races>>
     \/ ~ tables /\ types = Types /\ tables' = TRUE /\ GoTo(p, "admin", {})
        /\ UNCHANGED races
  /\ UNCHANGED <<types, admin, patterns, keys, cron, deleted>>
-----------------------------------------------------------------------------
(* seed_initial_data, which swallows every exception and goes on to the      *)
(* scheduler; in the script the exception is the end.                        *)

SeedEnds(p, ok) ==
  GoTo(p, IF p \in Api THEN "schedule" ELSE IF ok THEN "down" ELSE "failed", {})

FindAdmin(p) ==
  /\ pc[p] = "admin"
  /\ IF admin THEN GoTo(p, "seed", Patterns \cup Keys) ELSE GoTo(p, "insert", {})
  /\ UNCHANGED <<db, races, deleted>>

\* The administrator is committed at once; inserted twice, the rest of the seed
\* is not run.
CreateAdmin(p) ==
  /\ pc[p] = "insert"
  /\ IF admin THEN SeedEnds(p, FALSE) ELSE GoTo(p, "seed", Patterns \cup Keys)
  /\ admin' = TRUE
  /\ UNCHANGED <<types, tables, patterns, keys, cron, races, deleted>>

\* Patterns and settings are one commit; a setting inserted twice rolls both
\* back.  A schedule seeded is the default one, which cron holds until an
\* operator inserts another.
CommitSeed(p) ==
  /\ pc[p] = "seed" /\ todo[p] = {}
  /\ IF missing[p] \cap keys = {}
     THEN /\ patterns' = [n \in Patterns |-> IF n \in missing[p] THEN patterns[n] + 1
                                             ELSE patterns[n]]
          /\ keys' = keys \cup (missing[p] \cap Keys)
     ELSE UNCHANGED <<patterns, keys>>
  /\ SeedEnds(p, missing[p] \cap keys = {})
  /\ UNCHANGED <<types, tables, admin, cron, races, deleted>>

SeedFailsKept(p) ==             \* mutant: commit for rollback, what was added stays
  /\ pc[p] \in {"admin", "insert", "seed"}
  /\ patterns' = [n \in Patterns |-> IF n \in missing[p] THEN patterns[n] + 1 ELSE patterns[n]]
  /\ keys' = keys \cup (missing[p] \cap Keys)
  /\ SeedEnds(p, FALSE)
  /\ UNCHANGED <<types, tables, admin, cron, races, deleted>>

\* A statement of the seed raises, and what was not committed is rolled back.
SeedFails(p) ==
  /\ pc[p] \in {"admin", "insert", "seed"}
  /\ SeedEnds(p, FALSE)
  /\ UNCHANGED <<db, races, deleted>>
-----------------------------------------------------------------------------
ScheduleUnread(p) ==            \* mutant: the configuration's cron, no setting read
  /\ pc[p] = "schedule"
  /\ GoTo(p, "ready", {})
  /\ UNCHANGED <<db, races, deleted>>

\* start_scheduler reads the setting, or takes the configuration's: without
\* the table, or with a value it cannot parse, it raises.
Schedule(p) ==
  /\ pc[p] = "schedule"
  /\ IF tables /\ (Cron \in keys => cron # "raises") THEN GoTo(p, "ready", {}) ELSE Fail(p)
  /\ UNCHANGED <<db, races, deleted>>

\* A process stops or is killed, at any point; its transaction is rolled back.
Stop(p) ==
  /\ pc[p] # "down"
  /\ GoTo(p, "down", {})
  /\ UNCHANGED <<db, races, deleted>>
-----------------------------------------------------------------------------
(* The administrator, by way of an API process that serves *)

Served == admin /\ \E p \in Api : pc[p] = "ready"

\* update_settings inserts the key if it is not there.
SetCron(c) ==
  /\ Served
  /\ keys' = keys \cup {Cron} /\ cron' = c
  /\ UNCHANGED <<types, tables, admin, patterns, pc, todo, missing, races, deleted>>

DeletePattern(n) ==
  /\ Served
  /\ patterns[n] > 0
  /\ patterns' = [patterns EXCEPT ![n] = @ - 1]
  /\ deleted' = deleted \cup {n}
  /\ UNCHANGED <<types, tables, admin, keys, cron, pc, todo, missing, races>>

Step(p) ==
  \/ Start(p)
  \/ \E x \in Types \cup Patterns \cup Keys : LookUp(p, x)
  \/ CreateTypes(p) \/ FindTables(p) \/ CreateTables(p)
  \/ FindAdmin(p) \/ CreateAdmin(p) \/ CommitSeed(p) \/ SeedFails(p)
  \/ Schedule(p) \/ Stop(p)

Next == \/ \E p \in Procs : Step(p)
        \/ \E c \in Crons : SetCron(c)
        \/ \E n \in Patterns : DeletePattern(n)

Spec == Init /\ [][Next]_vars
-----------------------------------------------------------------------------
(* Properties *)

TypeOK ==
  /\ types \subseteq Types /\ tables \in BOOLEAN /\ admin \in BOOLEAN
  /\ patterns \in [Patterns -> Nat] /\ keys \subseteq Keys /\ cron \in Crons
  /\ pc \in [Procs -> Steps \cup {"down", "failed", "schedule", "ready"}]
  /\ todo \in [Procs -> SUBSET (Types \cup Patterns \cup Keys)]
  /\ missing \in [Procs -> SUBSET (Types \cup Patterns \cup Keys)]
  /\ races \in [Procs -> Nat] /\ deleted \subseteq Patterns

\* However processes overlap, fail and start again, they provision the database
\* as one would: schema in its order, the default patterns all or none, and the
\* settings, nothing undone, and nobody serves before the tables are there.
Schema   == IF tables THEN "tables" ELSE IF types = Types THEN "types" ELSE "empty"
Defaults == keys \cup {n \in Patterns : patterns[n] > 0}
Up       == {p \in Procs : pc[p] = "ready"}
Provisioned == INSTANCE Provisioning WITH schema <- Schema, defaults <- Defaults, up <- Up
RefinesProvisioning == Provisioned!Spec

\* Processes that seed at once may duplicate a default pattern, but never beyond
\* one copy each, whatever is stopped, deleted and started again.
Seeding(n) == {p \in Seeders : pc[p] = "seed" /\ n \in missing[p]}
CopiesBounded == \A n \in Patterns :
  patterns[n] + Cardinality(Seeding(n)) <= Cardinality(Seeders)

\* A process loses its startup to other processes twice at most, once over the
\* types and once over the tables: started again it goes further.
RacesBounded == \A p \in Procs : races[p] <= 2
=============================================================================
