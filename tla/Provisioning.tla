---------------------------- MODULE Provisioning ----------------------------
(* What starting processes promise of the database, however many start, stop *)
(* and overlap: the enum types, then the tables, then the administrator and  *)
(* the defaults, patterns and settings each as a whole, made once and never  *)
(* undone, and nobody serves before the tables.                              *)
CONSTANTS Procs,
          Patterns, Keys, Cron  \* the defaults; Cron is the key operators set

VARIABLES schema,       \* "empty", "types" or "tables"
          admin,        \* whether there is an administrator
          defaults,     \* the default patterns and settings that are there
          deleted,      \* patterns that operators have deleted
          up            \* processes that serve

vars == <<schema, admin, defaults, deleted, up>>

Init ==
  /\ schema \in {"empty", "types", "tables"}
  /\ admin = FALSE /\ defaults = {} /\ deleted = {} /\ up = {}

MakeTypes ==
  /\ schema = "empty" /\ schema' = "types"
  /\ UNCHANGED <<admin, defaults, deleted, up>>

MakeTables ==
  /\ schema = "types" /\ schema' = "tables"
  /\ UNCHANGED <<admin, defaults, deleted, up>>

MakeAdmin ==
  /\ schema = "tables" /\ ~admin /\ admin' = TRUE
  /\ UNCHANGED <<schema, defaults, deleted, up>>

\* The patterns and the settings may come separately or together, but each are
\* seeded whole: only a pattern that was deleted meanwhile may be missing.
Seed ==
  /\ schema = "tables" /\ admin
  /\ \E part \in {Patterns, Keys, Patterns \cup Keys}, spared \in SUBSET deleted :
       defaults' = defaults \cup (part \ spared)
  /\ UNCHANGED <<schema, admin, deleted, up>>

Serve(p) ==
  /\ schema = "tables"
  /\ up' = up \cup {p}
  /\ UNCHANGED <<schema, admin, defaults, deleted>>

Stop(p) ==
  /\ up' = up \ {p}
  /\ UNCHANGED <<schema, admin, defaults, deleted>>

\* Operators set the schedule and delete patterns, by a process that serves.
SetCron ==
  /\ admin /\ up # {}
  /\ defaults' = defaults \cup {Cron}
  /\ UNCHANGED <<schema, admin, deleted, up>>

DeletePattern(n) ==
  /\ admin /\ up # {}
  /\ n \in defaults
  /\ defaults' \in {defaults, defaults \ {n}}   \* of a name there may be two
  /\ deleted' = deleted \cup {n}
  /\ UNCHANGED <<schema, admin, up>>

Next == \/ MakeTypes \/ MakeTables \/ MakeAdmin \/ Seed \/ SetCron
        \/ \E p \in Procs : Serve(p) \/ Stop(p)
        \/ \E n \in Patterns : DeletePattern(n)

Spec == Init /\ [][Next]_vars
=============================================================================
