----------------------------- MODULE MCStartup ------------------------------
(* Instances of Startup for TLC, and what its documentation says of it. *)
EXTENDS Startup, TLC

CONSTANTS a1, a2, w, s

Symmetry == Permutations(Api)
-----------------------------------------------------------------------------
\* database.py of init_db: "Fully idempotent - safe every startup".  Of two
\* processes that start on an empty database one does not come up.
StartupSafe == \A p \in Procs : races[p] = 0
=============================================================================
