----------------------------- MODULE MCRecords ------------------------------
(* Instance of Records for TLC. *)
EXTENDS Records, TLC

CONSTANTS cron, secret_key, host, version, v1, v2, s1, s2, c1

Symmetry == Permutations(Sessions) \cup Permutations(Values)
=============================================================================
