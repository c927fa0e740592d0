------------------------------- MODULE MCPool -------------------------------
(* An instance of Pool for TLC: more requests than threads, and as many       *)
(* hanging vCenters as connections, the scheduler's included.                 *)
EXTENDS Pool

CONSTANTS c1, c2, c3, c4, s
=============================================================================
