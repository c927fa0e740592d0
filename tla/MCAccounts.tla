----------------------------- MODULE MCAccounts -----------------------------
(* Instance of Accounts for TLC. *)
EXTENDS Accounts, TLC

CONSTANTS n1, n2, s1, s2

Symmetry == Permutations(Sessions)
=============================================================================
