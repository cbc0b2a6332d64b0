-------------------------- MODULE MCDatabaseHelper --------------------------
(* DatabaseHelper for TLC. *)
EXTENDS DatabaseHelper, TLC

\* Calls are interchangeable.
Symmetry == Permutations(Call)
=============================================================================
