----------------------------- MODULE MCResearch -----------------------------
(* Research for TLC: tasks, sessions and teachers are interchangeable. *)
EXTENDS Research

Symmetry == Permutations(Tasks) \cup Permutations(Sessions) \cup Permutations(Teachers)

=============================================================================
