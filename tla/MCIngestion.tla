----------------------------- MODULE MCIngestion -----------------------------
(* Ingestion for TLC: the worker processes are interchangeable. *)
EXTENDS Ingestion, TLC

Symmetry == Permutations(Workers)

=============================================================================
