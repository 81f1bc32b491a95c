--------------------------- MODULE MCHealthCheck ---------------------------
(* A small instance of HealthCheck. *)
EXTENDS HealthCheck, TLC

CONSTANTS i1, i2, i3, i4

\* Indices are only compared, so they are interchangeable.
Symmetry == Permutations(Indices)
=============================================================================
