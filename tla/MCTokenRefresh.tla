--------------------------- MODULE MCTokenRefresh ---------------------------
(* Small instances of TokenRefresh for TLC. *)
EXTENDS TokenRefresh, TLC

\* Goroutines are interchangeable.
Symmetry == Permutations(Worker)
=============================================================================
