--------------------------- MODULE MCSystemCalls ---------------------------
(* Small instances of SystemCalls.                                         *)
EXTENDS SystemCalls

Symmetry == Permutations(Callers)

=============================================================================
