-------------------------- MODULE MCCircularBuffer --------------------------
(* A buffer of eight slots, and two entries of different lengths and        *)
(* pointers.                                                                *)
EXTENDS CircularBufferSpec

CONSTANTS p, q

MCPointers == {p, q}

MCEntries == {[buffptr |-> p, size |-> 1], [buffptr |-> q, size |-> 3]}

=============================================================================
