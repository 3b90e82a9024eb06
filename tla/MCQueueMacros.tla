---------------------------- MODULE MCQueueMacros ----------------------------
(***************************************************************************)
(* Two list heads and four elements: enough for an element that is first,  *)
(* last and in the middle, and for lists that meet in CONCAT, SPLIT_AFTER  *)
(* and SWAP.                                                               *)
(***************************************************************************)
EXTENDS QueueMacros

Symmetry == Permutations(Heads) \cup Permutations(Elems)
=============================================================================
