---------------------------- MODULE RecentEntries ----------------------------
(***************************************************************************)
(* What a circular buffer promises its caller: it keeps the Capacity most  *)
(* recent entries in the order they were added, and hands back the pointer *)
(* of the entry it drops, so that the caller can free it.                  *)
(***************************************************************************)
EXTENDS Naturals, Sequences

CONSTANTS Capacity, Entries, NULL

VARIABLES
  log,      (* the entries kept, oldest first                              *)
  removed   (* what the last Add handed back                               *)

vars == <<log, removed>>

Init == log = <<>> /\ removed = NULL

Add(e) ==
  \/ /\ Len(log) < Capacity
     /\ log' = Append(log, e)
     /\ removed' = NULL
  \/ /\ Len(log) = Capacity
     /\ log' = Append(Tail(log), e)
     /\ removed' = Head(log).buffptr

Next == \E e \in Entries : Add(e)

Spec == Init /\ [][Next]_vars

=============================================================================
