------------------------- MODULE AesdCharRefinement -------------------------
(* The driver seen as the device it implements.                            *)
EXTENDS AesdChar

\* The state of AbstractDevice as the driver represents it.
Abstract == INSTANCE AbstractDevice WITH
  Capacity <- AESDCHAR_MAX_WRITE_OPERATIONS_SUPPORTED,
  loaded   <- (mod = "live"),
  log      <- IF mod = "live" THEN Log ELSE <<>>,
  pending  <- IF mod = "live" THEN Content(current_write_entry) ELSE <<>>,
  open     <- {t \in Threads : pc[t] # "closed"},
  pos      <- f_pos

\* The driver implements the device: calls are atomic, and reads, writes and
\* seeks do to the log, the pending command and the positions what
\* AbstractDevice says, whatever the interleaving, failed allocation or fault.
AbstractSpec == Abstract!Spec

=============================================================================
