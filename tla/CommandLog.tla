----------------------------- MODULE CommandLog -----------------------------
(***************************************************************************)
(* The commands a file or a device keeps, as programs see them: sequences  *)
(* of bytes, oldest first, read one after the other.                       *)
(***************************************************************************)
EXTENDS Integers, SequencesExt

\* The bytes of all commands.
Contents(log) == FlattenSeq(log)

\* Positions at which a command ends.
Ends(log) == {Len(Contents(SubSeq(log, 1, k))) : k \in 1 .. Len(log)}

\* The newest n elements of a sequence.
Newest(s, n) == SubSeq(s, Max({1, Len(s) - n + 1}), Len(s))

\* The position after a read at pos, for pos before the end: at the end of the
\* command there, and at the latest after count bytes.
ReadEnd(log, pos, count) == Min({e \in Ends(log) : e > pos} \cup {pos + count})

=============================================================================
