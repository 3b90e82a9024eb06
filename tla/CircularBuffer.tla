--------------------------- MODULE CircularBuffer ---------------------------
(***************************************************************************)
(* The circular buffer of write commands behind /dev/aesdchar              *)
(* (aesd-char-driver/aesd-circular-buffer.c and .h), as operators on the   *)
(* value of a struct aesd_circular_buffer.  The callers' locking and the   *)
(* memory that buffptr points to belong to the driver (module AesdChar).   *)
(***************************************************************************)
EXTENDS Integers, Functions

CONSTANTS
  AESDCHAR_MAX_WRITE_OPERATIONS_SUPPORTED, (* slots of the buffer; 10 in the code *)
  NULL                                     (* the null pointer                    *)

\* in_offs, out_offs and the loop indices are uint8_t: every slot, and the
\* value one past the last slot, has to fit.
ASSUME SlotsAssumption == AESDCHAR_MAX_WRITE_OPERATIONS_SUPPORTED \in 1 .. 255

Slots == 0 .. (AESDCHAR_MAX_WRITE_OPERATIONS_SUPPORTED - 1)

\* struct aesd_buffer_entry with its bytes zeroed by memset.
EmptyEntry == [buffptr |-> NULL, size |-> 0]

\* The slot after index.
NextSlot(index) == (index + 1) % AESDCHAR_MAX_WRITE_OPERATIONS_SUPPORTED

aesd_circular_buffer_init ==
  [entry |-> [i \in Slots |-> EmptyEntry],
   in_offs |-> 0, out_offs |-> 0, full |-> FALSE]

-----------------------------------------------------------------------------
(* Adding an entry: the new buffer, and the pointer the caller has to free. *)

\* Mutant: removed is read after the slot has been overwritten.
add_entry_RemovedTooLate(buffer, add_entry) ==
  LET out_offs == IF buffer.full THEN NextSlot(buffer.out_offs) ELSE buffer.out_offs
      in_offs  == NextSlot(buffer.in_offs)
  IN  [buffer |-> [entry    |-> [buffer.entry EXCEPT ![buffer.in_offs] = add_entry],
                   in_offs  |-> in_offs,
                   out_offs |-> out_offs,
                   full     |-> buffer.full \/ in_offs = out_offs],
       removed |-> IF buffer.full THEN add_entry.buffptr ELSE NULL]

\* Mutant: full is derived from the offsets as they were before the write.
add_entry_FullTooLate(buffer, add_entry) ==
  LET out_offs == IF buffer.full THEN NextSlot(buffer.out_offs) ELSE buffer.out_offs
      in_offs  == NextSlot(buffer.in_offs)
  IN  [buffer |-> [entry    |-> [buffer.entry EXCEPT ![buffer.in_offs] = add_entry],
                   in_offs  |-> in_offs,
                   out_offs |-> out_offs,
                   full     |-> buffer.full \/ NextSlot(in_offs) = out_offs],
       removed |-> IF buffer.full THEN buffer.entry[buffer.in_offs].buffptr ELSE NULL]

\* Mutant: in_offs is advanced without wrapping around.
add_entry_NoWrap(buffer, add_entry) ==
  LET in_offs == buffer.in_offs + 1
  IN  [buffer |-> [entry    |-> [buffer.entry EXCEPT ![buffer.in_offs] = add_entry],
                   in_offs  |-> in_offs,
                   out_offs |-> buffer.out_offs,
                   full     |-> buffer.full \/ in_offs = buffer.out_offs],
       removed |-> NULL]

aesd_circular_buffer_add_entry(buffer, add_entry) ==
  LET removed  == IF buffer.full THEN buffer.entry[buffer.in_offs].buffptr ELSE NULL
      out_offs == IF buffer.full THEN NextSlot(buffer.out_offs) ELSE buffer.out_offs
      in_offs  == NextSlot(buffer.in_offs)
  IN  [buffer |-> [entry    |-> [buffer.entry EXCEPT ![buffer.in_offs] = add_entry],
                   in_offs  |-> in_offs,
                   out_offs |-> out_offs,
                   full     |-> buffer.full \/ in_offs = out_offs],
       removed |-> removed]

-----------------------------------------------------------------------------
(* Finding the entry that holds a character position.                      *)

NotFound == [entry |-> NULL, entry_offset_byte |-> 0]

\* The bytes of the entries in a set of slots.
SizeOf(buffer, slots) == SumFunctionOnSet([i \in Slots |-> buffer.entry[i].size], slots)

\* Mutant: the search starts at the first slot of the array.
find_entry_FromSlotZero(buffer, char_offset) ==
  LET running_size(k) == SizeOf(buffer, 0 .. k - 1)
      returns == {k \in Slots : /\ running_size(k) <= char_offset
                                /\ char_offset < running_size(k) + buffer.entry[k].size}
      k == CHOOSE k \in returns : TRUE
  IN  IF returns = {} THEN NotFound
      ELSE [entry |-> k, entry_offset_byte |-> char_offset - running_size(k)]

\* The do-while loop: its k-th iteration, k = 0, 1, ..., looks at entry[index(k)],
\* whose first byte is at running_size(k), returns when char_offset is before its
\* end, and otherwise goes on while the loop condition holds of the next index.
aesd_circular_buffer_find_entry_offset_for_fpos(buffer, char_offset) ==
  LET index(k)        == (buffer.out_offs + k) % AESDCHAR_MAX_WRITE_OPERATIONS_SUPPORTED
      running_size(k) == SizeOf(buffer, {index(j) : j \in 0 .. k - 1})
      hit(k)          == char_offset < running_size(k) + buffer.entry[index(k)].size
      continues(k)    == /\ index(k + 1) # buffer.in_offs \/ buffer.full
                         /\ index(k + 1) # buffer.out_offs
      returns == {k \in Slots : hit(k) /\ \A j \in 0 .. k - 1 : ~hit(j) /\ continues(j)}
      k == CHOOSE k \in returns : TRUE
  IN  IF returns = {} THEN NotFound
      ELSE [entry |-> index(k), entry_offset_byte |-> char_offset - running_size(k)]

-----------------------------------------------------------------------------
(* Sums over AESD_CIRCULAR_BUFFER_FOREACH, which visits the slots in array *)
(* order, from 0, whatever out_offs is (main.c).                           *)

\* Mutant: the slots before in_offs only.
buffer_size_UpToInOffs(buffer) ==
  SizeOf(buffer, 0 .. (buffer.in_offs - 1))

aesd_circular_buffer_size(buffer) == SizeOf(buffer, Slots)

-----------------------------------------------------------------------------
(* What the buffer stands for: its entries, oldest first.                  *)

Count(buffer) ==
  IF buffer.full THEN AESDCHAR_MAX_WRITE_OPERATIONS_SUPPORTED
  ELSE (buffer.in_offs - buffer.out_offs) % AESDCHAR_MAX_WRITE_OPERATIONS_SUPPORTED

\* The slot of the k-th oldest entry, k = 1 .. Count(buffer).
SlotOf(buffer, k) ==
  (buffer.out_offs + k - 1) % AESDCHAR_MAX_WRITE_OPERATIONS_SUPPORTED

Logical(buffer) == [k \in 1 .. Count(buffer) |-> buffer.entry[SlotOf(buffer, k)]]

=============================================================================
