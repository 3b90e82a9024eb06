------------------------- MODULE CircularBufferSpec -------------------------
(***************************************************************************)
(* A circular buffer on its own: a caller that holds whatever lock is      *)
(* needed adds entries one after the other.                                *)
(***************************************************************************)
EXTENDS CircularBuffer, SequencesExt

CONSTANTS
  Pointers,   (* addresses of allocated memory                             *)
  Entries     (* what a caller adds                                        *)

\* The driver only adds entries that point to memory and hold a newline.
ASSUME EntryAssumption == /\ NULL \notin Pointers
                          /\ Entries \subseteq [buffptr : Pointers, size : Nat \ {0}]

VARIABLES
  buffer,   (* the struct aesd_circular_buffer                             *)
  removed   (* what the last add_entry returned                            *)

vars == <<buffer, removed>>

Init == buffer = aesd_circular_buffer_init /\ removed = NULL

Add(e) ==
  LET result == aesd_circular_buffer_add_entry(buffer, e)
  IN  /\ buffer'  = result.buffer
      /\ removed' = result.removed

Next == \E e \in Entries : Add(e)

Spec == Init /\ [][Next]_vars

-----------------------------------------------------------------------------

\* Every field has its type: in_offs and out_offs stay below the number of slots.
TypeOK ==
  /\ buffer \in [entry    : [Slots -> Entries \cup {EmptyEntry}],
                 in_offs  : Slots,
                 out_offs : Slots,
                 full     : BOOLEAN]
  /\ removed \in Pointers \cup {NULL}

\* The slots in use are what in_offs, out_offs and full say they are: until
\* the buffer has filled up once they are the slots before in_offs and nothing
\* has been read past (out_offs = 0); from then on every slot is in use and
\* the oldest one is the next to be overwritten.  No step empties a slot.
RingShape ==
  /\ ~buffer.full => /\ buffer.out_offs = 0
                     /\ \A i \in Slots : buffer.entry[i] \in Entries <=> i < buffer.in_offs
  /\ buffer.full  => /\ buffer.in_offs = buffer.out_offs
                     /\ \A i \in Slots : buffer.entry[i] \in Entries

\* The stream of character positions the entries make up when concatenated,
\* each as the entry and the offset in it that a search has to return.
Stream ==
  FlattenSeq([k \in 1 .. Count(buffer) |->
    [j \in 1 .. buffer.entry[SlotOf(buffer, k)].size |->
      [entry |-> SlotOf(buffer, k), entry_offset_byte |-> j - 1]]])

\* aesd_circular_buffer_find_entry_offset_for_fpos finds each position of the
\* concatenated entries in the right entry at the right offset, and nothing
\* past the last one, wherever the buffer's oldest entry is.
FindAgreesWithStream ==
  LET stream == Stream
  IN  \A char_offset \in 0 .. (Len(stream) + 1) :
        aesd_circular_buffer_find_entry_offset_for_fpos(buffer, char_offset) =
          IF char_offset < Len(stream) THEN stream[char_offset + 1] ELSE NotFound

\* The end that llseek computes (a sum over the array) is the first position
\* that a read reports as end of file (a walk from out_offs).
SeekEndIsReadEof ==
  LET end == aesd_circular_buffer_size(buffer)
  IN  /\ aesd_circular_buffer_find_entry_offset_for_fpos(buffer, end) = NotFound
      /\ end > 0 =>
           aesd_circular_buffer_find_entry_offset_for_fpos(buffer, end - 1) # NotFound

\* The buffer implements "the most recent entries": order, capacity, and the
\* pointer handed back for freeing are those of the abstract log.
Recent == INSTANCE RecentEntries WITH
            Capacity <- AESDCHAR_MAX_WRITE_OPERATIONS_SUPPORTED,
            log      <- Logical(buffer)

RecentEntriesSpec == Recent!Spec

=============================================================================
