----------------------------- MODULE MCAesdChar -----------------------------
(* The driver with a few slots, blocks and calls.                          *)
EXTENDS AesdCharRefinement, TLC

CONSTANTS c, nl, zero

MCChar == {c, nl, zero}

\* Writes that leave a command unfinished, finish it, and add nothing to it;
\* reads of a whole command.
MemoryCalls ==
  {[op |-> "write", buf |-> b] : b \in {<<>>, <<c>>, <<c, nl>>}}
  \cup {[op |-> "read", count |-> 3]}

\* Commands of two lengths, and everything that moves a position.
PositionCalls ==
  {[op |-> "write", buf |-> b] : b \in {<<nl>>, <<c, nl>>}}
  \cup {[op |-> "read", count |-> 1],
        [op |-> "llseek", offset |-> 0, whence |-> "SEEK_SET"],
        [op |-> "llseek", offset |-> -1, whence |-> "SEEK_END"],
        [op |-> "llseek", offset |-> 1, whence |-> "SEEK_CUR"],
        [op |-> "ioctl", cmd |-> "other", write_cmd |-> 0, write_cmd_offset |-> 0],
        [op |-> "ioctl", cmd |-> "AESDCHAR_IOCSEEKTO", write_cmd |-> 2, write_cmd_offset |-> 0]}
  \cup {[op |-> "ioctl", cmd |-> "AESDCHAR_IOCSEEKTO", write_cmd |-> 1, write_cmd_offset |-> o]
          : o \in {0, 1}}

\* One call of each handler.
LivenessCalls ==
  {[op |-> "write", buf |-> <<c, nl>>],
   [op |-> "read", count |-> 3],
   [op |-> "llseek", offset |-> 0, whence |-> "SEEK_SET"],
   [op |-> "ioctl", cmd |-> "AESDCHAR_IOCSEEKTO", write_cmd |-> 0, write_cmd_offset |-> 1]}

Symmetry == Permutations(Blocks) \cup Permutations(Threads)
=============================================================================
