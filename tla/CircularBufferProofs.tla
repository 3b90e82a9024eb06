------------------------ MODULE CircularBufferProofs ------------------------
(***************************************************************************)
(* Proofs about the circular buffer, for every number of slots in 1 .. 255 *)
(* and every set of entries.                                               *)
(***************************************************************************)
EXTENDS CircularBufferSpec, SequenceTheorems, TLAPS

\* The slot after index is the next one, or the first after the last.
LEMMA NextSlotWraps ==
  \A index \in Slots :
    NextSlot(index) = IF index + 1 = AESDCHAR_MAX_WRITE_OPERATIONS_SUPPORTED
                      THEN 0 ELSE index + 1
  BY SlotsAssumption DEF Slots, NextSlot

\* NextSlot stays inside the array.
LEMMA NextSlotInSlots == \A index \in Slots : NextSlot(index) \in Slots
  BY NextSlotWraps, SlotsAssumption DEF Slots

\* An unused slot is not an entry of a caller.
LEMMA EmptyEntryIsNoEntry == EmptyEntry \notin Entries
  BY EntryAssumption DEF EmptyEntry

\* The conjunction that add_entry preserves.
IInv == TypeOK /\ RingShape

\* aesd_circular_buffer_init establishes the invariant: no slot is in use.
LEMMA InitIInv == Init => IInv
  <1> SUFFICES ASSUME Init PROVE IInv
    OBVIOUS
  <1>1. TypeOK
    BY SlotsAssumption DEF Init, TypeOK, aesd_circular_buffer_init, Slots
  <1>2. RingShape
    BY EmptyEntryIsNoEntry, SlotsAssumption
    DEF Init, RingShape, aesd_circular_buffer_init, Slots
  <1> QED BY <1>1, <1>2 DEF IInv

\* aesd_circular_buffer_add_entry preserves it.
LEMMA AddIInv ==
  ASSUME NEW e \in Entries, IInv, Add(e)
  PROVE  IInv'
  <1> DEFINE in_offs  == NextSlot(buffer.in_offs)
             out_offs == IF buffer.full THEN NextSlot(buffer.out_offs) ELSE buffer.out_offs
  <1>1. /\ buffer' = [entry    |-> [buffer.entry EXCEPT ![buffer.in_offs] = e],
                      in_offs  |-> in_offs,
                      out_offs |-> out_offs,
                      full     |-> buffer.full \/ in_offs = out_offs]
        /\ removed' = IF buffer.full THEN buffer.entry[buffer.in_offs].buffptr ELSE NULL
    BY DEF Add, aesd_circular_buffer_add_entry
  <1>2. in_offs \in Slots /\ out_offs \in Slots
    BY NextSlotInSlots DEF IInv, TypeOK
  <1>3. TypeOK'
    <2>1. buffer' \in [entry    : [Slots -> Entries \cup {EmptyEntry}],
                       in_offs  : Slots,
                       out_offs : Slots,
                       full     : BOOLEAN]
      BY <1>1, <1>2 DEF IInv, TypeOK
    <2>2. removed' \in Pointers \cup {NULL}
      BY <1>1, EntryAssumption DEF IInv, TypeOK, RingShape
    <2> QED BY <2>1, <2>2 DEF TypeOK
  <1>4. RingShape'
    <2>1. CASE buffer.full
      BY <1>1, <2>1 DEF IInv, TypeOK, RingShape
    <2>2. CASE ~buffer.full /\ buffer.in_offs + 1 = AESDCHAR_MAX_WRITE_OPERATIONS_SUPPORTED
      <3>1. in_offs = 0 /\ out_offs = 0
        BY <2>2, NextSlotWraps, SlotsAssumption DEF IInv, TypeOK, RingShape, Slots
      <3>2. buffer'.full /\ buffer'.in_offs = buffer'.out_offs
        BY <1>1, <3>1
      <3>3. \A i \in Slots : buffer'.entry[i] \in Entries
        BY <1>1, <2>2, SlotsAssumption DEF IInv, TypeOK, RingShape, Slots
      <3> QED BY <3>2, <3>3 DEF RingShape
    <2>3. CASE ~buffer.full /\ buffer.in_offs + 1 # AESDCHAR_MAX_WRITE_OPERATIONS_SUPPORTED
      BY <1>1, <2>3, NextSlotWraps, SlotsAssumption, EmptyEntryIsNoEntry
      DEF IInv, TypeOK, RingShape, Slots
    <2> QED BY <2>1, <2>2, <2>3
  <1> QED BY <1>3, <1>4 DEF IInv

\* The invariant holds of every reachable buffer.
LEMMA Invariance == Spec => []IInv
  <1>1. IInv /\ [Next]_vars => IInv'
    <2> SUFFICES ASSUME IInv, [Next]_vars PROVE IInv'
      OBVIOUS
    <2>1. CASE Next
      BY <2>1, AddIInv DEF Next
    <2>2. CASE UNCHANGED vars
      BY <2>2 DEF vars, IInv, TypeOK, RingShape
    <2> QED BY <2>1, <2>2
  <1> QED BY InitIInv, <1>1, PTL DEF Spec

\* Type correctness: in_offs and out_offs never leave the array.
THEOREM TypeCorrect == Spec => []TypeOK
  <1>1. IInv => TypeOK
    BY DEF IInv
  <1> QED BY Invariance, <1>1, PTL

\* The slots in use are what the offsets and the full flag say they are.
THEOREM ShapeCorrect == Spec => []RingShape
  <1>1. IInv => RingShape
    BY DEF IInv
  <1> QED BY Invariance, <1>1, PTL

-----------------------------------------------------------------------------
(* The buffer implements RecentEntries.                                    *)

BufferType ==
  [entry : [Slots -> Entries \cup {EmptyEntry}], in_offs : Slots, out_offs : Slots,
   full : BOOLEAN]

\* An offset less than two array lengths wraps at most once.
LEMMA ModWraps ==
  ASSUME NEW n \in Nat \ {0}, NEW x \in 0 .. 2 * n - 1
  PROVE  x % n = IF x < n THEN x ELSE x - n
  <1>1. CASE x < n
    BY <1>1, SMT
  <1>2. CASE x >= n
    <2> DEFINE y == x - n
    <2>1. y \in 0 .. n - 1 /\ x = y + n
      BY <1>2
    <2>2. (y + n) % n = y
      BY <2>1, SMT
    <2> QED BY <1>2, <2>1, <2>2
  <1> QED BY <1>1, <1>2

\* Before the buffer has filled up, the entries are the first in_offs slots.
LEMMA LogicalOfPartial ==
  ASSUME NEW b \in BufferType, ~b.full, b.out_offs = 0
  PROVE  Logical(b) = [k \in 1 .. b.in_offs |-> b.entry[k - 1]]
  <1>1. Count(b) = b.in_offs
    BY SlotsAssumption DEF Count, BufferType, Slots
  <1>2. \A k \in 1 .. b.in_offs : SlotOf(b, k) = k - 1
    BY SlotsAssumption DEF SlotOf, BufferType, Slots
  <1> QED BY <1>1, <1>2 DEF Logical

\* Once it is full, they are all slots, read round from out_offs.
LEMMA LogicalOfFull ==
  ASSUME NEW b \in BufferType, b.full
  PROVE  Logical(b) = [k \in 1 .. AESDCHAR_MAX_WRITE_OPERATIONS_SUPPORTED |->
            b.entry[IF b.out_offs + k - 1 < AESDCHAR_MAX_WRITE_OPERATIONS_SUPPORTED
                    THEN b.out_offs + k - 1
                    ELSE b.out_offs + k - 1 - AESDCHAR_MAX_WRITE_OPERATIONS_SUPPORTED]]
  <1>1. Count(b) = AESDCHAR_MAX_WRITE_OPERATIONS_SUPPORTED
    BY DEF Count
  <1>2. \A k \in 1 .. AESDCHAR_MAX_WRITE_OPERATIONS_SUPPORTED :
          SlotOf(b, k) = IF b.out_offs + k - 1 < AESDCHAR_MAX_WRITE_OPERATIONS_SUPPORTED
                         THEN b.out_offs + k - 1
                         ELSE b.out_offs + k - 1 - AESDCHAR_MAX_WRITE_OPERATIONS_SUPPORTED
    <2> SUFFICES ASSUME NEW k \in 1 .. AESDCHAR_MAX_WRITE_OPERATIONS_SUPPORTED
                 PROVE  SlotOf(b, k) =
                          IF b.out_offs + k - 1 < AESDCHAR_MAX_WRITE_OPERATIONS_SUPPORTED
                          THEN b.out_offs + k - 1
                          ELSE b.out_offs + k - 1 - AESDCHAR_MAX_WRITE_OPERATIONS_SUPPORTED
      OBVIOUS
    <2> DEFINE x == b.out_offs + k - 1
    <2>1. x \in 0 .. 2 * AESDCHAR_MAX_WRITE_OPERATIONS_SUPPORTED - 1
      BY SlotsAssumption DEF BufferType, Slots
    <2>2. AESDCHAR_MAX_WRITE_OPERATIONS_SUPPORTED \in Nat \ {0}
      BY SlotsAssumption
    <2> HIDE DEF x
    <2>3. x % AESDCHAR_MAX_WRITE_OPERATIONS_SUPPORTED =
            IF x < AESDCHAR_MAX_WRITE_OPERATIONS_SUPPORTED
            THEN x ELSE x - AESDCHAR_MAX_WRITE_OPERATIONS_SUPPORTED
      BY <2>1, <2>2, ModWraps
    <2>4. SlotOf(b, k) = x % AESDCHAR_MAX_WRITE_OPERATIONS_SUPPORTED
      BY Zenon DEF SlotOf, x
    <2>5. x - AESDCHAR_MAX_WRITE_OPERATIONS_SUPPORTED =
            b.out_offs + k - 1 - AESDCHAR_MAX_WRITE_OPERATIONS_SUPPORTED
      BY SlotsAssumption DEF x, BufferType, Slots
    <2> QED BY <2>3, <2>4, <2>5, Zenon DEF x
  <1> QED BY <1>1, <1>2 DEF Logical

\* A reachable buffer stands for a sequence of added entries.
LEMMA LogicalIsSeq ==
  ASSUME IInv
  PROVE  /\ Logical(buffer) \in Seq(Entries)
         /\ Len(Logical(buffer)) = IF buffer.full
                                   THEN AESDCHAR_MAX_WRITE_OPERATIONS_SUPPORTED
                                   ELSE buffer.in_offs
  <1>0. buffer \in BufferType
    BY DEF IInv, TypeOK, BufferType
  <1>1. CASE buffer.full
    <2>1. \A i \in Slots : buffer.entry[i] \in Entries
      BY <1>1 DEF IInv, RingShape
    <2> DEFINE slot(k) == IF buffer.out_offs + k - 1 < AESDCHAR_MAX_WRITE_OPERATIONS_SUPPORTED
                          THEN buffer.out_offs + k - 1
                          ELSE buffer.out_offs + k - 1 - AESDCHAR_MAX_WRITE_OPERATIONS_SUPPORTED
    <2>2. \A k \in 1 .. AESDCHAR_MAX_WRITE_OPERATIONS_SUPPORTED : slot(k) \in Slots
      BY <1>0, SlotsAssumption DEF Slots, BufferType
    <2>3. Logical(buffer) =
            [k \in 1 .. AESDCHAR_MAX_WRITE_OPERATIONS_SUPPORTED |-> buffer.entry[slot(k)]]
      BY <1>0, <1>1, LogicalOfFull
    <2> HIDE DEF slot
    <2>4. \A k \in 1 .. AESDCHAR_MAX_WRITE_OPERATIONS_SUPPORTED :
            buffer.entry[slot(k)] \in Entries
      BY <2>1, <2>2
    <2> QED BY <1>1, <2>3, <2>4, SlotsAssumption
  <1>2. CASE ~buffer.full
    <2>1. Logical(buffer) = [k \in 1 .. buffer.in_offs |-> buffer.entry[k - 1]]
      BY <1>0, <1>2, LogicalOfPartial DEF IInv, RingShape
    <2>2. \A k \in 1 .. buffer.in_offs : buffer.entry[k - 1] \in Entries
      BY <1>0, <1>2, SlotsAssumption DEF IInv, RingShape, BufferType, Slots
    <2> QED BY <1>0, <1>2, <2>1, <2>2, SlotsAssumption DEF BufferType, Slots
  <1> QED BY <1>1, <1>2

\* A sequence that extends s by e is Append(s, e).
LEMMA AppendIs ==
  ASSUME NEW s \in Seq(Entries), NEW e \in Entries
  PROVE  Append(s, e) = [k \in 1 .. Len(s) + 1 |-> IF k <= Len(s) THEN s[k] ELSE e]
  <1> DEFINE t == [k \in 1 .. Len(s) + 1 |-> IF k <= Len(s) THEN s[k] ELSE e]
  <1>1. /\ Append(s, e) \in Seq(Entries)
        /\ Len(Append(s, e)) = Len(s) + 1
        /\ \A k \in 1 .. Len(s) + 1 : Append(s, e)[k] = IF k <= Len(s) THEN s[k] ELSE e
    BY AppendProperties
  <1>2. t \in Seq(Entries) /\ Len(t) = Len(s) + 1
    <2>1. Len(s) \in Nat /\ \A k \in 1 .. Len(s) : s[k] \in Entries
      OBVIOUS
    <2>2. t \in [1 .. Len(s) + 1 -> Entries]
      BY <2>1
    <2> QED BY <2>1, <2>2
  <1>3. \A k \in 1 .. Len(s) + 1 : t[k] = Append(s, e)[k]
    BY <1>1
  <1> HIDE DEF t
  <1>4. t = Append(s, e)
    BY <1>1, <1>2, <1>3, SeqEqual
  <1> QED BY <1>4 DEF t

\* One aesd_circular_buffer_add_entry is one Add of the abstract log.
LEMMA AddRefines ==
  ASSUME IInv, NEW e \in Entries, Add(e)
  PROVE  Recent!Add(e)
  <1> DEFINE N == AESDCHAR_MAX_WRITE_OPERATIONS_SUPPORTED
             log == Logical(buffer)
  <1>1. IInv'
    BY AddIInv
  <1>2. buffer \in BufferType /\ buffer' \in BufferType
    BY <1>1 DEF IInv, TypeOK, BufferType
  <1>3. log \in Seq(Entries) /\ Len(log) = IF buffer.full THEN N ELSE buffer.in_offs
    BY LogicalIsSeq
  <1>4. CASE ~buffer.full
    <2>1. log = [k \in 1 .. buffer.in_offs |-> buffer.entry[k - 1]]
      BY <1>2, <1>4, LogicalOfPartial DEF IInv, RingShape
    <2>2. removed' = NULL
      BY <1>4 DEF Add, aesd_circular_buffer_add_entry
    <2>3. /\ buffer'.out_offs = 0
          /\ buffer'.entry = [buffer.entry EXCEPT ![buffer.in_offs] = e]
      BY <1>2, <1>4, NextSlotWraps, SlotsAssumption
      DEF Add, aesd_circular_buffer_add_entry, IInv, RingShape, BufferType, Slots
    <2>4. Logical(buffer)' = [k \in 1 .. buffer.in_offs + 1 |-> buffer'.entry[k - 1]]
      <3>1. CASE buffer.in_offs + 1 = N
        <4>1. buffer'.full
          BY <1>4, <3>1, <1>2, <2>3, NextSlotWraps, SlotsAssumption
          DEF Add, aesd_circular_buffer_add_entry, IInv, RingShape, BufferType, Slots
        <4> QED BY <1>2, <2>3, <3>1, <4>1, LogicalOfFull, SlotsAssumption DEF BufferType, Slots
      <3>2. CASE buffer.in_offs + 1 # N
        <4>1. ~buffer'.full /\ buffer'.in_offs = buffer.in_offs + 1
          BY <1>4, <3>2, <1>2, <2>3, NextSlotWraps, SlotsAssumption
          DEF Add, aesd_circular_buffer_add_entry, IInv, RingShape, BufferType, Slots
        <4> QED BY <1>2, <2>3, <4>1, LogicalOfPartial
      <3> QED BY <3>1, <3>2
    <2>5. Logical(buffer)' = Append(log, e)
      <3>1. Logical(buffer)' = [k \in 1 .. buffer.in_offs + 1 |->
                                  IF k <= buffer.in_offs THEN buffer.entry[k - 1] ELSE e]
        BY <1>2, <2>3, <2>4, SlotsAssumption DEF BufferType, Slots
      <3>2. Append(log, e) = [k \in 1 .. Len(log) + 1 |-> IF k <= Len(log) THEN log[k] ELSE e]
        BY <1>3, AppendIs
      <3>3. Len(log) = buffer.in_offs /\ buffer.in_offs \in Nat
        BY <1>2, <1>3, <1>4, SlotsAssumption DEF BufferType, Slots
      <3> QED BY <2>1, <3>1, <3>2, <3>3
    <2>6. Len(log) < N
      BY <1>2, <1>3, <1>4, SlotsAssumption DEF BufferType, Slots
    <2> QED BY <2>2, <2>5, <2>6, Zenon DEF Recent!Add
  <1>5. CASE buffer.full
    <2> DEFINE slot(k) == IF buffer.out_offs + k - 1 < N
                          THEN buffer.out_offs + k - 1 ELSE buffer.out_offs + k - 1 - N
               out     == NextSlot(buffer.out_offs)
               next(k) == IF out + k - 1 < N THEN out + k - 1 ELSE out + k - 1 - N
    <2>1. log = [k \in 1 .. N |-> buffer.entry[slot(k)]]
      BY <1>2, <1>5, LogicalOfFull
    <2>2. /\ removed' = buffer.entry[buffer.out_offs].buffptr
          /\ buffer'.full
          /\ buffer'.out_offs = out
          /\ buffer'.entry = [buffer.entry EXCEPT ![buffer.out_offs] = e]
      BY <1>2, <1>5 DEF Add, aesd_circular_buffer_add_entry, IInv, RingShape, BufferType
    <2>3. Logical(buffer)' = [k \in 1 .. N |-> buffer'.entry[next(k)]]
      BY <1>2, <2>2, LogicalOfFull
    <2>4. /\ slot(1) = buffer.out_offs
          /\ next(N) = buffer.out_offs
          /\ \A k \in 1 .. N - 1 : /\ next(k) = slot(k + 1)
                                    /\ next(k) \in Slots \ {buffer.out_offs}
      <3>1. buffer.out_offs \in 0 .. N - 1 /\ N \in 1 .. 255
        BY <1>2, SlotsAssumption DEF BufferType, Slots
      <3>2. out = IF buffer.out_offs + 1 = N THEN 0 ELSE buffer.out_offs + 1
        BY <1>2, NextSlotWraps DEF BufferType
      <3> HIDE DEF out, N
      <3>3. CASE buffer.out_offs + 1 = N
        BY <3>1, <3>2, <3>3 DEF Slots, N
      <3>4. CASE buffer.out_offs + 1 # N
        BY <3>1, <3>2, <3>4 DEF Slots, N
      <3> QED BY <3>3, <3>4
    <2>5. Head(log).buffptr = removed'
      BY <1>3, <1>5, <2>1, <2>2, <2>4, SlotsAssumption
    <2>6. Logical(buffer)' = Append(Tail(log), e)
      <3> HIDE DEF slot, next, out
      <3>1. Logical(buffer)' = [k \in 1 .. N |-> IF k <= N - 1 THEN buffer.entry[slot(k + 1)] ELSE e]
        <4>1. \A k \in 1 .. N - 1 : buffer'.entry[next(k)] = buffer.entry[slot(k + 1)]
          BY <1>2, <2>2, <2>4 DEF BufferType
        <4>2. buffer'.entry[next(N)] = e
          BY <1>2, <2>2, <2>4 DEF BufferType
        <4>3. \A k \in 1 .. N : IF k <= N - 1 THEN k \in 1 .. N - 1 ELSE k = N
          BY SlotsAssumption
        <4> QED BY <2>3, <4>1, <4>2, <4>3
      <3>2. /\ Tail(log) \in Seq(Entries)
            /\ Len(Tail(log)) = N - 1
            /\ \A k \in 1 .. N - 1 : Tail(log)[k] = log[k + 1]
        <4> HIDE DEF log
        <4>1. log \in Seq(Entries) /\ Len(log) = N
          BY <1>3, <1>5
        <4>2. N # 0
          BY SlotsAssumption
        <4>3. log # <<>>
          BY <4>1, <4>2, EmptySeq, Zenon
        <4> HIDE DEF N
        <4> QED BY <4>1, <4>3, HeadTailProperties, Zenon
      <3>3. Append(Tail(log), e) =
              [k \in 1 .. N |-> IF k <= N - 1 THEN Tail(log)[k] ELSE e]
        <4>0. (N - 1) + 1 = N
          BY SlotsAssumption
        <4>1. Len(Tail(log)) + 1 = N
          BY <3>2, <4>0, Zenon
        <4>2. Append(Tail(log), e) =
                [k \in 1 .. Len(Tail(log)) + 1 |->
                   IF k <= Len(Tail(log)) THEN Tail(log)[k] ELSE e]
          BY <3>2, AppendIs, Zenon
        <4> QED BY <3>2, <4>1, <4>2, Zenon
      <3>4. \A k \in 1 .. N - 1 : log[k + 1] = buffer.entry[slot(k + 1)]
        BY <2>1, SlotsAssumption
      <3> QED BY <3>1, <3>2, <3>3, <3>4, SlotsAssumption
    <2>7. Len(log) = N
      BY <1>3, <1>5
    <2> QED BY <2>5, <2>6, <2>7, Zenon DEF Recent!Add
  <1> QED BY <1>4, <1>5

\* The buffer keeps the most recent entries, oldest first, and hands back
\* exactly the pointer of the entry that each aesd_circular_buffer_add_entry
\* overwrites, for every number of slots.
THEOREM KeepsRecentEntries == Spec => RecentEntriesSpec
  <1>1. Init => Recent!Init
    <2> SUFFICES ASSUME Init PROVE Recent!Init
      OBVIOUS
    <2>1. Logical(buffer) = <<>>
      <3>1. IInv
        BY InitIInv
      <3>2. ~buffer.full /\ buffer.in_offs = 0
        BY DEF Init, aesd_circular_buffer_init
      <3> QED BY <3>1, <3>2, LogicalIsSeq
    <2> QED BY <2>1 DEF Init, Recent!Init
  <1>2. IInv /\ [Next]_vars => [Recent!Next]_(Recent!vars)
    <2> SUFFICES ASSUME IInv, [Next]_vars PROVE [Recent!Next]_(Recent!vars)
      OBVIOUS
    <2>1. CASE Next
      BY <2>1, AddRefines DEF Next, Recent!Next
    <2>2. CASE UNCHANGED vars
      BY <2>2 DEF vars, Recent!vars
    <2> QED BY <2>1, <2>2
  <1> QED BY <1>1, <1>2, Invariance, PTL DEF Spec, RecentEntriesSpec, Recent!Spec

=============================================================================
