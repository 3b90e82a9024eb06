--------------------------- MODULE AesdCharProofs ---------------------------
(***************************************************************************)
(* Proofs about the driver, for every number of threads, slots and blocks, *)
(* and every set of calls.                                                 *)
(***************************************************************************)
EXTENDS AesdChar, TLAPS

-----------------------------------------------------------------------------
(* The inductive invariant.                                                *)

Copying == {"copy_to_user", "copy_from_user"}

BufferType ==
  [entry : [Slots -> EntryType], in_offs : Slots, out_offs : Slots, full : BOOLEAN]

\* Types of what the proofs speak of; positions are not among it.
Types ==
  /\ mod \in {"live", "unloaded"}
  /\ buffer \in BufferType
  /\ current_write_entry \in EntryType
  /\ lock \in Threads \cup {NULL}
  /\ mem \in [Blocks -> Seq(Char) \cup {FREE}]
  /\ pc \in [Threads -> {"closed", "open", "entered"} \cup Copying]
  /\ call \in [Threads -> Calls \cup {NoCall}]
  /\ DOMAIN loc = Threads

\* A file is only open while the module is loaded, and a handler runs for a call.
Control ==
  \A t \in Threads :
    /\ pc[t] # "closed" => mod = "live"
    /\ pc[t] \in {"entered"} \cup Copying => call[t] \in Calls
    /\ pc[t] = "copy_from_user" => call[t].op = "write"

\* The slots in use are those the offsets and the full flag say.
Ring ==
  /\ ~buffer.full =>
       /\ buffer.out_offs = 0
       /\ \A i \in Slots : buffer.entry[i].buffptr # NULL <=> i < buffer.in_offs
  /\ buffer.full =>
       /\ buffer.in_offs = buffer.out_offs
       /\ \A i \in Slots : buffer.entry[i].buffptr # NULL

\* What a copy in progress works on: an entry, or the pending command.
Copies ==
  \A t \in Threads :
    /\ pc[t] = "copy_to_user" =>
         \E i \in Slots : buffer.entry[i].buffptr = loc[t].buffptr
    /\ pc[t] = "copy_from_user" =>
         /\ loc[t].buffptr = current_write_entry.buffptr
         /\ loc[t].buffptr # NULL
         /\ loc[t].offset = current_write_entry.size
         /\ loc[t].count = Len(call[t].buf)
         /\ loc[t].buffptr \in Blocks =>
              /\ mem[loc[t].buffptr] # FREE
              /\ Len(mem[loc[t].buffptr]) = loc[t].offset + loc[t].count
         /\ loc[t].buffptr \notin Blocks => loc[t].count = 0

IInv == Types /\ Control /\ Ring /\ LockInv /\ HeapSafe /\ Copies

-----------------------------------------------------------------------------
(* The initial state, and the steps that leave the device alone.           *)

\* The zeroed device of aesd_init_module and of the initial state.
LEMMA ZeroedDevice ==
  /\ aesd_circular_buffer_init \in BufferType
  /\ EmptyEntry \in EntryType
  BY SlotsAssumption
  DEF aesd_circular_buffer_init, BufferType, EntryType, EmptyEntry, Slots, Pointer

LEMMA InitIInv == Init => IInv
  <1> SUFFICES ASSUME Init PROVE IInv
    OBVIOUS
  <1>1. Types
    BY ZeroedDevice DEF Init, Types, Copying
  <1>2. Control /\ LockInv /\ HeapSafe /\ Copies
    BY DriverAssumption DEF Init, Control, LockInv, HeapSafe, Copies, Copying
  <1>3. Ring
    BY SlotsAssumption DEF Init, Ring, aesd_circular_buffer_init, EmptyEntry, Slots
  <1> QED BY <1>1, <1>2, <1>3 DEF IInv

\* A step of one thread outside the critical section keeps the invariant.
LEMMA OutsideIInv ==
  ASSUME IInv, NEW t \in Threads, NEW s \in {"closed", "open", "entered"},
         pc[t] \notin Copying,
         pc' = [pc EXCEPT ![t] = s],
         s # "closed" => mod = "live",
         call' \in [Threads -> Calls \cup {NoCall}],
         s = "entered" => call'[t] \in Calls,
         DOMAIN loc' = Threads,
         \A u \in Threads \ {t} : call'[u] = call[u] /\ loc'[u] = loc[u],
         UNCHANGED <<mod, device>>
  PROVE  IInv'
  <1> USE DEF IInv, device
  <1>1. Types'
    BY DEF Types, Copying
  <1>2. \A u \in Threads : pc'[u] = IF u = t THEN s ELSE pc[u]
    BY DEF Types
  <1>3. Control'
    BY <1>2 DEF Control, Copying
  <1>4. Ring' /\ HeapSafe'
    BY <1>2 DEF Ring, HeapSafe, Copying
  <1>5. LockInv'
    BY <1>2 DEF LockInv, Copying
  <1>6. Copies'
    BY <1>2 DEF Copies, Copying
  <1> QED BY <1>1, <1>3, <1>4, <1>5, <1>6

\* A handler that returns without having taken the lock, or having released it
\* in the same step, keeps the invariant.
LEMMA ReturnIInv ==
  ASSUME IInv, NEW t \in Threads, NEW val, NEW data,
         pc[t] = "entered", Return(t, val, data), UNCHANGED <<mod, device>>
  PROVE  IInv'
  <1>1. mod = "live"
    BY DEF IInv, Control
  <1>2. call' \in [Threads -> Calls \cup {NoCall}] /\ DOMAIN loc' = Threads
    BY DEF IInv, Types, Return
  <1>3. \A u \in Threads \ {t} : call'[u] = call[u] /\ loc'[u] = loc[u]
    BY DEF IInv, Types, Return
  <1> QED BY <1>1, <1>2, <1>3, OutsideIInv DEF Return, Copying

\* Steps of a thread that touch neither the device nor the lock.
LEMMA QuietIInv ==
  ASSUME IInv, NEW t \in Threads,
         \/ \E c \in Calls : Enter(t, c)
         \/ Interrupted(t)
         \/ aesd_open(t) \/ aesd_release(t)
         \/ aesd_llseek(t) \/ aesd_ioctl_unlocked(t) \/ aesd_ioctl(t)
  PROVE  IInv'
  <1>1. ASSUME NEW c \in Calls, Enter(t, c) PROVE IInv'
    <2>1. mod = "live"
      BY <1>1 DEF IInv, Control, Enter
    <2>2. /\ call' \in [Threads -> Calls \cup {NoCall}] /\ call'[t] = c
          /\ \A u \in Threads \ {t} : call'[u] = call[u] /\ loc'[u] = loc[u]
          /\ DOMAIN loc' = Threads
      BY <1>1 DEF IInv, Types, Enter
    <2> QED BY <1>1, <2>1, <2>2, OutsideIInv DEF Enter, Copying
  <1>2. CASE Interrupted(t)
    BY <1>2, ReturnIInv DEF Interrupted
  <1>3. CASE aesd_open(t)
    <2>1. /\ call' \in [Threads -> Calls \cup {NoCall}]
          /\ \A u \in Threads \ {t} : call'[u] = call[u] /\ loc'[u] = loc[u]
          /\ DOMAIN loc' = Threads
      BY <1>3 DEF IInv, Types, aesd_open
    <2> QED BY <1>3, <2>1, OutsideIInv DEF aesd_open, Copying
  <1>4. CASE aesd_release(t)
    <2>1. /\ call' \in [Threads -> Calls \cup {NoCall}]
          /\ \A u \in Threads \ {t} : call'[u] = call[u] /\ loc'[u] = loc[u]
          /\ DOMAIN loc' = Threads
      BY <1>4 DEF IInv, Types, aesd_release
    <2> QED BY <1>4, <2>1, OutsideIInv DEF aesd_release, Copying
  <1>5. CASE aesd_llseek(t)
    BY <1>5, ReturnIInv DEF aesd_llseek, Locks
  <1>6. CASE aesd_ioctl_unlocked(t)
    BY <1>6, ReturnIInv DEF aesd_ioctl_unlocked
  <1>7. CASE aesd_ioctl(t)
    BY <1>7, ReturnIInv DEF aesd_ioctl, Locks
  <1> QED BY <1>1, <1>2, <1>3, <1>4, <1>5, <1>6, <1>7

-----------------------------------------------------------------------------
(* read                                                                    *)

\* The search returns a slot of the array, or NULL.
LEMMA FoundInSlots ==
  ASSUME NEW b, b.out_offs \in Slots, NEW char_offset
  PROVE  LET found == aesd_circular_buffer_find_entry_offset_for_fpos(b, char_offset)
         IN  found.entry # NULL => found.entry \in Slots
  <1> DEFINE index(k) == (b.out_offs + k) % AESDCHAR_MAX_WRITE_OPERATIONS_SUPPORTED
             running_size(k) == SizeOf(b, {index(j) : j \in 0 .. k - 1})
             hit(k) == char_offset < running_size(k) + b.entry[index(k)].size
             continues(k) == /\ index(k + 1) # b.in_offs \/ b.full
                             /\ index(k + 1) # b.out_offs
             returns == {k \in Slots : hit(k) /\ \A j \in 0 .. k - 1 : ~hit(j) /\ continues(j)}
             first == CHOOSE k \in returns : TRUE
  <1>1. \A k \in Slots : index(k) \in Slots
    BY SlotsAssumption DEF Slots
  <1>2. returns \subseteq Slots
    OBVIOUS
  <1>3. aesd_circular_buffer_find_entry_offset_for_fpos(b, char_offset) =
          IF returns = {} THEN NotFound
          ELSE [entry |-> index(first), entry_offset_byte |-> char_offset - running_size(first)]
    BY Zenon DEF aesd_circular_buffer_find_entry_offset_for_fpos
  <1> HIDE DEF returns, index, running_size
  <1>4. returns # {} => first \in returns
    BY Zenon
  <1> HIDE DEF first
  <1>5. returns # {} => index(first) \in Slots
    BY <1>1, <1>2, <1>4
  <1> QED BY <1>3, <1>5 DEF NotFound

LEMMA ReadIInv ==
  ASSUME IInv, NEW t \in Threads, aesd_read(t)
  PROVE  IInv'
  <1> DEFINE found == aesd_circular_buffer_find_entry_offset_for_fpos(buffer, f_pos[t])
             entry == buffer.entry[found.entry]
             copies == found.entry # NULL /\ found.entry_offset_byte < entry.size
  <1>1. CASE ~copies
    BY <1>1, ReturnIInv DEF aesd_read, Locks
  <1>2. CASE copies
    <2>1. found.entry \in Slots
      BY <1>2, FoundInSlots DEF IInv, Types, BufferType
    <2>2. \E i \in Slots : buffer.entry[i].buffptr = entry.buffptr
      BY <2>1
    <2>3. /\ pc' = [pc EXCEPT ![t] = "copy_to_user"]
          /\ lock = NULL /\ lock' = t
          /\ pc[t] = "entered"
          /\ loc'[t].buffptr = entry.buffptr
          /\ \A u \in Threads \ {t} : loc'[u] = loc[u]
          /\ DOMAIN loc' = Threads
          /\ UNCHANGED <<mod, buffer, current_write_entry, mem, call>>
      <3>1. /\ pc' = [pc EXCEPT ![t] = "copy_to_user"]
            /\ lock = NULL /\ lock' = t /\ pc[t] = "entered"
            /\ loc' = [loc EXCEPT ![t] =
                 [buffptr |-> entry.buffptr,
                  offset  |-> found.entry_offset_byte,
                  count   |-> Min({call[t].count, entry.size - found.entry_offset_byte})]]
            /\ UNCHANGED <<mod, buffer, current_write_entry, mem, call>>
        BY <1>2, Zenon DEF aesd_read, Locks
      <3>2. DOMAIN loc = Threads
        BY DEF IInv, Types
      <3> HIDE DEF entry, copies, found
      <3> QED BY <3>1, <3>2
    <2> HIDE DEF entry, copies, found
    <2>4. \A u \in Threads : pc'[u] = IF u = t THEN "copy_to_user" ELSE pc[u]
      BY <2>3 DEF IInv, Types
    <2>5. Types'
      BY <2>3 DEF IInv, Types, Copying
    <2>6. Control'
      BY <2>3, <2>4 DEF IInv, Control, Copying
    <2>7. Ring'
      BY <2>3 DEF IInv, Ring
    <2>8. LockInv'
      BY <2>3, <2>4, DriverAssumption DEF IInv, LockInv
    <2>9. HeapSafe'
      BY <2>3, <2>4, DriverAssumption DEF IInv, HeapSafe
    <2>10. Copies'
      BY <2>2, <2>3, <2>4 DEF IInv, Copies
    <2> QED BY <2>5, <2>6, <2>7, <2>8, <2>9, <2>10 DEF IInv
  <1> QED BY <1>1, <1>2

LEMMA CopyToUserIInv ==
  ASSUME IInv, NEW t \in Threads, copy_to_user(t)
  PROVE  IInv'
  <1>1. /\ pc' = [pc EXCEPT ![t] = "open"]
        /\ lock = t /\ lock' = NULL
        /\ pc[t] = "copy_to_user"
        /\ call' = [call EXCEPT ![t] = NoCall]
        /\ \A u \in Threads \ {t} : loc'[u] = loc[u] /\ call'[u] = call[u]
        /\ DOMAIN loc' = Threads
        /\ UNCHANGED <<mod, buffer, current_write_entry, mem>>
    BY DEF copy_to_user, Return, IInv, Types, LockInv
  <1>2. \A u \in Threads : pc'[u] = IF u = t THEN "open" ELSE pc[u]
    BY <1>1 DEF IInv, Types
  <1>3. \A u \in Threads \ {t} : pc[u] \notin Copying
    BY <1>1 DEF IInv, LockInv, Copying
  <1>4. Types'
    BY <1>1 DEF IInv, Types, Copying
  <1>5. Control'
    BY <1>1, <1>2 DEF IInv, Control, Copying
  <1>6. Ring'
    BY <1>1 DEF IInv, Ring
  <1>7. LockInv'
    BY <1>1, <1>2, <1>3, DriverAssumption DEF LockInv, Copying
  <1>8. HeapSafe'
    BY <1>1, <1>2 DEF IInv, HeapSafe
  <1>9. Copies'
    BY <1>2, <1>3 DEF Copies, Copying
  <1> QED BY <1>4, <1>5, <1>6, <1>7, <1>8, <1>9 DEF IInv

-----------------------------------------------------------------------------
(* write                                                                   *)

\* The argument of a write is a sequence of bytes.
LEMMA WriteBuf ==
  ASSUME NEW c \in Calls, c.op = "write"
  PROVE  c.buf \in Seq(Char)
  BY DriverAssumption DEF WriteCalls, ReadCalls, SeekCalls, IoctlCalls

\* What an allocation for the pending command does to the memory: it only
\* touches the pending block and the one it returns, which was free or is the
\* pending block itself.
LEMMA AllocatesPending ==
  ASSUME IInv, NEW t \in Threads, NEW ptr \in Pointer, lock = NULL,
         NEW count \in Nat,
         IF current_write_entry.buffptr = NULL THEN kzalloc(count, ptr, mem')
         ELSE krealloc(current_write_entry.buffptr, current_write_entry.size + count, ptr, mem'),
         mod = "live"
  PROVE  /\ ptr = NULL => mem' = mem
         /\ ptr # NULL =>
              /\ mem' \in [Blocks -> Seq(Char) \cup {FREE}]
              /\ \A b \in Blocks \ {ptr, current_write_entry.buffptr} : mem'[b] = mem[b]
              /\ \A b \in Blocks \ {ptr} : b = current_write_entry.buffptr => mem'[b] = FREE
              /\ ptr \in Blocks =>
                   /\ mem[ptr] = FREE \/ ptr = current_write_entry.buffptr
                   /\ mem'[ptr] # FREE
                   /\ Len(mem'[ptr]) = current_write_entry.size + count
              /\ ptr \notin Blocks => current_write_entry.size + count = 0
  <1> DEFINE old == current_write_entry.buffptr
             size == current_write_entry.size
             n == size + count
  <1>1. /\ mem \in [Blocks -> Seq(Char) \cup {FREE}]
        /\ old \in Pointer /\ size \in Nat /\ n \in Nat
        /\ old \notin Blocks => size = 0
        /\ old \in Blocks => mem[old] # FREE
    BY DEF IInv, Types, HeapSafe, EntryType
  <1>2. CASE old = NULL
    <2> DEFINE zeros == [i \in 1 .. count |-> ZERO]
    <2>1. zeros \in Seq(Char) /\ Len(zeros) = count
      BY DriverAssumption
    <2>2. Allocated(count, zeros, mem, ptr, mem')
      BY <1>2 DEF kzalloc
    <2>3. size = 0 /\ n = count
      BY <1>1, <1>2, DriverAssumption
    <2> HIDE DEF zeros
    <2> QED BY <1>1, <1>2, <2>1, <2>2, <2>3, DriverAssumption DEF Allocated, Pointer
  <1>3. CASE old # NULL
    <2> DEFINE content == [i \in 1 .. n |-> IF i <= Len(Bytes(old)) THEN Bytes(old)[i] ELSE ZERO]
               freed == kfree(old, mem)
    <2>1. Bytes(old) \in Seq(Char)
      BY <1>1, <1>3 DEF Bytes, Pointer
    <2>2. content \in Seq(Char) /\ Len(content) = n
      <3> HIDE DEF old, n
      <3>1. ASSUME NEW i \in 1 .. n, i <= Len(Bytes(old))
            PROVE  Bytes(old)[i] \in Char
        <4>1. Len(Bytes(old)) \in Nat
          BY <2>1
        <4>2. i \in 1 .. Len(Bytes(old))
          BY <1>1, <3>1, <4>1
        <4> QED BY <2>1, <4>2
      <3>2. ZERO \in Char
        BY DriverAssumption
      <3>3. content \in [1 .. n -> Char]
        BY <3>1, <3>2
      <3> HIDE DEF content
      <3> QED BY <1>1, <3>3
    <2>3. \/ ptr = NULL /\ mem' = mem
          \/ ptr # NULL /\ Allocated(n, content, freed, ptr, mem')
      BY <1>3 DEF krealloc
    <2>4. /\ freed \in [Blocks -> Seq(Char) \cup {FREE}]
          /\ \A b \in Blocks : freed[b] = IF b = old THEN FREE ELSE mem[b]
      BY <1>1 DEF kfree
    <2> HIDE DEF content, freed, n
    <2>5. CASE ptr # NULL
      BY <1>1, <2>2, <2>3, <2>4, <2>5, DriverAssumption DEF Allocated, Pointer, n
    <2> QED BY <2>3, <2>5
  <1> QED BY <1>2, <1>3

LEMMA WriteIInv ==
  ASSUME IInv, NEW t \in Threads, aesd_write(t)
  PROVE  IInv'
  <1> DEFINE count  == Len(call[t].buf)
             fresh  == current_write_entry.buffptr = NULL
             offset == IF fresh THEN 0 ELSE current_write_entry.size
  <1>1. /\ pc[t] = "entered" /\ call[t] \in Calls /\ call[t].op = "write"
        /\ lock = NULL /\ mod = "live"
    BY DEF aesd_write, Locks, IInv, Control
  <1>2. count \in Nat
    BY <1>1, WriteBuf
  <1>3. offset = current_write_entry.size /\ offset \in Nat
    BY <1>1, DriverAssumption DEF IInv, Types, EntryType, HeapSafe
  <1>4. PICK ptr \in Pointer :
          /\ IF fresh THEN kzalloc(count, ptr, mem')
             ELSE krealloc(current_write_entry.buffptr, offset + count, ptr, mem')
          /\ \/ /\ ptr = NULL
                /\ Return(t, -ENOMEM, <<>>)
                /\ UNCHANGED <<current_write_entry, lock>>
             \/ /\ ptr # NULL
                /\ current_write_entry' = [current_write_entry EXCEPT !.buffptr = ptr]
                /\ loc' = [loc EXCEPT ![t] =
                     [buffptr |-> ptr, offset |-> offset, count |-> count]]
                /\ lock' = t
                /\ pc' = [pc EXCEPT ![t] = "copy_from_user"]
                /\ UNCHANGED <<call, ret>>
    BY DEF aesd_write, Pointer
  <1> HIDE DEF count, offset
  <1>5. IF fresh THEN kzalloc(count, ptr, mem')
        ELSE krealloc(current_write_entry.buffptr, current_write_entry.size + count, ptr, mem')
    BY <1>3, <1>4
  <1>6. UNCHANGED <<mod, buffer>>
    BY DEF aesd_write
  <1> HIDE DEF fresh
  <1>7. CASE ptr = NULL
    <2>1. mem' = mem
      BY <1>1, <1>2, <1>5, <1>7, AllocatesPending DEF fresh
    <2> QED BY <1>1, <1>4, <1>6, <1>7, <2>1, ReturnIInv DEF device
  <1>8. CASE ptr # NULL
    <2>1. /\ mem' \in [Blocks -> Seq(Char) \cup {FREE}]
          /\ \A b \in Blocks \ {ptr, current_write_entry.buffptr} : mem'[b] = mem[b]
          /\ ptr \in Blocks =>
               /\ mem[ptr] = FREE \/ ptr = current_write_entry.buffptr
               /\ mem'[ptr] # FREE
               /\ Len(mem'[ptr]) = current_write_entry.size + count
          /\ ptr \notin Blocks => current_write_entry.size + count = 0
      BY <1>1, <1>2, <1>5, <1>8, AllocatesPending DEF fresh
    <2>2. /\ current_write_entry' = [current_write_entry EXCEPT !.buffptr = ptr]
          /\ lock' = t /\ call' = call
          /\ pc' = [pc EXCEPT ![t] = "copy_from_user"]
          /\ DOMAIN loc' = Threads
          /\ loc'[t] = [buffptr |-> ptr, offset |-> offset, count |-> count]
      BY <1>4, <1>8 DEF IInv, Types
    <2>3. \A u \in Threads : pc'[u] = IF u = t THEN "copy_from_user" ELSE pc[u]
      BY <2>2 DEF IInv, Types
    <2>4. \A u \in Threads : pc[u] \notin Copying
      BY <1>1, DriverAssumption DEF IInv, LockInv, Copying
    <2>5. /\ current_write_entry'.buffptr = ptr
          /\ current_write_entry'.size = current_write_entry.size
      BY <2>2 DEF IInv, Types, EntryType
    <2>6. Types'
      BY <1>6, <2>1, <2>2 DEF IInv, Types, Copying, EntryType
    <2>7. Control'
      BY <1>1, <1>6, <2>2, <2>3 DEF IInv, Control, Copying
    <2>8. Ring'
      BY <1>6 DEF IInv, Ring
    <2>9. LockInv'
      BY <2>2, <2>3, <2>4, DriverAssumption DEF LockInv, Copying
    <2>10. HeapSafe'
      <3>1. ASSUME NEW i \in Slots, buffer.entry[i].buffptr # NULL
            PROVE  LET b == buffer.entry[i].buffptr
                   IN  b \in Blocks /\ b # ptr /\ mem'[b] = mem[b] /\ mem[b] # FREE
        BY <1>1, <2>1, <3>1 DEF IInv, HeapSafe
      <3>2. ptr \notin Blocks => current_write_entry.size = 0
        BY <1>2, <1>3, <2>1
      <3> QED BY <1>1, <1>6, <2>1, <2>3, <2>5, <3>1, <3>2 DEF IInv, HeapSafe
    <2>11. Copies'
      BY <1>2, <1>3, <1>8, <2>1, <2>2, <2>3, <2>4, <2>5 DEF Copies, Copying, count
    <2> QED BY <2>6, <2>7, <2>8, <2>9, <2>10, <2>11 DEF IInv
  <1> QED BY <1>7, <1>8

\* The slot after index is the next one, or the first after the last.
LEMMA NextSlotWraps ==
  \A index \in Slots :
    /\ NextSlot(index) \in Slots
    /\ NextSlot(index) = IF index + 1 = AESDCHAR_MAX_WRITE_OPERATIONS_SUPPORTED
                         THEN 0 ELSE index + 1
  BY SlotsAssumption DEF Slots, NextSlot

\* What aesd_circular_buffer_add_entry does to a well-formed buffer: it stays
\* one, only the slot at in_offs changes, and what was in it is handed back.
LEMMA AddEntry ==
  ASSUME buffer \in BufferType, Ring, NEW e \in EntryType, e.buffptr # NULL,
         buffer' = aesd_circular_buffer_add_entry(buffer, e).buffer
  PROVE  /\ buffer' \in BufferType /\ Ring'
         /\ \A i \in Slots :
              buffer'.entry[i] = IF i = buffer.in_offs THEN e ELSE buffer.entry[i]
         /\ aesd_circular_buffer_add_entry(buffer, e).removed =
              buffer.entry[buffer.in_offs].buffptr
  <1> DEFINE in_offs  == NextSlot(buffer.in_offs)
             out_offs == IF buffer.full THEN NextSlot(buffer.out_offs) ELSE buffer.out_offs
  <1>1. /\ buffer' = [entry    |-> [buffer.entry EXCEPT ![buffer.in_offs] = e],
                      in_offs  |-> in_offs,
                      out_offs |-> out_offs,
                      full     |-> buffer.full \/ in_offs = out_offs]
        /\ aesd_circular_buffer_add_entry(buffer, e).removed =
              IF buffer.full THEN buffer.entry[buffer.in_offs].buffptr ELSE NULL
    BY DEF aesd_circular_buffer_add_entry
  <1>2. in_offs \in Slots /\ out_offs \in Slots
    BY NextSlotWraps DEF BufferType
  <1>3. buffer' \in BufferType
    BY <1>1, <1>2 DEF BufferType
  <1>4. \A i \in Slots :
          buffer'.entry[i] = IF i = buffer.in_offs THEN e ELSE buffer.entry[i]
    BY <1>1 DEF BufferType
  <1>5. ~buffer.full => buffer.entry[buffer.in_offs].buffptr = NULL
    BY SlotsAssumption DEF Ring, BufferType, Slots
  <1>6. Ring'
    <2>0. /\ buffer'.in_offs = in_offs /\ buffer'.out_offs = out_offs
          /\ buffer'.full = (buffer.full \/ in_offs = out_offs)
      <3> HIDE DEF in_offs, out_offs
      <3> QED BY <1>1
    <2>1. CASE buffer.full
      <3>1. in_offs = out_offs
        BY <2>1 DEF Ring
      <3>2. \A i \in Slots : buffer'.entry[i].buffptr # NULL
        BY <1>4, <2>1 DEF Ring
      <3> HIDE DEF in_offs, out_offs
      <3> QED BY <2>0, <2>1, <3>1, <3>2 DEF Ring
    <2>2. CASE ~buffer.full /\ buffer.in_offs + 1 = AESDCHAR_MAX_WRITE_OPERATIONS_SUPPORTED
      <3>1. in_offs = 0 /\ out_offs = 0
        BY <2>2, NextSlotWraps DEF Ring, BufferType
      <3>2. buffer'.full /\ buffer'.in_offs = buffer'.out_offs
        BY <2>0, <3>1, Zenon
      <3>3. \A i \in Slots : buffer'.entry[i].buffptr # NULL
        BY <1>4, <2>2, SlotsAssumption DEF Ring, BufferType, Slots
      <3> QED BY <3>2, <3>3 DEF Ring
    <2>3. CASE ~buffer.full /\ buffer.in_offs + 1 # AESDCHAR_MAX_WRITE_OPERATIONS_SUPPORTED
      <3>1. in_offs = buffer.in_offs + 1 /\ out_offs = 0
        BY <2>3, NextSlotWraps DEF Ring, BufferType
      <3>2. ~buffer'.full /\ buffer'.out_offs = 0 /\ buffer'.in_offs = buffer.in_offs + 1
        BY <1>1, <2>3, <3>1, SlotsAssumption DEF BufferType, Slots
      <3>3. \A i \in Slots : buffer'.entry[i].buffptr # NULL <=> i < buffer.in_offs + 1
        BY <1>4, <2>3, SlotsAssumption DEF Ring, BufferType, Slots
      <3> QED BY <3>2, <3>3 DEF Ring
    <2> QED BY <2>1, <2>2, <2>3
  <1> QED BY <1>1, <1>3, <1>4, <1>5, <1>6

LEMMA CopyFromUserIInv ==
  ASSUME IInv, NEW t \in Threads, copy_from_user(t)
  PROVE  IInv'
  <1> DEFINE P     == loc[t].buffptr
             off   == loc[t].offset
             count == loc[t].count
             size  == off + count
             bytes == [i \in 1 .. off + count |->
                         IF i <= off THEN Bytes(P)[i] ELSE call[t].buf[i - off]]
             entry == [buffptr |-> P, size |-> size]
             stored == IF P \in Blocks THEN [mem EXCEPT ![P] = bytes] ELSE mem
             added == aesd_circular_buffer_add_entry(buffer, entry)
  <1>1. /\ pc[t] = "copy_from_user" /\ call[t] \in Calls /\ call[t].op = "write"
        /\ lock = t /\ mod = "live"
    BY DEF copy_from_user, IInv, Control, Copying, LockInv
  <1>2. /\ P = current_write_entry.buffptr /\ P \in Pointer /\ P # NULL
        /\ off = current_write_entry.size /\ off \in Nat
        /\ count = Len(call[t].buf) /\ count \in Nat
        /\ P \in Blocks => mem[P] # FREE /\ Len(mem[P]) = size
        /\ P \notin Blocks => size = 0
    <2>1. /\ P = current_write_entry.buffptr /\ P # NULL
          /\ off = current_write_entry.size /\ count = Len(call[t].buf)
          /\ P \in Blocks => mem[P] # FREE /\ Len(mem[P]) = off + count
          /\ P \notin Blocks => count = 0
      BY <1>1, Zenon DEF IInv, Copies
    <2>2. current_write_entry.buffptr \in Pointer /\ current_write_entry.size \in Nat
      BY DEF IInv, Types, EntryType
    <2>3. Len(call[t].buf) \in Nat
      BY <1>1, WriteBuf
    <2>4. current_write_entry.buffptr \notin Blocks => current_write_entry.size = 0
      BY <1>1, Zenon DEF IInv, HeapSafe
    <2> HIDE DEF P, off, count
    <2> QED BY <2>1, <2>2, <2>3, <2>4
  <1>3. bytes \in Seq(Char) /\ Len(bytes) = size
    <2>1. Bytes(P) \in Seq(Char) /\ Len(Bytes(P)) = size
      BY <1>2, DriverAssumption DEF Bytes, Pointer, IInv, Types
    <2>2. call[t].buf \in Seq(Char)
      BY <1>1, WriteBuf
    <2> HIDE DEF P, off, count
    <2>3. \A i \in 1 .. off + count :
            /\ i <= off => Bytes(P)[i] \in Char
            /\ ~(i <= off) => call[t].buf[i - off] \in Char
      <3> TAKE i \in 1 .. off + count
      <3>1. ASSUME i <= off PROVE Bytes(P)[i] \in Char
        <4>1. i \in 1 .. Len(Bytes(P))
          BY <1>2, <2>1, <3>1
        <4> QED BY <2>1, <4>1
      <3>2. ASSUME ~(i <= off) PROVE call[t].buf[i - off] \in Char
        <4>1. i - off \in 1 .. Len(call[t].buf)
          BY <1>2, <3>2
        <4> QED BY <2>2, <4>1
      <3> QED BY <3>1, <3>2
    <2>4. bytes \in [1 .. off + count -> Char]
      BY <2>3
    <2> HIDE DEF bytes
    <2> QED BY <1>2, <2>4
  <1>4. /\ stored \in [Blocks -> Seq(Char) \cup {FREE}]
        /\ \A b \in Blocks : stored[b] = IF b = P THEN bytes ELSE mem[b]
    BY <1>3 DEF IInv, Types
  <1>5. /\ pc' = [pc EXCEPT ![t] = "open"]
        /\ lock' = NULL /\ mod' = mod
        /\ call' = [call EXCEPT ![t] = NoCall]
        /\ DOMAIN loc' = Threads
    BY ZenonT(30) DEF copy_from_user, commit, Return, IInv, Types
  <1>6. \/ /\ HasNewline(bytes, size)
           /\ buffer' = added.buffer
           /\ mem' = kfree(added.removed, stored)
           /\ current_write_entry' = EmptyEntry
        \/ /\ ~HasNewline(bytes, size)
           /\ mem' = stored
           /\ current_write_entry' = entry
           /\ UNCHANGED buffer
        \/ /\ mem' = kfree(P, mem)
           /\ current_write_entry' = EmptyEntry
           /\ UNCHANGED buffer
    BY ZenonT(30) DEF copy_from_user, commit
  <1>7. FREE \notin Seq(Char) /\ NULL \notin Blocks /\ EmptyEntry \in EntryType
    BY DriverAssumption, ZeroedDevice
  <1> HIDE DEF bytes, stored, added, P, off, count
  <1>8. \A u \in Threads : pc'[u] = IF u = t THEN "open" ELSE pc[u]
    BY <1>5 DEF IInv, Types
  <1>9. \A u \in Threads : pc'[u] \notin Copying
    BY <1>1, <1>8 DEF IInv, LockInv, Copying
  <1>Heap. \A i \in Slots : buffer.entry[i].buffptr # NULL =>
             /\ buffer.entry[i].buffptr \in Blocks /\ buffer.entry[i].buffptr # P
             /\ mem[buffer.entry[i].buffptr] # FREE
             /\ Len(mem[buffer.entry[i].buffptr]) = buffer.entry[i].size
             /\ \A j \in Slots \ {i} : buffer.entry[j].buffptr # buffer.entry[i].buffptr
    BY <1>1, <1>2, Zenon DEF IInv, HeapSafe
  <1>Rest. /\ mod' \in {"live", "unloaded"}
           /\ lock' \in Threads \cup {NULL}
           /\ pc' \in [Threads -> {"closed", "open", "entered"} \cup Copying]
           /\ call' \in [Threads -> Calls \cup {NoCall}]
           /\ DOMAIN loc' = Threads
    BY <1>5 DEF IInv, Types
  <1>10. /\ Control' /\ LockInv' /\ Copies'
    <2>1. Control'
      BY <1>1, <1>5, <1>8, <1>9 DEF IInv, Control, Copying, Types
    <2>2. LockInv'
      BY <1>5, <1>9, DriverAssumption DEF LockInv, Copying
    <2>3. Copies'
      BY <1>9 DEF Copies, Copying
    <2> QED BY <2>1, <2>2, <2>3
  <1>11. entry \in EntryType
    BY <1>2 DEF EntryType
  <1>12. CASE HasNewline(bytes, size) /\ buffer' = added.buffer
              /\ mem' = kfree(added.removed, stored) /\ current_write_entry' = EmptyEntry
    <2>1. P \in Blocks
      BY <1>2, <1>12 DEF HasNewline
    <2>2. /\ buffer' \in BufferType /\ Ring'
          /\ \A i \in Slots : buffer'.entry[i] = IF i = buffer.in_offs THEN entry ELSE buffer.entry[i]
          /\ added.removed = buffer.entry[buffer.in_offs].buffptr
      BY <1>2, <1>11, <1>12, AddEntry DEF IInv, Types, added
    <2>3. buffer.in_offs \in Slots
      BY DEF IInv, Types, BufferType
    <2> DEFINE R == buffer.entry[buffer.in_offs].buffptr
    <2>4. R # P
      BY <1>2, <1>Heap, <2>3, Zenon
    <2>5. /\ mem' \in [Blocks -> Seq(Char) \cup {FREE}]
          /\ \A b \in Blocks : mem'[b] = IF b = R THEN FREE ELSE stored[b]
      <3>1. mem' = IF R \in Blocks THEN [stored EXCEPT ![R] = FREE] ELSE stored
        BY <1>12, <2>2 DEF kfree
      <3> QED BY <1>4, <3>1
    <2>6. Types'
      BY <1>7, <1>Rest, <1>12, <2>2, <2>5, Zenon DEF Types
    <2>7. HeapSafe'
      <3>1. mem'[P] = bytes
        BY <1>4, <2>1, <2>4, <2>5
      <3>2. ASSUME NEW i \in Slots \ {buffer.in_offs}, buffer.entry[i].buffptr # NULL
            PROVE  LET b == buffer.entry[i].buffptr
                   IN  /\ b \in Blocks /\ b # P /\ b # R
                       /\ mem'[b] = mem[b] /\ mem[b] # FREE /\ Len(mem[b]) = buffer.entry[i].size
        <4>1. LET b == buffer.entry[i].buffptr
              IN  /\ b \in Blocks /\ b # P /\ b # R
                  /\ mem[b] # FREE /\ Len(mem[b]) = buffer.entry[i].size
          <5>1. i \in Slots /\ buffer.in_offs \in Slots \ {i}
            BY <2>3
          <5> QED BY <1>Heap, <3>2, <5>1, Zenon
        <4> QED BY <1>4, <2>5, <4>1
      <3>3. ASSUME NEW i \in Slots, buffer'.entry[i].buffptr # NULL
            PROVE  LET e == buffer'.entry[i]
                   IN  /\ e.buffptr \in Blocks
                       /\ mem'[e.buffptr] # FREE
                       /\ Len(mem'[e.buffptr]) = e.size
                       /\ \A j \in Slots \ {i} : buffer'.entry[j].buffptr # e.buffptr
        <4>1. CASE i = buffer.in_offs
          <5>1. buffer'.entry[i] = entry
            BY <2>2, <4>1
          <5>2. mem'[P] # FREE /\ Len(mem'[P]) = size
            BY <1>3, <1>7, <3>1
          <5>3. ASSUME NEW j \in Slots \ {i} PROVE buffer'.entry[j].buffptr # P
            <6>1. buffer'.entry[j] = buffer.entry[j]
              BY <2>2, <4>1
            <6>2. buffer.entry[j].buffptr # NULL => buffer.entry[j].buffptr # P
              BY <3>2, <4>1, Zenon
            <6> QED BY <1>2, <6>1, <6>2
          <5> HIDE DEF size
          <5> QED BY <2>1, <5>1, <5>2, <5>3
        <4>2. CASE i # buffer.in_offs
          <5>1. \A j \in Slots \ {i} : buffer.entry[j].buffptr # buffer.entry[i].buffptr
            BY <1>1, <2>2, <3>3, <4>2 DEF IInv, HeapSafe
          <5> QED BY <2>2, <3>2, <3>3, <4>2, <5>1
        <4> QED BY <4>1, <4>2
      <3> QED BY <1>7, <1>12, <3>3, ZenonT(30) DEF HeapSafe, EmptyEntry
    <2> QED BY <1>10, <2>2, <2>6, <2>7 DEF IInv
  <1>13. CASE mem' = stored /\ current_write_entry' = entry /\ UNCHANGED buffer
    <2>1. Types'
      BY <1>4, <1>5, <1>11, <1>13 DEF IInv, Types, Copying
    <2>2. Ring'
      BY <1>13 DEF IInv, Ring
    <2>3. HeapSafe'
      <3>1. ASSUME NEW i \in Slots, buffer.entry[i].buffptr # NULL
            PROVE  LET b == buffer.entry[i].buffptr
                   IN  b \in Blocks /\ b # P /\ mem'[b] = mem[b]
        BY <1>1, <1>2, <1>4, <1>13, <3>1 DEF IInv, HeapSafe
      <3>2. P \in Blocks => mem'[P] = bytes /\ mem'[P] # FREE /\ Len(mem'[P]) = size
        BY <1>3, <1>4, <1>7, <1>13
      <3> QED BY <1>1, <1>2, <1>13, <3>1, <3>2, ZenonT(30) DEF IInv, HeapSafe
    <2> QED BY <1>10, <2>1, <2>2, <2>3 DEF IInv
  <1>14. CASE mem' = kfree(P, mem) /\ current_write_entry' = EmptyEntry /\ UNCHANGED buffer
    <2>1. /\ mem' \in [Blocks -> Seq(Char) \cup {FREE}]
          /\ \A b \in Blocks : mem'[b] = IF b = P THEN FREE ELSE mem[b]
      BY <1>14 DEF kfree, IInv, Types
    <2>2. Types'
      BY <1>5, <1>7, <1>14, <2>1 DEF IInv, Types, Copying
    <2>3. Ring'
      BY <1>14 DEF IInv, Ring
    <2>4. HeapSafe'
      <3>1. ASSUME NEW i \in Slots, buffer.entry[i].buffptr # NULL
            PROVE  LET b == buffer.entry[i].buffptr
                   IN  b \in Blocks /\ b # P /\ mem'[b] = mem[b]
        BY <1>1, <1>2, <2>1, <3>1 DEF IInv, HeapSafe
      <3> QED BY <1>1, <1>7, <1>14, <3>1, ZenonT(30) DEF IInv, HeapSafe, EmptyEntry
    <2> QED BY <1>10, <2>2, <2>3, <2>4 DEF IInv
  <1> QED BY <1>6, <1>12, <1>13, <1>14

-----------------------------------------------------------------------------
(* Loading and unloading, and the theorems.                                *)

LEMMA ModuleIInv ==
  ASSUME IInv, aesd_init_module \/ aesd_cleanup_module
  PROVE  IInv'
  <1>1. CASE aesd_init_module
    <2>1. \A t \in Threads : pc[t] = "closed"
      BY <1>1 DEF aesd_init_module, IInv, Control
    <2>2. Types'
      BY <1>1, ZeroedDevice DEF aesd_init_module, IInv, Types
    <2>3. Control' /\ LockInv' /\ Copies'
      BY <1>1, <2>1, DriverAssumption
      DEF aesd_init_module, Control, LockInv, Copies, Copying
    <2>4. Ring'
      BY <1>1, SlotsAssumption
      DEF aesd_init_module, Ring, aesd_circular_buffer_init, EmptyEntry, Slots
    <2>5. HeapSafe'
      BY <1>1, DriverAssumption
      DEF aesd_init_module, HeapSafe, aesd_circular_buffer_init, EmptyEntry
    <2> QED BY <2>2, <2>3, <2>4, <2>5 DEF IInv
  <1>2. CASE aesd_cleanup_module
    <2>1. Types'
      BY <1>2 DEF aesd_cleanup_module, IInv, Types
    <2>2. Control' /\ LockInv' /\ Copies' /\ HeapSafe'
      BY <1>2, ZenonT(30) DEF aesd_cleanup_module, IInv, Control, LockInv, Copies, HeapSafe, Copying
    <2>3. Ring'
      BY <1>2 DEF aesd_cleanup_module, IInv, Ring
    <2> QED BY <2>1, <2>2, <2>3 DEF IInv
  <1> QED BY <1>1, <1>2

LEMMA NextIInv == IInv /\ [Next]_vars => IInv'
  <1> SUFFICES ASSUME IInv, [Next]_vars PROVE IInv'
    OBVIOUS
  <1>1. CASE aesd_init_module \/ aesd_cleanup_module
    BY <1>1, ModuleIInv
  <1>2. ASSUME NEW t \in Threads, aesd_read(t) PROVE IInv'
    BY <1>2, ReadIInv
  <1>3. ASSUME NEW t \in Threads, copy_to_user(t) PROVE IInv'
    BY <1>3, CopyToUserIInv
  <1>4. ASSUME NEW t \in Threads, aesd_write(t) PROVE IInv'
    BY <1>4, WriteIInv
  <1>5. ASSUME NEW t \in Threads, copy_from_user(t) PROVE IInv'
    BY <1>5, CopyFromUserIInv
  <1>6. CASE UNCHANGED vars
    BY <1>6, ZenonT(30) DEF vars, device, IInv, Types, Control, Ring, LockInv, HeapSafe, Copies
  <1> QED BY <1>1, <1>2, <1>3, <1>4, <1>5, <1>6, QuietIInv DEF Next

LEMMA Invariance == Spec => []IInv
  BY InitIInv, NextIInv, PTL DEF Spec

\* Mutual exclusion, and no path out of a handler that keeps the lock.
THEOREM LockCorrect == Spec => []LockInv
  <1>1. IInv => LockInv
    BY DEF IInv
  <1> QED BY <1>1, Invariance, PTL

\* Every pointer the driver holds is to an allocated block of the recorded
\* size, and to a block of its own: nothing is freed twice.
THEOREM HeapCorrect == Spec => []HeapSafe
  <1>1. IInv => HeapSafe
    BY DEF IInv
  <1> QED BY <1>1, Invariance, PTL

\* No copy in progress has its block freed by another thread.
THEOREM NoUseAfterFree == Spec => []CopyNotFreed
  <1>1. IInv => CopyNotFreed
    <2> SUFFICES ASSUME IInv, NEW t \in Threads, pc[t] \in Copying, loc[t].buffptr \in Blocks
                 PROVE  mem[loc[t].buffptr] # FREE
      BY DEF CopyNotFreed, Copying
    <2>1. mod = "live"
      BY DEF IInv, Control, Copying
    <2>2. CASE pc[t] = "copy_from_user"
      BY <2>2 DEF IInv, Copies
    <2>3. CASE pc[t] = "copy_to_user"
      <3>1. PICK i \in Slots : buffer.entry[i].buffptr = loc[t].buffptr
        BY <2>3 DEF IInv, Copies
      <3> QED BY <2>1, <3>1, DriverAssumption DEF IInv, HeapSafe
    <2> QED BY <2>2, <2>3 DEF Copying
  <1> QED BY <1>1, Invariance, PTL

=============================================================================
