------------------------------ MODULE AesdChar ------------------------------
(***************************************************************************)
(* The character driver behind /dev/aesdchar (aesd-char-driver/main.c):    *)
(* threads that each have the device open call read, write, llseek and     *)
(* ioctl concurrently, and the module is loaded and unloaded.              *)
(*                                                                         *)
(* A handler is cut where it can sleep with other threads running: at the  *)
(* entry (the call has been made, the lock not yet taken) and at the copy  *)
(* between user and kernel memory, which may fault a page in.  All that    *)
(* runs between two such points is one step.                               *)
(***************************************************************************)
EXTENDS CircularBuffer, SequencesExt

CONSTANTS
  Threads,          (* user threads, each with an open file of its own     *)
  Blocks,           (* addresses the kernel allocator hands out            *)
  ZERO_SIZE_PTR,    (* what it returns for an allocation of no bytes       *)
  FREE,             (* marks an address that is not allocated              *)
  KMALLOC_MAX_SIZE, (* bytes in the largest allocation                     *)
  Char,             (* bytes a program writes                              *)
  NEWLINE, ZERO,    (* the bytes '\n' and '\0'                             *)
  NoCall, NoRet,    (* no call in progress; not returned yet               *)
  Calls,            (* the system calls the threads make                   *)
  MaxPos            (* bound: no write is started at a position past it    *)

WriteCalls == [op : {"write"}, buf : Seq(Char)]
ReadCalls  == [op : {"read"}, count : Nat]
SeekCalls  == [op : {"llseek"}, offset : Int, whence : {"SEEK_SET", "SEEK_CUR", "SEEK_END"}]
IoctlCalls == [op : {"ioctl"}, cmd : {"AESDCHAR_IOCSEEKTO", "other"},
               write_cmd : Nat, write_cmd_offset : Nat]

ASSUME DriverAssumption ==
  /\ Calls \subseteq WriteCalls \cup ReadCalls \cup SeekCalls \cup IoctlCalls
  /\ NEWLINE \in Char /\ ZERO \in Char
  /\ NULL \notin Threads /\ NULL \notin Blocks /\ ZERO_SIZE_PTR \notin Blocks \cup {NULL}
  /\ FREE \notin Seq(Char)
  /\ NoCall \notin Calls
  /\ KMALLOC_MAX_SIZE \in Nat /\ MaxPos \in Nat

VARIABLES
  mod,                  (* "live": loaded and open to users; "unloaded"    *)
  buffer,               (* aesd_device.buffer                              *)
  current_write_entry,  (* aesd_device.current_write_entry                 *)
  lock,                 (* aesd_device.lock: the holder or NULL            *)
  mem,                  (* the bytes of every allocated block              *)
  pc,                   (* where each thread is                            *)
  f_pos,                (* the position of each thread's open file         *)
  call,                 (* the call each thread has in progress            *)
  loc,                  (* its copy in progress: kernel address and length *)
  ret                   (* what the last call of each thread returned      *)

device == <<buffer, current_write_entry, lock, mem>>
vars == <<mod, device, pc, f_pos, call, loc, ret>>

ENOMEM == 12
EFAULT == 14
EINVAL == 22
ENOTTY == 25
ERESTARTSYS == 512

NoLoc == [buffptr |-> NULL, offset |-> 0, count |-> 0]

\* The bytes at an address; a ZERO_SIZE_PTR has none.
Bytes(ptr) == IF ptr = ZERO_SIZE_PTR THEN <<>> ELSE mem[ptr]

Init ==
  /\ mod = "unloaded"
  /\ buffer = aesd_circular_buffer_init
  /\ current_write_entry = EmptyEntry
  /\ lock = NULL
  /\ mem = [b \in Blocks |-> FREE]
  /\ pc = [t \in Threads |-> "closed"]
  /\ f_pos = [t \in Threads |-> 0]
  /\ call = [t \in Threads |-> NoCall]
  /\ loc = [t \in Threads |-> NoLoc]
  /\ ret = [t \in Threads |-> NoRet]

-----------------------------------------------------------------------------
(* The kernel's allocator, as the driver uses it.  An allocation relates   *)
(* the address it returns and the memory it leaves; it may fail (NULL).    *)

Allocated(n, content, from, ptr, after) ==
  \/ n = 0 /\ ptr = ZERO_SIZE_PTR /\ after = from
  \/ n > 0 /\ ptr = NULL /\ after = from
  \/ /\ n \in 1 .. KMALLOC_MAX_SIZE
     /\ ptr \in Blocks
     /\ from[ptr] = FREE
     /\ after = [from EXCEPT ![ptr] = content]

kfree(ptr, from) == IF ptr \in Blocks THEN [from EXCEPT ![ptr] = FREE] ELSE from

kzalloc(n, ptr, after) == Allocated(n, [i \in 1 .. n |-> ZERO], mem, ptr, after)

\* krealloc keeps the bytes there were; those it adds have any value, and the
\* driver overwrites them before it reads them.  It may move the block, and
\* when it fails the old one stays.
krealloc(old, n, ptr, after) ==
  LET content == [i \in 1 .. n |-> IF i <= Len(Bytes(old)) THEN Bytes(old)[i] ELSE ZERO]
  IN  \/ /\ ptr = NULL /\ n > Len(Bytes(old)) /\ after = mem
      \/ /\ ptr # NULL
         /\ Allocated(n, content, kfree(old, mem), ptr, after)

-----------------------------------------------------------------------------
(* How a handler waits for the lock and returns.                           *)

\* Mutant: a handler that does not wait for the lock.
Locks_NoWait(t, op) == pc[t] = "entered" /\ call[t].op = op

\* mutex_lock_interruptible got the lock: the rest of the step runs with it.
Locks(t, op) == pc[t] = "entered" /\ call[t].op = op /\ lock = NULL

\* Return val, and the bytes copied to the caller's buffer, to user space.
Return(t, val, data) ==
  /\ pc' = [pc EXCEPT ![t] = "open"]
  /\ call' = [call EXCEPT ![t] = NoCall]
  /\ loc' = [loc EXCEPT ![t] = NoLoc]
  /\ ret' = [ret EXCEPT ![t] = [val |-> val, data |-> data]]

\* A system call reaches its handler in the driver.
Enter(t, c) ==
  /\ pc[t] = "open"
  /\ c.op = "write" => f_pos[t] <= MaxPos
  /\ pc' = [pc EXCEPT ![t] = "entered"]
  /\ call' = [call EXCEPT ![t] = c]
  /\ ret' = [ret EXCEPT ![t] = NoRet]
  /\ UNCHANGED <<mod, device, f_pos, loc>>

\* A signal arrives while the handler sleeps on a lock another thread holds.
Interrupted(t) ==
  /\ pc[t] = "entered"
  /\ lock # NULL
  /\ call[t].op = "ioctl" => call[t].cmd = "AESDCHAR_IOCSEEKTO"
  /\ Return(t, -ERESTARTSYS, <<>>)
  /\ UNCHANGED <<mod, device, f_pos>>

\* The open file belongs to the struct file that open creates and the last
\* close takes away.
aesd_open(t) ==
  /\ mod = "live" /\ pc[t] = "closed"
  /\ pc' = [pc EXCEPT ![t] = "open"]
  /\ f_pos' = [f_pos EXCEPT ![t] = 0]
  /\ UNCHANGED <<mod, device, call, loc, ret>>

aesd_release(t) ==
  /\ pc[t] = "open"
  /\ pc' = [pc EXCEPT ![t] = "closed"]
  /\ f_pos' = [f_pos EXCEPT ![t] = 0]
  /\ ret' = [ret EXCEPT ![t] = NoRet]
  /\ UNCHANGED <<mod, device, call, loc>>

-----------------------------------------------------------------------------
(* read                                                                    *)

\* Mutant: as many bytes as asked for are copied.
aesd_read_WholeCount(t) ==
  /\ Locks(t, "read")
  /\ LET found == aesd_circular_buffer_find_entry_offset_for_fpos(buffer, f_pos[t])
         entry == buffer.entry[found.entry]
         copies == found.entry # NULL /\ found.entry_offset_byte < entry.size
     IN  \/ /\ ~copies
            /\ Return(t, 0, <<>>)
            /\ UNCHANGED <<mod, device, f_pos>>
         \/ /\ copies
            /\ loc' = [loc EXCEPT ![t] = [buffptr |-> entry.buffptr,
                                          offset  |-> found.entry_offset_byte,
                                          count   |-> call[t].count]]
            /\ lock' = t
            /\ pc' = [pc EXCEPT ![t] = "copy_to_user"]
            /\ UNCHANGED <<mod, buffer, current_write_entry, mem, f_pos, call, ret>>

aesd_read(t) ==
  /\ Locks(t, "read")
  /\ LET found == aesd_circular_buffer_find_entry_offset_for_fpos(buffer, f_pos[t])
         entry == buffer.entry[found.entry]
         copies == found.entry # NULL /\ found.entry_offset_byte < entry.size
     IN  \/ /\ ~copies
            /\ Return(t, 0, <<>>)
            /\ UNCHANGED <<mod, device, f_pos>>
         \/ /\ copies
            /\ loc' = [loc EXCEPT ![t] =
                 [buffptr |-> entry.buffptr,
                  offset  |-> found.entry_offset_byte,
                  count   |-> Min({call[t].count, entry.size - found.entry_offset_byte})]]
            /\ lock' = t
            /\ pc' = [pc EXCEPT ![t] = "copy_to_user"]
            /\ UNCHANGED <<mod, buffer, current_write_entry, mem, f_pos, call, ret>>

\* Mutant: the fault path returns without mutex_unlock.
copy_to_user_FaultKeepsLock(t) ==
  /\ pc[t] = "copy_to_user"
  /\ \/ /\ f_pos' = [f_pos EXCEPT ![t] = f_pos[t] + loc[t].count]
        /\ Return(t, loc[t].count,
                  SubSeq(mem[loc[t].buffptr], loc[t].offset + 1, loc[t].offset + loc[t].count))
        /\ lock' = NULL
     \/ Return(t, -EFAULT, <<>>) /\ UNCHANGED <<lock, f_pos>>
  /\ UNCHANGED <<mod, buffer, current_write_entry, mem>>

\* Mutant: the position does not move.
copy_to_user_KeepsPos(t) ==
  /\ pc[t] = "copy_to_user"
  /\ \/ Return(t, loc[t].count,
               SubSeq(mem[loc[t].buffptr], loc[t].offset + 1, loc[t].offset + loc[t].count))
     \/ Return(t, -EFAULT, <<>>)
  /\ lock' = NULL
  /\ UNCHANGED <<mod, buffer, current_write_entry, mem, f_pos>>

\* copy_to_user ends the read, with the bytes or with a fault.
copy_to_user(t) ==
  /\ pc[t] = "copy_to_user"
  /\ \/ /\ f_pos' = [f_pos EXCEPT ![t] = f_pos[t] + loc[t].count]
        /\ Return(t, loc[t].count,
                  SubSeq(mem[loc[t].buffptr], loc[t].offset + 1, loc[t].offset + loc[t].count))
     \/ Return(t, -EFAULT, <<>>) /\ UNCHANGED f_pos
  /\ lock' = NULL
  /\ UNCHANGED <<mod, buffer, current_write_entry, mem>>

-----------------------------------------------------------------------------
(* write                                                                   *)

\* Mutant: the copy goes to where the pending command was before krealloc.
aesd_write_StalePointer(t) ==
  /\ Locks(t, "write")
  /\ LET count  == Len(call[t].buf)
         fresh  == current_write_entry.buffptr = NULL
         offset == IF fresh THEN 0 ELSE current_write_entry.size
     IN  \E ptr \in Blocks \cup {NULL, ZERO_SIZE_PTR} :
           /\ IF fresh THEN kzalloc(count, ptr, mem')
              ELSE krealloc(current_write_entry.buffptr, offset + count, ptr, mem')
           /\ \/ /\ ptr = NULL
                 /\ Return(t, -ENOMEM, <<>>)
                 /\ UNCHANGED <<current_write_entry, lock>>
              \/ /\ ptr # NULL
                 /\ current_write_entry' = [current_write_entry EXCEPT !.buffptr = ptr]
                 /\ loc' = [loc EXCEPT ![t] =
                      [buffptr |-> IF current_write_entry.buffptr \in Blocks
                                   THEN current_write_entry.buffptr ELSE ptr,
                       offset |-> offset, count |-> count]]
                 /\ lock' = t
                 /\ pc' = [pc EXCEPT ![t] = "copy_from_user"]
                 /\ UNCHANGED <<call, ret>>
  /\ UNCHANGED <<mod, buffer, f_pos>>

\* Makes room for the bytes after those already pending, then copies.
aesd_write(t) ==
  /\ Locks(t, "write")
  /\ LET count  == Len(call[t].buf)
         fresh  == current_write_entry.buffptr = NULL
         offset == IF fresh THEN 0 ELSE current_write_entry.size
     IN  \E ptr \in Blocks \cup {NULL, ZERO_SIZE_PTR} :
           /\ IF fresh THEN kzalloc(count, ptr, mem')
              ELSE krealloc(current_write_entry.buffptr, offset + count, ptr, mem')
           /\ \/ /\ ptr = NULL
                 /\ Return(t, -ENOMEM, <<>>)
                 /\ UNCHANGED <<current_write_entry, lock>>
              \/ /\ ptr # NULL
                 /\ current_write_entry' = [current_write_entry EXCEPT !.buffptr = ptr]
                 /\ loc' = [loc EXCEPT ![t] =
                      [buffptr |-> ptr, offset |-> offset, count |-> count]]
                 /\ lock' = t
                 /\ pc' = [pc EXCEPT ![t] = "copy_from_user"]
                 /\ UNCHANGED <<call, ret>>
  /\ UNCHANGED <<mod, buffer, f_pos>>

\* Mutant: the last byte is not looked at.
HasNewline_MissesLast(bytes, n) == \E i \in 1 .. n - 1 : bytes[i] = NEWLINE

\* memchr(buf, '\n', n)
HasNewline(bytes, n) == \E i \in 1 .. n : bytes[i] = NEWLINE

\* Mutant: the pending command is committed and stays pending.
commit_KeepsPending(t, bytes) ==
  LET size   == loc[t].offset + loc[t].count
      entry  == [buffptr |-> loc[t].buffptr, size |-> size]
      stored == IF entry.buffptr \in Blocks THEN [mem EXCEPT ![entry.buffptr] = bytes] ELSE mem
      added  == aesd_circular_buffer_add_entry(buffer, entry)
      retval == IF HasNewline(bytes, size) THEN size ELSE loc[t].count
  IN  /\ IF HasNewline(bytes, size)
         THEN buffer' = added.buffer /\ mem' = kfree(added.removed, stored)
         ELSE UNCHANGED buffer /\ mem' = stored
      /\ current_write_entry' = entry
      /\ f_pos' = [f_pos EXCEPT ![t] = f_pos[t] + retval]
      /\ Return(t, retval, <<>>)

\* Mutant: the entry that is pushed out is not freed.
commit_NoFree(t, bytes) ==
  LET size   == loc[t].offset + loc[t].count
      entry  == [buffptr |-> loc[t].buffptr, size |-> size]
      stored == IF entry.buffptr \in Blocks THEN [mem EXCEPT ![entry.buffptr] = bytes] ELSE mem
      retval == IF HasNewline(bytes, size) THEN size ELSE loc[t].count
  IN  /\ IF HasNewline(bytes, size)
         THEN /\ buffer' = aesd_circular_buffer_add_entry(buffer, entry).buffer
              /\ current_write_entry' = EmptyEntry
         ELSE UNCHANGED buffer /\ current_write_entry' = entry
      /\ mem' = stored
      /\ f_pos' = [f_pos EXCEPT ![t] = f_pos[t] + retval]
      /\ Return(t, retval, <<>>)

\* What follows a complete copy: a pending command that holds a newline goes
\* into the circular buffer, and the entry it pushes out is freed.
commit(t, bytes) ==
  LET size   == loc[t].offset + loc[t].count
      entry  == [buffptr |-> loc[t].buffptr, size |-> size]
      stored == IF entry.buffptr \in Blocks THEN [mem EXCEPT ![entry.buffptr] = bytes] ELSE mem
      added  == aesd_circular_buffer_add_entry(buffer, entry)
      retval == IF HasNewline(bytes, size) THEN size ELSE loc[t].count
  IN  /\ IF HasNewline(bytes, size)
         THEN /\ buffer' = added.buffer
              /\ mem' = kfree(added.removed, stored)
              /\ current_write_entry' = EmptyEntry
         ELSE /\ mem' = stored
              /\ current_write_entry' = entry
              /\ UNCHANGED buffer
      /\ f_pos' = [f_pos EXCEPT ![t] = f_pos[t] + retval]
      /\ Return(t, retval, <<>>)

\* copy_from_user ends the write: with the bytes, or with a fault, which drops
\* the pending command, the bytes of earlier writes included.
copy_from_user(t) ==
  /\ pc[t] = "copy_from_user"
  /\ \/ commit(t, [i \in 1 .. loc[t].offset + loc[t].count |->
                     IF i <= loc[t].offset THEN Bytes(loc[t].buffptr)[i]
                     ELSE call[t].buf[i - loc[t].offset]])
     \/ /\ mem' = kfree(loc[t].buffptr, mem)
        /\ current_write_entry' = EmptyEntry
        /\ Return(t, -EFAULT, <<>>)
        /\ UNCHANGED <<buffer, f_pos>>
  /\ lock' = NULL
  /\ UNCHANGED mod

-----------------------------------------------------------------------------
(* llseek and ioctl: the lock is taken and released in the same step.      *)

\* fixed_size_llseek of the kernel: the new position or an error.
fixed_size_llseek(pos, offset, whence, size) ==
  LET target == CASE whence = "SEEK_SET" -> offset
                  [] whence = "SEEK_CUR" -> pos + offset
                  [] whence = "SEEK_END" -> size + offset
  IN  IF whence = "SEEK_CUR" /\ offset = 0 THEN pos
      ELSE IF target \in 0 .. size THEN target ELSE -EINVAL

\* Mutant: the result is stored as the position, an error included.
aesd_llseek_StoresError(t) ==
  /\ Locks(t, "llseek")
  /\ LET newpos == fixed_size_llseek(f_pos[t], call[t].offset, call[t].whence,
                                     aesd_circular_buffer_size(buffer))
     IN  /\ f_pos' = [f_pos EXCEPT ![t] = newpos]
         /\ Return(t, newpos, <<>>)
  /\ UNCHANGED <<mod, device>>

aesd_llseek(t) ==
  /\ Locks(t, "llseek")
  /\ LET newpos == fixed_size_llseek(f_pos[t], call[t].offset, call[t].whence,
                                     aesd_circular_buffer_size(buffer))
     IN  /\ f_pos' = [f_pos EXCEPT ![t] = IF newpos >= 0 THEN newpos ELSE f_pos[t]]
         /\ Return(t, newpos, <<>>)
  /\ UNCHANGED <<mod, device>>

\* The checks before the lock is taken: an unknown command, or a fault while
\* the argument is copied in.
aesd_ioctl_unlocked(t) ==
  /\ pc[t] = "entered" /\ call[t].op = "ioctl"
  /\ \/ call[t].cmd # "AESDCHAR_IOCSEEKTO" /\ Return(t, -ENOTTY, <<>>)
     \/ call[t].cmd = "AESDCHAR_IOCSEEKTO" /\ Return(t, -EFAULT, <<>>)
  /\ UNCHANGED <<mod, device, f_pos>>

\* Mutant: the offset is not checked against the size of the command.
aesd_ioctl_AnyOffset(t) ==
  /\ Locks(t, "ioctl")
  /\ call[t].cmd = "AESDCHAR_IOCSEEKTO"
  /\ LET write_cmd == call[t].write_cmd
         valid == /\ write_cmd < AESDCHAR_MAX_WRITE_OPERATIONS_SUPPORTED
                  /\ buffer.entry[write_cmd].buffptr # NULL
     IN  \/ /\ valid
            /\ f_pos' = [f_pos EXCEPT ![t] =
                 SizeOf(buffer, 0 .. write_cmd - 1) + call[t].write_cmd_offset]
            /\ Return(t, 0, <<>>)
         \/ ~valid /\ Return(t, -EINVAL, <<>>) /\ UNCHANGED f_pos
  /\ UNCHANGED <<mod, device>>

\* Mutant: write_cmd_offset is checked and not added.
aesd_ioctl_DropsOffset(t) ==
  /\ Locks(t, "ioctl")
  /\ call[t].cmd = "AESDCHAR_IOCSEEKTO"
  /\ LET write_cmd == call[t].write_cmd
         valid == /\ write_cmd < AESDCHAR_MAX_WRITE_OPERATIONS_SUPPORTED
                  /\ buffer.entry[write_cmd].buffptr # NULL
                  /\ call[t].write_cmd_offset < buffer.entry[write_cmd].size
     IN  \/ /\ valid
            /\ f_pos' = [f_pos EXCEPT ![t] = SizeOf(buffer, 0 .. write_cmd - 1)]
            /\ Return(t, 0, <<>>)
         \/ ~valid /\ Return(t, -EINVAL, <<>>) /\ UNCHANGED f_pos
  /\ UNCHANGED <<mod, device>>

aesd_ioctl(t) ==
  /\ Locks(t, "ioctl")
  /\ call[t].cmd = "AESDCHAR_IOCSEEKTO"
  /\ LET write_cmd        == call[t].write_cmd
         write_cmd_offset == call[t].write_cmd_offset
         valid == /\ write_cmd < AESDCHAR_MAX_WRITE_OPERATIONS_SUPPORTED
                  /\ buffer.entry[write_cmd].buffptr # NULL
                  /\ write_cmd_offset < buffer.entry[write_cmd].size
     IN  \/ /\ valid
            /\ f_pos' = [f_pos EXCEPT ![t] =
                 SizeOf(buffer, 0 .. write_cmd - 1) + write_cmd_offset]
            /\ Return(t, 0, <<>>)
         \/ /\ ~valid
            /\ Return(t, -EINVAL, <<>>)
            /\ UNCHANGED f_pos
  /\ UNCHANGED <<mod, device>>

-----------------------------------------------------------------------------
(* Loading and unloading the module.                                       *)

\* The device structure is zeroed before cdev_add opens it to users or fails.
\* (A failing alloc_chrdev_region returns before anything is changed.)
aesd_init_module ==
  /\ mod = "unloaded"
  /\ buffer' = aesd_circular_buffer_init
  /\ current_write_entry' = EmptyEntry
  /\ lock' = NULL
  /\ mod' \in {"live", "unloaded"}
  /\ UNCHANGED <<mem, pc, f_pos, call, loc, ret>>

\* fops.owner keeps the module in memory while a file is open.  Only the
\* entries of the circular buffer are freed.
aesd_cleanup_module ==
  /\ mod = "live"
  /\ \A t \in Threads : pc[t] = "closed"
  /\ mod' = "unloaded"
  /\ mem' = [b \in Blocks |-> IF \E i \in Slots : buffer.entry[i].buffptr = b
                              THEN FREE ELSE mem[b]]
  /\ UNCHANGED <<buffer, current_write_entry, lock, pc, f_pos, call, loc, ret>>

Next ==
  \/ aesd_init_module
  \/ aesd_cleanup_module
  \/ \E t \in Threads :
       \/ aesd_open(t) \/ aesd_release(t)
       \/ \E c \in Calls : Enter(t, c)
       \/ Interrupted(t)
       \/ aesd_read(t) \/ copy_to_user(t)
       \/ aesd_write(t) \/ copy_from_user(t)
       \/ aesd_llseek(t)
       \/ aesd_ioctl_unlocked(t) \/ aesd_ioctl(t)

Spec == Init /\ [][Next]_vars

\* The code between two sleeping points runs on; a mutex does not starve a
\* waiter (the kernel hands it over), and a copy ends.
Runs(t) ==
  \/ aesd_read(t) \/ copy_to_user(t)
  \/ aesd_write(t) \/ copy_from_user(t)
  \/ aesd_llseek(t)
  \/ aesd_ioctl_unlocked(t) \/ aesd_ioctl(t)

FairSpec == Spec /\ \A t \in Threads : SF_vars(Runs(t))

-----------------------------------------------------------------------------
(* Properties                                                              *)

Pointer == Blocks \cup {NULL, ZERO_SIZE_PTR}
EntryType == [buffptr : Pointer, size : Nat]

\* Every variable has its type; a position is never negative, so no handler
\* stores an error as one.
TypeOK ==
  /\ mod \in {"live", "unloaded"}
  /\ buffer \in [entry : [Slots -> EntryType], in_offs : Slots, out_offs : Slots,
                 full : BOOLEAN]
  /\ current_write_entry \in EntryType
  /\ lock \in Threads \cup {NULL}
  /\ mem \in [Blocks -> Seq(Char) \cup {FREE}]
  /\ pc \in [Threads -> {"closed", "open", "entered", "copy_to_user", "copy_from_user"}]
  /\ f_pos \in [Threads -> Nat]
  /\ call \in [Threads -> Calls \cup {NoCall}]
  /\ loc \in [Threads -> [buffptr : Pointer, offset : Nat, count : Nat]]
  /\ ret \in [Threads -> [val : Int, data : Seq(Char)] \cup {NoRet}]

\* The lock is held exactly by the thread that copies between user and kernel
\* memory, so no two threads are inside the handlers' critical sections, and
\* every way out of a handler (end of file, -EFAULT, -ENOMEM, -EINVAL) has
\* released it.
LockInv ==
  \A t \in Threads : lock = t <=> pc[t] \in {"copy_to_user", "copy_from_user"}

\* While the module is loaded, what the driver points to is allocated memory of
\* the recorded size, and no block is reachable twice: the kfree of a removed
\* entry, of a pending command after a fault, or at unload, frees a block once.
HeapSafe ==
  mod = "live" =>
    /\ \A i \in Slots :
         LET entry == buffer.entry[i]
         IN  entry.buffptr # NULL =>
               /\ entry.buffptr \in Blocks
               /\ mem[entry.buffptr] # FREE
               /\ Len(mem[entry.buffptr]) = entry.size
               /\ entry.buffptr # current_write_entry.buffptr
               /\ \A j \in Slots \ {i} : buffer.entry[j].buffptr # entry.buffptr
    /\ current_write_entry.buffptr \in Blocks =>
         /\ mem[current_write_entry.buffptr] # FREE
         /\ (\A t \in Threads : pc[t] # "copy_from_user") =>
              Len(mem[current_write_entry.buffptr]) = current_write_entry.size
    /\ current_write_entry.buffptr \notin Blocks => current_write_entry.size = 0

\* Until a copy between user and kernel memory ends, its kernel side stays
\* allocated, although the thread may sleep in the copy while other threads
\* call handlers that evict and kfree entries.
CopyNotFreed ==
  \A t \in Threads :
    pc[t] \in {"copy_to_user", "copy_from_user"} /\ loc[t].buffptr \in Blocks =>
      mem[loc[t].buffptr] # FREE

\* And the copy stays within the block, never at NULL: a read does not run past
\* the end of an entry, nor a write past what kzalloc or krealloc returned.
CopyInBounds ==
  \A t \in Threads :
    pc[t] \in {"copy_to_user", "copy_from_user"} =>
      /\ loc[t].buffptr # NULL
      /\ Bytes(loc[t].buffptr) # FREE =>
           loc[t].offset + loc[t].count <= Len(Bytes(loc[t].buffptr))

\* Blocks that are allocated and that nothing in the device points to.
Unreachable ==
  {b \in Blocks : /\ mem[b] # FREE
                  /\ current_write_entry.buffptr # b
                  /\ \A i \in Slots : buffer.entry[i].buffptr # b}

\* No call loses memory: eviction frees what it overwrites, a fault frees the
\* pending command and a failed krealloc keeps it. Unloading the module frees
\* every committed command; what it leaves allocated is the pending one.
LeaksNothing ==
  [][mod = "live" =>
       IF mod' = "live" THEN Unreachable' = Unreachable
       ELSE {b \in Blocks : mem'[b] # FREE} =
              Unreachable \cup ({current_write_entry.buffptr} \cap Blocks)]_vars

Content(entry) ==
  IF entry.buffptr \in Blocks /\ mem[entry.buffptr] # FREE
  THEN SubSeq(mem[entry.buffptr], 1, entry.size) ELSE <<>>

\* Commands, oldest first.
Log == [k \in 1 .. Count(buffer) |-> Content(buffer.entry[SlotOf(buffer, k)])]

\* The newline is what separates the pending command from the committed ones:
\* whatever writes it was put together from, a pending command has none, and
\* every committed one has.
NewlineCommits ==
  mod = "live" =>
    /\ NEWLINE \notin Range(Content(current_write_entry))
    /\ \A k \in 1 .. Len(Log) : NEWLINE \in Range(Log[k])

\* Every call returns, although handlers wait for one another's copies.
CallReturns == \A t \in Threads : pc[t] = "entered" ~> pc[t] = "open"

\* A step in which AESDCHAR_IOCSEEKTO succeeds.
SeeksTo(t) ==
  /\ pc[t] = "entered" /\ call[t].op = "ioctl"
  /\ pc'[t] = "open" /\ ret'[t].val = 0

\* The next read of t is at the offset its ioctl names in the command it names,
\* in whichever of the two orders commands are numbered: by slot, or oldest first.
LandsOnCommand(t) ==
  LET found == aesd_circular_buffer_find_entry_offset_for_fpos(buffer, f_pos'[t])
  IN  /\ found.entry_offset_byte = call[t].write_cmd_offset
      /\ \/ found.entry = call[t].write_cmd
         \/ found.entry = SlotOf(buffer, call[t].write_cmd + 1)

\* As long as the oldest command is in the first slot, AESDCHAR_IOCSEEKTO moves to
\* the command and the offset it is given: the sum of aesd_ioctl over the array
\* and the walk of aesd_read from out_offs agree.
SeekLandsUnlessWrapped ==
  [][\A t \in Threads : SeeksTo(t) /\ buffer.out_offs = 0 => LandsOnCommand(t)]_vars

-----------------------------------------------------------------------------
(* What a comment of the driver says, and the code does not do.            *)

\* "The zero referenced write command to seek into" and "The zero referenced
\* offset within the write" (aesd_ioctl.h), wherever the oldest command is.
SeekLandsOnCommand == [][\A t \in Threads : SeeksTo(t) => LandsOnCommand(t)]_vars

=============================================================================
