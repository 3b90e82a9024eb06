--------------------------- MODULE AbstractDevice ---------------------------
(***************************************************************************)
(* What /dev/aesdchar promises to the programs that share it: the last     *)
(* Capacity commands that were written, each ended by the write that       *)
(* brings a newline, read back in order; one unfinished command; a         *)
(* position for each open file; and calls that take effect at one instant  *)
(* between their start and their return.                                   *)
(***************************************************************************)
EXTENDS CommandLog

CONSTANTS Capacity, Threads, NEWLINE, Calls, NoCall, NoRet

VARIABLES
  loaded,   (* the device exists                                           *)
  log,      (* the commands kept, oldest first, each a sequence of bytes   *)
  pending,  (* the bytes of the unfinished command                         *)
  open,     (* the threads that have the device open                       *)
  pos,      (* the positions of their files                                *)
  call,     (* the call each thread waits for                              *)
  ret       (* what the last one returned: a value and the bytes read      *)

vars == <<loaded, log, pending, open, pos, call, ret>>

ENOMEM == 12
EFAULT == 14
EINVAL == 22
ENOTTY == 25
ERESTARTSYS == 512

Init ==
  /\ loaded = FALSE
  /\ log = <<>> /\ pending = <<>>
  /\ open = {}
  /\ pos = [t \in Threads |-> 0]
  /\ call = [t \in Threads |-> NoCall]
  /\ ret = [t \in Threads |-> NoRet]

Load == ~loaded /\ loaded' = TRUE /\ UNCHANGED <<log, pending, open, pos, call, ret>>

Unload ==
  /\ loaded /\ open = {}
  /\ loaded' = FALSE
  /\ log' = <<>> /\ pending' = <<>>
  /\ UNCHANGED <<open, pos, call, ret>>

Open(t) ==
  /\ loaded /\ t \notin open
  /\ open' = open \cup {t}
  /\ pos' = [pos EXCEPT ![t] = 0]
  /\ UNCHANGED <<loaded, log, pending, call, ret>>

Close(t) ==
  /\ t \in open /\ call[t] = NoCall
  /\ open' = open \ {t}
  /\ pos' = [pos EXCEPT ![t] = 0]
  /\ ret' = [ret EXCEPT ![t] = NoRet]
  /\ UNCHANGED <<loaded, log, pending, call>>

Call(t, c) ==
  /\ t \in open /\ call[t] = NoCall
  /\ call' = [call EXCEPT ![t] = c]
  /\ ret' = [ret EXCEPT ![t] = NoRet]
  /\ UNCHANGED <<loaded, log, pending, open, pos>>

Returns(t, val, data) ==
  /\ call' = [call EXCEPT ![t] = NoCall]
  /\ ret' = [ret EXCEPT ![t] = [val |-> val, data |-> data]]
  /\ UNCHANGED <<loaded, open>>

Write(t) ==
  /\ call[t] # NoCall /\ call[t].op = "write"
  /\ LET text == pending \o call[t].buf
     IN  \/ /\ NEWLINE \in Range(text)
            /\ log' = Newest(Append(log, text), Capacity)
            /\ pending' = <<>>
            /\ pos' = [pos EXCEPT ![t] = pos[t] + Len(text)]
            /\ Returns(t, Len(text), <<>>)
         \/ /\ NEWLINE \notin Range(text)
            /\ pending' = text
            /\ pos' = [pos EXCEPT ![t] = pos[t] + Len(call[t].buf)]
            /\ Returns(t, Len(call[t].buf), <<>>)
            /\ UNCHANGED log
         \/ /\ pending' = <<>>
            /\ Returns(t, -EFAULT, <<>>)
            /\ UNCHANGED <<log, pos>>
         \/ /\ Returns(t, -ENOMEM, <<>>)
            /\ UNCHANGED <<log, pending, pos>>

\* A read ends at the end of a command, and at the latest after count bytes.
Read(t) ==
  /\ call[t] # NoCall /\ call[t].op = "read"
  /\ \/ /\ pos[t] >= Len(Contents(log))
        /\ Returns(t, 0, <<>>)
        /\ UNCHANGED pos
     \/ /\ pos[t] < Len(Contents(log))
        /\ LET end == ReadEnd(log, pos[t], call[t].count)
           IN  /\ pos' = [pos EXCEPT ![t] = end]
               /\ Returns(t, end - pos[t], SubSeq(Contents(log), pos[t] + 1, end))
     \/ /\ pos[t] < Len(Contents(log))
        /\ Returns(t, -EFAULT, <<>>)
        /\ UNCHANGED pos
  /\ UNCHANGED <<log, pending>>

\* llseek moves to a position of the contents or to their end, or not at all.
Seek(t) ==
  /\ call[t] # NoCall /\ call[t].op = "llseek"
  /\ LET base == [SEEK_SET |-> 0, SEEK_CUR |-> pos[t], SEEK_END |-> Len(Contents(log))]
         target == base[call[t].whence] + call[t].offset
         stays == call[t].whence = "SEEK_CUR" /\ call[t].offset = 0
     IN  \/ /\ target \in 0 .. Len(Contents(log)) \/ stays
            /\ pos' = [pos EXCEPT ![t] = target]
            /\ Returns(t, target, <<>>)
         \/ /\ target \notin 0 .. Len(Contents(log)) /\ ~stays
            /\ Returns(t, -EINVAL, <<>>)
            /\ UNCHANGED pos
  /\ UNCHANGED <<log, pending>>

\* A successful AESDCHAR_IOCSEEKTO moves to a byte of the contents.
SeekTo(t) ==
  /\ call[t] # NoCall /\ call[t].op = "ioctl"
  /\ \/ /\ \E p \in 0 .. Len(Contents(log)) - 1 : pos' = [pos EXCEPT ![t] = p]
        /\ Returns(t, 0, <<>>)
     \/ /\ \E err \in {EINVAL, EFAULT, ENOTTY} : Returns(t, -err, <<>>)
        /\ UNCHANGED pos
  /\ UNCHANGED <<log, pending>>

Interrupt(t) ==
  /\ call[t] # NoCall
  /\ Returns(t, -ERESTARTSYS, <<>>)
  /\ UNCHANGED <<log, pending, pos>>

Next ==
  \/ Load \/ Unload
  \/ \E t \in Threads :
       \/ Open(t) \/ Close(t) \/ \E c \in Calls : Call(t, c)
       \/ Write(t) \/ Read(t) \/ Seek(t) \/ SeekTo(t) \/ Interrupt(t)

Spec == Init /\ [][Next]_vars

=============================================================================
