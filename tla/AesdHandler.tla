---------------------------- MODULE AesdHandler ----------------------------
(***************************************************************************)
(* The connection threads of aesdsocket (server/handler.c), each serving   *)
(* one client, over the file they share: /dev/aesdchar, as module          *)
(* AbstractDevice describes it, or a regular file that alarm_handler       *)
(* (server/aesdsocket.c) also appends to.                                  *)
(*                                                                         *)
(* A step is what a thread does from one blocking system call to the next. *)
(***************************************************************************)
EXTENDS CommandLog, TLC

CONSTANTS
  Conns,                  (* connections, one thread each                  *)
  NULL,
  Capacity,               (* commands the device keeps                     *)
  BUFFER_SIZE,            (* 1024 in the code                              *)
  Scripts,                (* what the clients may send, a sequence of      *)
                          (* bytes for each connection                     *)
  SEEK1, SEEK2,           (* the two halves of "AESDCHAR_IOCSEEKTO:", each *)
                          (* taken for one byte                            *)
  COMMA, NEWLINE, STAMP,  (* ',', '\n' and the text of a timestamp         *)
  MaxStamps               (* bound: timestamps written                     *)

Digits == 0 .. 9
Byte == Digits \cup {SEEK1, SEEK2, COMMA, NEWLINE, STAMP}

ASSUME HandlerAssumption ==
  /\ NULL \notin Conns
  /\ Capacity \in Nat \ {0}
  /\ BUFFER_SIZE \in Nat \ {0, 1}
  /\ Scripts \subseteq [Conns -> Seq(Byte)]
  /\ MaxStamps \in Nat

VARIABLES
  UseCharDevice, (* built with USE_AESD_CHAR_DEVICE: never changes         *)
  log,        (* the file: the packets written to it                       *)
  exists,     (* the file exists                                           *)
  stamps,     (* timestamps written so far                                 *)
  drops,      (* commands the device has dropped                           *)
  file_mutex, (* the thread that holds it, or NULL                         *)
  pc,         (* where each thread is                                      *)
  stream,     (* what the client has sent and recv has not returned        *)
  data,       (* the first data_len bytes of data_buffer                   *)
  cap,        (* the bytes allocated for data_buffer; 0: NULL              *)
  pos,        (* the position of the thread's descriptor fd                *)
  packet,     (* history: the packet it appended last                      *)
  sent,       (* history: what it has sent since fd was opened or moved by *)
              (* a seek command                                            *)
  taken,      (* history: what was in data_buffer each time it was reset   *)
  script      (* history: all the bytes the client sends                   *)

file == <<UseCharDevice, log, exists, stamps, drops>>
buffer == <<data, cap, taken>>
vars == <<file, file_mutex, pc, stream, buffer, pos, packet, sent, script>>

Init ==
  /\ UseCharDevice \in BOOLEAN
  /\ log = <<>> /\ exists = UseCharDevice /\ stamps = 0 /\ drops = 0
  /\ file_mutex = NULL
  /\ script \in Scripts /\ stream = script
  /\ pc = [h \in Conns |-> "start"]
  /\ data = [h \in Conns |-> <<>>] /\ cap = [h \in Conns |-> 0]
  /\ taken = [h \in Conns |-> <<>>]
  /\ pos = [h \in Conns |-> 0]
  /\ packet = [h \in Conns |-> <<>>] /\ sent = [h \in Conns |-> <<>>]

Goto(h, label) == pc' = [pc EXCEPT ![h] = label]

-----------------------------------------------------------------------------
(* The shared file.                                                        *)

\* Mutant: nothing is ever dropped.
Appended_KeepsAll(bytes) == log' = Append(log, bytes) /\ drops' = 0

\* The file after bytes have been appended; the device keeps the newest commands.
Appended(bytes) ==
  LET full == UseCharDevice /\ Len(log) = Capacity
  IN  /\ log' = Append(IF full THEN Tail(log) ELSE log, bytes)
      /\ drops' = IF full THEN drops + 1 ELSE drops

\* Where a read of BUFFER_SIZE bytes at position p ends.
ReadTo(p) ==
  IF UseCharDevice THEN ReadEnd(log, p, BUFFER_SIZE)
  ELSE Min({p + BUFFER_SIZE, Len(Contents(log))})

\* The commands in the order of the device's slots. The first command of the log
\* is in slot drops % Capacity.
Slots == [i \in 1 .. Len(log) |-> log[((i - 1 - drops) % Capacity) + 1]]

\* Mutant: the offset is not added.
char_offset_Start(x, y) == Len(Contents(SubSeq(Slots, 1, x)))

\* The position AESDCHAR_IOCSEEKTO moves to, for byte y of slot x: the driver adds up
\* the sizes of the slots before.
char_offset(x, y) == Len(Contents(SubSeq(Slots, 1, x))) + y

\* Every ten seconds, in the build without the device. The mutex it takes is not
\* file_mutex but a copy of it.
alarm_handler ==
  /\ ~UseCharDevice /\ stamps < MaxStamps /\ \A h \in Conns : pc[h] # "killed"
  /\ Appended(<<STAMP, NEWLINE>>)
  /\ exists' = TRUE /\ stamps' = stamps + 1
  /\ UNCHANGED <<UseCharDevice, file_mutex, pc, stream, buffer, pos, packet, sent, script>>

-----------------------------------------------------------------------------
(* handle_connection                                                       *)

\* malloc and open, either of which may fail.
Start(h) ==
  /\ pc[h] = "start"
  /\ \/ /\ exists
        /\ cap' = [cap EXCEPT ![h] = BUFFER_SIZE]
        /\ Goto(h, "recv")
     \/ Goto(h, "done") /\ UNCHANGED cap
  /\ UNCHANGED <<file, file_mutex, stream, data, taken, pos, packet, sent, script>>

\* strncmp(data_buffer, SEEKTO, strlen(SEEKTO)) == 0
IsSeek(bytes) == Len(bytes) >= 2 /\ bytes[1] = SEEK1 /\ bytes[2] = SEEK2

\* A %d of sscanf at position k: white space, then the digits up to position
\* next; there is a number if there is a digit.
Number(bytes, k) ==
  LET start == Min({j \in k .. Len(bytes) : bytes[j] # NEWLINE} \cup {Len(bytes) + 1})
      next  == Min({j \in start .. Len(bytes) : bytes[j] \notin Digits} \cup {Len(bytes) + 1})
  IN  [parsed |-> start < next, next |-> next,
       value |-> FoldLeft(LAMBDA n, d : 10 * n + d, 0, SubSeq(bytes, start, next - 1))]

\* sscanf(seek_args, "%d,%d", ...) == 2
SeekParses(bytes) ==
  LET x == Number(bytes, 3)
  IN  /\ x.parsed /\ x.next <= Len(bytes) /\ bytes[x.next] = COMMA
      /\ Number(bytes, x.next + 1).parsed

write_cmd(bytes) == Number(bytes, 3).value
write_cmd_offset(bytes) == Number(bytes, Number(bytes, 3).next + 1).value

\* Mutant: no room for the '\0'.
Grown_TooLate(len, size) == IF len > BUFFER_SIZE THEN 2 * len ELSE size

\* The size of data_buffer for len bytes and a terminating '\0'; 2 * len is
\* what realloc is asked for.
Grown(len, size) == IF len >= BUFFER_SIZE THEN 2 * len ELSE size

\* recv returned n > 0 bytes: keep them, then act on what there is now.
recv(h) ==
  /\ pc[h] = "recv" /\ stream[h] # <<>>
  /\ \E n \in 1 .. Min({BUFFER_SIZE - 1, Len(stream[h])}) :
       LET len   == Len(data[h]) + n
           bytes == data[h] \o SubSeq(stream[h], 1, n)
       IN  /\ stream' = [stream EXCEPT ![h] = SubSeq(@, n + 1, Len(@))]
           /\ \/ /\ data' = [data EXCEPT ![h] = bytes]
                 /\ cap' = [cap EXCEPT ![h] = Grown(len, cap[h])]
                 /\ Goto(h, CASE IsSeek(bytes) -> "seek"
                              [] ~IsSeek(bytes) /\ NEWLINE \in Range(bytes) -> "lock"
                              [] OTHER -> "recv")
              \/ /\ len >= BUFFER_SIZE        \* realloc failed
                 /\ Goto(h, "closing")
                 /\ UNCHANGED <<data, cap>>
  /\ UNCHANGED <<file, file_mutex, taken, pos, packet, sent, script>>

\* Mutant: recv returning 0 does not end the loop.
recv_end_OnlyErrors(h) ==
  /\ pc[h] = "recv" /\ stream[h] # <<>>
  /\ Goto(h, "closing")
  /\ UNCHANGED <<file, file_mutex, stream, buffer, pos, packet, sent, script>>

\* The client is done, or the connection fails.
recv_end(h) ==
  /\ pc[h] = "recv"
  /\ Goto(h, "closing")
  /\ UNCHANGED <<file, file_mutex, stream, buffer, pos, packet, sent, script>>

\* Mutant: data_len keeps its value.
Reset_KeepsLength(h, label) ==
  /\ taken' = [taken EXCEPT ![h] = Append(@, data[h])]
  /\ cap' = [cap EXCEPT ![h] = 2 * Len(data[h])] /\ Goto(h, label)
  /\ UNCHANGED data

\* data_len = 0, free, malloc; the thread goes on to label unless malloc fails.
Reset(h, label) ==
  /\ taken' = [taken EXCEPT ![h] = Append(@, data[h])]
  /\ data' = [data EXCEPT ![h] = <<>>]
  /\ \/ cap' = [cap EXCEPT ![h] = BUFFER_SIZE] /\ Goto(h, label)
     \/ cap' = [cap EXCEPT ![h] = 0] /\ Goto(h, "closing")

\* ioctl(fd, AESDCHAR_IOCSEEKTO, ...), which a regular file does not support and
\* the driver refuses for a slot without a command or an offset past its end.
seek(h) ==
  /\ pc[h] = "seek"
  /\ \/ /\ SeekParses(data[h])
        /\ LET x == write_cmd(data[h])
               y == write_cmd_offset(data[h])
               valid == UseCharDevice /\ x < Len(log) /\ y < Len(Slots[x + 1])
           IN  \/ /\ valid
                  /\ pos' = [pos EXCEPT ![h] = char_offset(x, y)]
                  /\ sent' = [sent EXCEPT ![h] = <<>>]
                  /\ Goto(h, "echo_seek")
               \/ ~valid /\ Goto(h, "closing") /\ UNCHANGED <<pos, sent>>
        /\ UNCHANGED buffer
     \/ ~SeekParses(data[h]) /\ Reset(h, "recv") /\ UNCHANGED <<pos, sent>>
  /\ UNCHANGED <<file, file_mutex, stream, packet, script>>

\* pthread_mutex_lock(conn_info->file_mutex), in the build without the device.
lock(h) ==
  /\ pc[h] = "lock"
  /\ \/ UseCharDevice /\ UNCHANGED file_mutex
     \/ ~UseCharDevice /\ file_mutex = NULL /\ file_mutex' = h
  /\ Goto(h, "append")
  /\ UNCHANGED <<file, stream, buffer, pos, packet, sent, script>>

\* What write may store: the device takes all or fails, a regular file may take
\* less than it is given.
Stored(bytes) ==
  IF UseCharDevice THEN {bytes} ELSE {SubSeq(bytes, 1, k) : k \in 1 .. Len(bytes)}

\* Mutant: the mutex is kept when append_packet fails.
append_KeepsMutex(h) ==
  /\ pc[h] = "append"
  /\ \/ /\ \E bytes \in Stored(data[h]) :
             Appended(bytes) /\ packet' = [packet EXCEPT ![h] = bytes]
        /\ exists' = TRUE /\ file_mutex' = NULL
        /\ Reset(h, "echo")
     \/ /\ Goto(h, "closing")
        /\ UNCHANGED <<log, exists, drops, file_mutex, buffer, packet>>
  /\ UNCHANGED <<UseCharDevice, stamps, stream, pos, sent, script>>

\* append_packet, pthread_mutex_unlock, and what follows up to the call of
\* write_to_client. Nothing tells a write that stored less from one that
\* stored all.
append(h) ==
  /\ pc[h] = "append"
  /\ \/ /\ \E bytes \in Stored(data[h]) :
             Appended(bytes) /\ packet' = [packet EXCEPT ![h] = bytes]
        /\ exists' = TRUE
        /\ Reset(h, "echo")
     \/ /\ exists' \in {exists, TRUE}      \* open or write failed
        /\ Goto(h, "closing")
        /\ UNCHANGED <<log, drops, buffer, packet>>
  /\ file_mutex' = IF UseCharDevice THEN file_mutex ELSE NULL
  /\ UNCHANGED <<UseCharDevice, stamps, stream, pos, sent, script>>

\* Mutant: a send that takes less than it is given is not noticed.
write_to_client_ShortSend(h) ==
  /\ pc[h] \in {"echo", "echo_seek"}
  /\ \/ /\ pos[h] < Len(Contents(log))
        /\ pos' = [pos EXCEPT ![h] = ReadTo(@)]
        /\ \E end \in pos[h] + 1 .. pos'[h] :
             sent' = [sent EXCEPT ![h] = @ \o SubSeq(Contents(log), pos[h] + 1, end)]
        /\ UNCHANGED <<pc, buffer>>
     \/ /\ \/ pc[h] = "echo" /\ Goto(h, "recv") /\ UNCHANGED buffer
           \/ pc[h] = "echo_seek" /\ Reset(h, "recv")
        /\ UNCHANGED <<pos, sent>>
  /\ UNCHANGED <<file, file_mutex, stream, packet, script>>

\* One turn of the loop of write_to_client, or its return: 0 at the end of the file
\* and, the same, after a read that failed. After a seek command the caller resets
\* data_buffer.
write_to_client(h) ==
  /\ pc[h] \in {"echo", "echo_seek"}
  /\ \/ /\ pos[h] < Len(Contents(log))
        /\ pos' = [pos EXCEPT ![h] = ReadTo(@)]
        /\ \/ /\ sent' = [sent EXCEPT ![h] = @ \o SubSeq(Contents(log), pos[h] + 1, pos'[h])]
              /\ UNCHANGED pc
           \/ Goto(h, "closing") /\ UNCHANGED sent       \* sent != n
        /\ UNCHANGED buffer
     \/ /\ \/ pc[h] = "echo" /\ Goto(h, "recv") /\ UNCHANGED buffer
           \/ pc[h] = "echo_seek" /\ Reset(h, "recv")
        /\ UNCHANGED <<pos, sent>>
  /\ UNCHANGED <<file, file_mutex, stream, packet, script>>

\* The threads in ended are gone, with their memory and their descriptors.
Gone(ended, label) ==
  LET Cleared(f, empty) == [h \in Conns |-> IF h \in ended THEN empty ELSE f[h]]
  IN  /\ pc' = Cleared(pc, label)
      /\ stream' = Cleared(stream, <<>>) /\ data' = Cleared(data, <<>>)
      /\ cap' = Cleared(cap, 0) /\ pos' = Cleared(pos, 0)
      /\ packet' = Cleared(packet, <<>>) /\ sent' = Cleared(sent, <<>>)
      /\ taken' = Cleared(taken, <<>>)

\* A send to a client that has gone raises SIGPIPE, which nothing handles: it ends
\* the process.
sigpipe(h) ==
  /\ pc[h] \in {"echo", "echo_seek"} /\ pos[h] < Len(Contents(log))
  /\ Gone({g \in Conns : pc[g] # "done"}, "killed")
  /\ file_mutex' = NULL
  /\ UNCHANGED <<file, script>>

\* After the loop: close, free, done = true.
Finish(h) ==
  /\ pc[h] = "closing"
  /\ Gone({h}, "done")
  /\ UNCHANGED <<file, file_mutex, script>>

handle_connection(h) ==
  \/ Start(h) \/ recv(h) \/ recv_end(h) \/ seek(h) \/ lock(h) \/ append(h)
  \/ write_to_client(h) \/ sigpipe(h) \/ Finish(h)

Next == alarm_handler \/ \E h \in Conns : handle_connection(h)

Spec == Init /\ [][Next]_vars

\* Clients send a script, close, and take what is sent to them; threads run.
FairSpec == Spec /\ \A h \in Conns : WF_vars(handle_connection(h))

-----------------------------------------------------------------------------
(* Properties.                                                             *)

Labels == {"start", "recv", "seek", "lock", "append", "echo", "echo_seek", "closing",
           "done", "killed"}

\* The thread is in the loop of handle_connection.
Served == {"recv", "seek", "lock", "append", "echo", "echo_seek"}

\* Every variable has its type; the device keeps at most Capacity commands.
TypeOK ==
  /\ pc \in [Conns -> Labels]
  /\ cap \in [Conns -> Nat] /\ pos \in [Conns -> Nat]
  /\ exists \in BOOLEAN /\ drops \in Nat
  /\ stamps \in 0 .. MaxStamps /\ file_mutex \in Conns \cup {NULL}
  /\ UseCharDevice => Len(log) <= Capacity

\* memcpy and the terminating '\0' of handle_connection stay inside data_buffer,
\* however recv splits what the client sends.
BufferBounds == \A h \in Conns : pc[h] \in Served => Len(data[h]) < cap[h]

\* While a connection is served each byte its client sent is in exactly one place,
\* in order: in what has been taken out of data_buffer, in data_buffer, or still
\* to be received. What has been taken out was a seek command with all that came
\* with it (handler.c:94), or went to the file as one packet: whole to the device,
\* at least its beginning to a regular file (handler.c:193).
BytesAccounted ==
  \A h \in Conns : pc[h] \in Served =>
    /\ FlattenSeq(taken[h]) \o data[h] \o stream[h] = script[h]
    /\ drops = 0 =>
         \A i \in DOMAIN taken[h] :
           \/ IsSeek(taken[h][i])
           \/ \E j \in DOMAIN log : IF UseCharDevice THEN log[j] = taken[h][i]
                                    ELSE IsPrefix(log[j], taken[h][i])

\* A step in which write_to_client, called for a packet (from echo) or after a seek
\* command (from echo_seek), returns 0 with the whole file read.
Echoes(h, from) == pc[h] = from /\ pc'[h] = "recv" /\ pos[h] >= Len(Contents(log))

\* Until the device drops its first command, the echoes of a connection that has
\* sent no seek command add up to the whole file, each byte once and in order,
\* whatever other clients and the timer append meanwhile and although a read that
\* fails ends an echo early (handler.c:165).
EchoesAddUp ==
  [][\A h \in Conns :
       Echoes(h, "echo") /\ drops = 0 /\ (\A i \in DOMAIN taken[h] : ~IsSeek(taken[h][i])) =>
         sent'[h] = Contents(log)]_vars

\* Until then the client that sends the seek command X,Y gets the bytes from byte Y
\* of command X to the end of the device, those of commands appended meanwhile too.
SeekEchoesFromCommand ==
  [][\A h \in Conns :
       Echoes(h, "echo_seek") /\ drops = 0 =>
         LET x == write_cmd(data[h])
             y == write_cmd_offset(data[h])
         IN  sent'[h] = SubSeq(log[x + 1], y + 1, Len(log[x + 1]))
                        \o Contents(SubSeq(log, x + 2, Len(log)))]_vars

\* The threads keep to what the process expects of them: among other things, each
\* way out of append_packet gives the mutex back.
Protocol == INSTANCE ConnectionProtocol WITH
  device <- UseCharDevice, valid <- TRUE,
  holder <- file_mutex,
  state  <- [h \in Conns |-> IF \E g \in Conns : pc[g] = "killed" THEN "none"
                             ELSE IF pc[h] \in {"start", "append", "done"} THEN pc[h]
                             ELSE "serving"]
FollowsProtocol == Protocol!Spec

\* Every connection ends once its client is done.
Finishes == \A h \in Conns : <>(pc[h] \in {"done", "killed"})

-----------------------------------------------------------------------------
(* What a comment of handler.c says, and the code does not do.             *)

\* part is a run of consecutive elements of whole.
Occurs(part, whole) ==
  \E i \in 0 .. Len(whole) - Len(part) : SubSeq(whole, i + 1, i + Len(part)) = part

\* handler.c:136 "Write full file contents back to client.": at the least, a
\* client's own packet comes back, whether or not the device has dropped others.
EchoesOwnPacket ==
  [][\A h \in Conns : Echoes(h, "echo") => Occurs(packet[h], sent'[h])]_vars

=============================================================================
