------------------------- MODULE AesdHandlerProofs --------------------------
(***************************************************************************)
(* data_buffer is large enough, and the threads follow the protocol of     *)
(* ConnectionProtocol, for any clients, any BUFFER_SIZE and any way in     *)
(* which recv splits what they send.                                       *)
(***************************************************************************)
EXTENDS AesdHandler, SequenceTheorems, TLAPS

\* BufferBounds is not inductive: a short packet is stored without realloc, and
\* fits because data_buffer never has less than BUFFER_SIZE bytes.
IInv ==
  /\ pc \in [Conns -> Labels] /\ cap \in [Conns -> Nat]
  /\ data \in [Conns -> Seq(Byte)] /\ stream \in [Conns -> Seq(Byte)]
  /\ \A h \in Conns : pc[h] = "start" => data[h] = <<>>
  /\ \A h \in Conns : pc[h] \in Served => Len(data[h]) < cap[h] /\ BUFFER_SIZE <= cap[h]

LEMMA InitIInv == Init => IInv
  BY HandlerAssumption DEF Init, IInv, Labels, Served

\* What a step of thread h has to show.
LEMMA StepIInv ==
  ASSUME IInv, NEW h \in Conns, NEW l \in Labels \ {"start"}, NEW d \in Seq(Byte),
         NEW k \in Nat, NEW s \in Seq(Byte),
         pc' = [pc EXCEPT ![h] = l], data' = [data EXCEPT ![h] = d],
         cap' = [cap EXCEPT ![h] = k], stream' = [stream EXCEPT ![h] = s],
         l \in Served => Len(d) < k /\ BUFFER_SIZE <= k
  PROVE  IInv'
  BY DEF IInv

\* In particular a step that leaves data_buffer alone.
LEMMA QuietIInv ==
  ASSUME IInv, NEW h \in Conns, NEW l \in Labels \ {"start"},
         pc' = [pc EXCEPT ![h] = l], UNCHANGED <<data, cap, stream>>,
         l \in Served => pc[h] \in Served
  PROVE  IInv'
  BY DEF IInv

\* An empty data_buffer of BUFFER_SIZE bytes, or none for a thread that ends.
LEMMA EmptyIInv ==
  ASSUME IInv, NEW h \in Conns, NEW k \in {0, BUFFER_SIZE}, NEW l \in Labels \ {"start"},
         l \in Served => k = BUFFER_SIZE, pc' = [pc EXCEPT ![h] = l],
         data' = [data EXCEPT ![h] = <<>>], cap' = [cap EXCEPT ![h] = k], UNCHANGED stream
  PROVE  IInv'
<1>1. stream' = [stream EXCEPT ![h] = stream[h]] /\ stream[h] \in Seq(Byte)
  BY DEF IInv
<1>2. PICK d \in Seq(Byte) : d = <<>> /\ Len(d) = 0
  <2>1. <<>> \in Seq(Byte) /\ Len(<<>>) = 0
    BY EmptySeq
  <2> QED
    BY <2>1, Zenon
<1>3. k \in Nat /\ (l \in Served => Len(d) < k /\ BUFFER_SIZE <= k)
  BY <1>2, HandlerAssumption
<1>4. data' = [data EXCEPT ![h] = d]
  BY <1>2
<1> QED
  BY <1>1, <1>3, <1>4, StepIInv

LEMMA ResetIInv ==
  ASSUME IInv, NEW h \in Conns, NEW l \in Served, Reset(h, l), UNCHANGED stream
  PROVE  IInv'
  BY EmptyIInv DEF Reset, Goto, Served, Labels

LEMMA StartIInv ==
  ASSUME IInv, NEW h \in Conns, Start(h)
  PROVE  IInv'
<1>1. data' = [data EXCEPT ![h] = <<>>] /\ UNCHANGED stream
  BY DEF IInv, Start
<1>2. CASE cap' = [cap EXCEPT ![h] = BUFFER_SIZE] /\ Goto(h, "recv")
  BY <1>1, <1>2, EmptyIInv DEF Goto, Served, Labels
<1>3. CASE Goto(h, "done") /\ UNCHANGED cap
  BY <1>3, QuietIInv DEF Start, Goto, Served, Labels
<1> QED
  BY <1>2, <1>3 DEF Start

\* The bytes recv returned and a '\0' fit, with or without realloc.
LEMMA RecvIInv ==
  ASSUME IInv, NEW h \in Conns, recv(h)
  PROVE  IInv'
<1>1. /\ data[h] \in Seq(Byte) /\ stream[h] \in Seq(Byte) /\ cap[h] \in Nat
      /\ Len(data[h]) < cap[h] /\ BUFFER_SIZE <= cap[h] /\ BUFFER_SIZE \in Nat
      /\ Len(data[h]) \in Nat /\ Len(stream[h]) \in Nat
  BY HandlerAssumption DEF recv, IInv, Served
<1>2. PICK n \in 1 .. Min({BUFFER_SIZE - 1, Len(stream[h])}) :
        LET len   == Len(data[h]) + n
            bytes == data[h] \o SubSeq(stream[h], 1, n)
        IN  /\ stream' = [stream EXCEPT ![h] = SubSeq(@, n + 1, Len(@))]
            /\ \/ /\ data' = [data EXCEPT ![h] = bytes]
                  /\ cap' = [cap EXCEPT ![h] = Grown(len, cap[h])]
                  /\ Goto(h, CASE IsSeek(bytes) -> "seek"
                               [] ~IsSeek(bytes) /\ NEWLINE \in Range(bytes) -> "lock"
                               [] OTHER -> "recv")
               \/ /\ len >= BUFFER_SIZE
                  /\ Goto(h, "closing")
                  /\ UNCHANGED <<data, cap>>
  BY DEF recv
<1> DEFINE len   == Len(data[h]) + n
           bytes == data[h] \o SubSeq(stream[h], 1, n)
           rest  == SubSeq(stream[h], n + 1, Len(stream[h]))
           size  == Grown(len, cap[h])
           label == CASE IsSeek(bytes) -> "seek"
                      [] ~IsSeek(bytes) /\ NEWLINE \in Range(bytes) -> "lock"
                      [] OTHER -> "recv"
<1>3. n \in Nat /\ 1 <= n /\ n <= Len(stream[h])
  <2>1. Min({BUFFER_SIZE - 1, Len(stream[h])}) \in {BUFFER_SIZE - 1, Len(stream[h])}
        /\ Min({BUFFER_SIZE - 1, Len(stream[h])}) <= Len(stream[h])
    <3> DEFINE lesser == IF BUFFER_SIZE - 1 <= Len(stream[h]) THEN BUFFER_SIZE - 1
                         ELSE Len(stream[h])
    <3>1. lesser \in {BUFFER_SIZE - 1, Len(stream[h])}
          /\ \A y \in {BUFFER_SIZE - 1, Len(stream[h])} : lesser <= y
      BY <1>1
    <3> QED
      BY <3>1, <1>1 DEF Min
  <2> QED
    BY <2>1, <1>1
<1>4. SubSeq(stream[h], 1, n) \in Seq(Byte) /\ Len(SubSeq(stream[h], 1, n)) = n
  BY <1>1, <1>3
<1>5. bytes \in Seq(Byte) /\ Len(bytes) = len
  BY <1>1, <1>4
<1>6. rest \in Seq(Byte)
  BY <1>1, <1>3
<1>7. stream' = [stream EXCEPT ![h] = rest]
  BY <1>2 DEF IInv
<1>8. CASE /\ data' = [data EXCEPT ![h] = bytes] /\ cap' = [cap EXCEPT ![h] = size]
           /\ Goto(h, label)
  <2>1. size \in Nat /\ len < size /\ BUFFER_SIZE <= size
    BY <1>1, <1>3, HandlerAssumption DEF Grown
  <2>2. label \in {"seek", "lock", "recv"}
    OBVIOUS
  <2> HIDE DEF len, bytes, rest, size, label
  <2> QED
    BY <1>5, <1>6, <1>7, <1>8, <2>1, <2>2, StepIInv DEF Goto, Served, Labels
<1>9. CASE Goto(h, "closing") /\ UNCHANGED <<data, cap>>
  <2>1. data' = [data EXCEPT ![h] = data[h]] /\ cap' = [cap EXCEPT ![h] = cap[h]]
    BY <1>9 DEF IInv
  <2> HIDE DEF rest
  <2> QED
    BY <1>1, <1>6, <1>7, <1>9, <2>1, StepIInv DEF Goto, Served, Labels
<1> QED
  BY <1>2, <1>8, <1>9

LEMMA SeekIInv ==
  ASSUME IInv, NEW h \in Conns, seek(h)
  PROVE  IInv'
<1>1. CASE SeekParses(data[h])
  <2>1. \/ Goto(h, "echo_seek") /\ UNCHANGED <<data, cap, stream>>
        \/ Goto(h, "closing") /\ UNCHANGED <<data, cap, stream>>
    BY <1>1 DEF seek, buffer
  <2>2. pc[h] = "seek"
    BY DEF seek
  <2> QED
    BY <2>1, <2>2, QuietIInv DEF Goto, Served, Labels
<1>2. CASE ~SeekParses(data[h])
  BY <1>2, ResetIInv DEF seek, Served
<1> QED
  BY <1>1, <1>2

LEMMA AppendIInv ==
  ASSUME IInv, NEW h \in Conns, append(h)
  PROVE  IInv'
<1>1. \/ Reset(h, "echo") /\ UNCHANGED stream
      \/ Goto(h, "closing") /\ UNCHANGED <<data, cap, stream>>
  BY DEF append, buffer
<1>2. CASE Reset(h, "echo") /\ UNCHANGED stream
  BY <1>2, ResetIInv DEF Served
<1>3. CASE Goto(h, "closing") /\ UNCHANGED <<data, cap, stream>>
  BY <1>3, QuietIInv DEF Goto, Served, Labels
<1> QED
  BY <1>1, <1>2, <1>3

LEMMA WriteToClientIInv ==
  ASSUME IInv, NEW h \in Conns, write_to_client(h)
  PROVE  IInv'
<1>1. UNCHANGED stream /\ pc[h] \in Served
  BY DEF write_to_client, Served
<1>2. \/ UNCHANGED <<pc, data, cap>>
      \/ Goto(h, "closing") /\ UNCHANGED <<data, cap>>
      \/ Goto(h, "recv") /\ UNCHANGED <<data, cap>>
      \/ Reset(h, "recv")
  BY DEF write_to_client, buffer
<1>3. CASE UNCHANGED <<pc, data, cap>>
  BY <1>1, <1>3 DEF IInv
<1>4. CASE (Goto(h, "closing") \/ Goto(h, "recv")) /\ UNCHANGED <<data, cap>>
  BY <1>1, <1>4, QuietIInv DEF Goto, Labels
<1>5. CASE Reset(h, "recv")
  BY <1>1, <1>5, ResetIInv DEF Served
<1> QED
  BY <1>2, <1>3, <1>4, <1>5

\* Threads that are gone have no data_buffer; the others keep theirs.
LEMMA GoneIInv ==
  ASSUME IInv, NEW E \in SUBSET Conns, NEW l \in {"done", "killed"}, Gone(E, l)
  PROVE  IInv'
<1>1. /\ pc' = [h \in Conns |-> IF h \in E THEN l ELSE pc[h]]
      /\ data' = [h \in Conns |-> IF h \in E THEN <<>> ELSE data[h]]
      /\ stream' = [h \in Conns |-> IF h \in E THEN <<>> ELSE stream[h]]
      /\ cap' = [h \in Conns |-> IF h \in E THEN 0 ELSE cap[h]]
  BY DEF Gone
<1>2. <<>> \in Seq(Byte)
  BY EmptySeq
<1>3. pc' \in [Conns -> Labels] /\ cap' \in [Conns -> Nat]
  BY <1>1 DEF IInv, Labels
<1>4. data' \in [Conns -> Seq(Byte)] /\ stream' \in [Conns -> Seq(Byte)]
  BY <1>1, <1>2 DEF IInv
<1>5. \A h \in Conns : pc'[h] \in Served \cup {"start"} =>
        pc'[h] = pc[h] /\ data'[h] = data[h] /\ cap'[h] = cap[h]
  BY <1>1 DEF Served
<1> QED
  BY <1>3, <1>4, <1>5 DEF IInv

LEMMA NextIInv == IInv /\ [Next]_vars => IInv'
<1> SUFFICES ASSUME IInv, [Next]_vars PROVE IInv'
  OBVIOUS
<1>1. CASE UNCHANGED vars \/ alarm_handler
  BY <1>1 DEF vars, alarm_handler, IInv, buffer
<1>2. ASSUME NEW h \in Conns, handle_connection(h)
      PROVE  IInv'
  <2>1. CASE recv_end(h) \/ lock(h)
    BY <2>1, QuietIInv DEF recv_end, lock, Goto, Served, Labels, buffer
  <2>2. CASE sigpipe(h) \/ Finish(h)
    BY <2>2, GoneIInv DEF sigpipe, Finish
  <2> QED
    BY <1>2, <2>1, <2>2, StartIInv, RecvIInv, SeekIInv, AppendIInv, WriteToClientIInv
       DEF handle_connection
<1> QED
  BY <1>1, <1>2 DEF Next

\* handle_connection never writes past the end of data_buffer.
THEOREM BufferHolds == Spec => []BufferBounds
<1>1. IInv => BufferBounds
  BY DEF IInv, BufferBounds, Served
<1> QED
  BY <1>1, InitIInv, NextIInv, PTL DEF Spec

-----------------------------------------------------------------------------
(* The protocol.                                                           *)

\* A thread that appends to the regular file holds file_mutex; when SIGPIPE ends the
\* process it ends every thread.
Locks ==
  /\ UseCharDevice => file_mutex = NULL
  /\ ~UseCharDevice => \A h \in Conns : pc[h] = "append" => file_mutex = h
  /\ (\E g \in Conns : pc[g] = "killed") => \A h \in Conns : pc[h] \in {"done", "killed"}

\* What a step takes a live thread from and to.
Moves(h, l) ==
  /\ pc[h] \notin {"done", "killed"} /\ l # "killed" /\ pc' = [pc EXCEPT ![h] = l]
  /\ UNCHANGED UseCharDevice

\* Steps that keep their hands off the mutex.
LEMMA QuietLocks ==
  ASSUME IInv, Locks, NEW h \in Conns, NEW l, Moves(h, l), l # "append", UNCHANGED file_mutex
  PROVE  Locks'
  BY DEF IInv, Locks, Moves

\* The steps that stay in the loop, as moves.
LEMMA LoopMoves ==
  ASSUME IInv, NEW h \in Conns, recv(h) \/ recv_end(h) \/ seek(h) \/ write_to_client(h)
  PROVE  /\ pc[h] \in {"recv", "seek", "echo", "echo_seek"}
         /\ \E l \in {"recv", "seek", "lock", "echo", "echo_seek", "closing"} : Moves(h, l)
         /\ UNCHANGED <<file_mutex, exists>>
<1>1. CASE recv(h)
  BY <1>1 DEF recv, Moves, Goto, file
<1>2. CASE recv_end(h)
  BY <1>2 DEF recv_end, Moves, Goto, file
<1>3. CASE seek(h)
  BY <1>3 DEF seek, Reset, Moves, Goto, file
<1>4. CASE write_to_client(h)
  <2>1. /\ pc[h] \in {"echo", "echo_seek"} /\ UNCHANGED <<UseCharDevice, file_mutex, exists>>
        /\ pc' = pc \/ \E l \in {"recv", "closing"} : pc' = [pc EXCEPT ![h] = l]
    BY <1>4 DEF write_to_client, Reset, Goto, file
  <2>2. pc = [pc EXCEPT ![h] = pc[h]]
    BY DEF IInv
  <2> QED
    BY <2>1, <2>2 DEF Moves
<1> QED
  BY <1>1, <1>2, <1>3, <1>4

\* append gives the mutex back on each of its ways out.
LEMMA AppendMoves ==
  ASSUME IInv, Locks, NEW h \in Conns, append(h)
  PROVE  /\ pc[h] = "append" /\ \E l \in {"echo", "closing"} : Moves(h, l)
         /\ file_mutex' = IF file_mutex = h THEN NULL ELSE file_mutex
         /\ exists' \in {exists, TRUE}
<1>1. pc[h] = "append" /\ (\E l \in {"echo", "closing"} : Moves(h, l)) /\ exists' \in {exists, TRUE}
  BY DEF append, Reset, Moves, Goto
<1>2. file_mutex' = IF file_mutex = h THEN NULL ELSE file_mutex
  BY HandlerAssumption DEF append, Locks
<1> QED
  BY <1>1, <1>2

LEMMA NextLocks ==
  ASSUME IInv, Locks, [Next]_vars
  PROVE  Locks'
<1>1. CASE UNCHANGED vars \/ alarm_handler
  BY <1>1 DEF vars, file, alarm_handler, Locks
<1>2. ASSUME NEW h \in Conns, Start(h)
      PROVE  Locks'
  <2>1. Moves(h, "recv") \/ Moves(h, "done")
    BY <1>2 DEF Start, Goto, Moves, file
  <2> QED
    BY <1>2, <2>1, QuietLocks DEF Start
<1>3. ASSUME NEW h \in Conns, recv(h) \/ recv_end(h) \/ seek(h) \/ write_to_client(h)
      PROVE  Locks'
  BY <1>3, LoopMoves, QuietLocks
<1>4. ASSUME NEW h \in Conns, lock(h)
      PROVE  Locks'
  BY <1>4, HandlerAssumption DEF lock, Goto, file, IInv, Locks
<1>5. ASSUME NEW h \in Conns, append(h)
      PROVE  Locks'
  BY <1>5, AppendMoves, HandlerAssumption DEF IInv, Locks, Moves
<1>6. ASSUME NEW h \in Conns, sigpipe(h)
      PROVE  Locks'
  BY <1>6 DEF sigpipe, Gone, file, IInv, Locks
<1>7. ASSUME NEW h \in Conns, Finish(h)
      PROVE  Locks'
  BY <1>7 DEF Finish, Gone, file, IInv, Locks
<1> QED
  BY <1>1, <1>2, <1>3, <1>4, <1>5, <1>6, <1>7 DEF Next, handle_connection

\* A move of one thread, seen through the refinement mapping.
Mapped(l) == IF l \in {"start", "append", "done"} THEN l ELSE "serving"

LEMMA MappedMove ==
  ASSUME IInv, Locks, Locks', NEW h \in Conns, NEW l, Moves(h, l)
  PROVE  Protocol!Move(h, Mapped(pc[h]), Mapped(l))
<1>1. (\A g \in Conns : pc[g] # "killed") /\ \A g \in Conns : pc'[g] # "killed"
  BY DEF IInv, Locks, Moves
<1> QED
  BY <1>1 DEF IInv, Moves, Mapped, Protocol!Move

LEMMA ProtocolStep ==
  ASSUME IInv, Locks, Locks', [Next]_vars
  PROVE  [Protocol!Next]_(Protocol!vars)
<1>1. CASE UNCHANGED vars
  BY <1>1 DEF vars, file, Protocol!vars
<1>2. CASE alarm_handler
  <2>1. Protocol!Surroundings /\ UNCHANGED UseCharDevice
    BY <1>2 DEF alarm_handler, Protocol!Surroundings
  <2> QED
    BY <2>1 DEF Protocol!Next
<1>3. ASSUME NEW h \in Conns, Start(h)
      PROVE  Protocol!Next
  <2>1. \/ exists /\ Moves(h, "recv") /\ UNCHANGED <<file_mutex, exists>>
        \/ Moves(h, "done") /\ UNCHANGED <<file_mutex, exists>>
    BY <1>3 DEF Start, Goto, Moves, file
  <2>2. pc[h] = "start"
    BY <1>3 DEF Start
  <2>3. Protocol!Open(h) /\ UNCHANGED UseCharDevice
    BY <2>1, <2>2, MappedMove DEF Protocol!Open, Mapped, Moves
  <2> QED
    BY <2>3 DEF Protocol!Next
<1>4. ASSUME NEW h \in Conns, recv(h) \/ recv_end(h) \/ seek(h) \/ write_to_client(h)
      PROVE  UNCHANGED Protocol!vars
  <2>1. Protocol!Move(h, "serving", "serving") /\ UNCHANGED <<UseCharDevice, file_mutex, exists>>
    BY <1>4, LoopMoves, MappedMove DEF Mapped, Moves
  <2> QED
    BY <2>1 DEF Protocol!Move, Protocol!vars
<1>5. ASSUME NEW h \in Conns, lock(h)
      PROVE  Protocol!Next
  <2>1. Moves(h, "append") /\ pc[h] = "lock" /\ UNCHANGED exists
    BY <1>5 DEF lock, Goto, Moves, file
  <2>2. Protocol!Move(h, "serving", "append")
    BY <2>1, MappedMove DEF Mapped
  <2>3. Protocol!Lock(h) /\ UNCHANGED UseCharDevice
    BY <1>5, <2>1, <2>2 DEF lock, Protocol!Lock, Moves
  <2> QED
    BY <2>3 DEF Protocol!Next
<1>6. ASSUME NEW h \in Conns, append(h)
      PROVE  Protocol!Next
  <2>1. Protocol!Move(h, "append", "serving") /\ UNCHANGED UseCharDevice
    BY <1>6, AppendMoves, MappedMove DEF Mapped, Moves
  <2>2. Protocol!Unlock(h)
    BY <1>6, <2>1, AppendMoves DEF Protocol!Unlock
  <2> QED
    BY <2>1, <2>2 DEF Protocol!Next
<1>7. ASSUME NEW h \in Conns, Finish(h)
      PROVE  Protocol!Next
  <2>1. Moves(h, "done") /\ pc[h] = "closing" /\ UNCHANGED <<file_mutex, exists>>
    BY <1>7 DEF Finish, Gone, Moves, file, IInv
  <2>2. Protocol!Finish(h) /\ UNCHANGED UseCharDevice
    BY <2>1, MappedMove DEF Protocol!Finish, Mapped, Moves
  <2> QED
    BY <2>2 DEF Protocol!Next
<1>8. ASSUME NEW h \in Conns, sigpipe(h)
      PROVE  Protocol!Next
  <2>1. pc'[h] = "killed" /\ file_mutex' = NULL /\ UNCHANGED <<UseCharDevice, exists>>
    BY <1>8 DEF sigpipe, Gone, file
  <2>2. Protocol!End
    BY <2>1 DEF Protocol!End
  <2> QED
    BY <2>1, <2>2 DEF Protocol!Next
<1> QED
  BY <1>1, <1>2, <1>3, <1>4, <1>5, <1>6, <1>7, <1>8 DEF Next, handle_connection

\* The connection threads follow the protocol that aesdsocket's model assumes of
\* them: open before serving, append only under the mutex, which every way out of
\* append_packet gives back, and finish once.
THEOREM ThreadsFollowProtocol == Spec => FollowsProtocol
<1>1. Init => Protocol!Init
  BY DEF Init, Protocol!Init
<1>2. Init => Locks
  BY DEF Init, Locks
<1>3. IInv /\ Locks /\ [Next]_vars => Locks'
  BY NextLocks
<1>4. IInv /\ Locks /\ Locks' /\ [Next]_vars => [Protocol!Next]_(Protocol!vars)
  BY ProtocolStep
<1> QED
  BY <1>1, <1>2, <1>3, <1>4, InitIInv, NextIInv, PTL DEF Spec, FollowsProtocol, Protocol!Spec

=============================================================================
