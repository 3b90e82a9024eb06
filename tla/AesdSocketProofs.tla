-------------------------- MODULE AesdSocketProofs --------------------------
(***************************************************************************)
(* The nodes of the list of connections, and the threads that use them,    *)
(* for any number of nodes and either build of aesdsocket.                 *)
(***************************************************************************)
EXTENDS AesdSocket, TLAPS

\* The part of TypeOK the argument needs.
Types ==
  /\ first \in Nodes \cup {NULL} /\ next \in [Nodes -> Nodes \cup {NULL}]
  /\ allocated \subseteq Nodes
  /\ done \in [Nodes -> BOOLEAN]
  /\ thread \in [Nodes -> {"none", "start", "serving", "append", "returning", "exited"}]
  /\ cur_node \in Nodes \cup {NULL} /\ tmp_node \in Nodes \cup {NULL}

\* The pointers of a singly linked list of the nodes in A: they stay in A, no two
\* meet, none leads back to the head f, and along them the rank r grows.
Linked(f, nx, A, r) ==
  /\ r \in [Nodes -> Int]
  /\ f \in A \cup {NULL}
  /\ \A n \in A : nx[n] \in A \cup {NULL}
  /\ \A n \in A : nx[n] # NULL => nx[n] # f /\ r[n] < r[nx[n]]
  /\ \A m, n \in A : nx[m] = nx[n] /\ nx[m] # NULL => m = n

List == \E r \in [Nodes -> Int] : Linked(first, next, allocated, r)

\* Which nodes have a thread; the node main has inserted has none yet.
Owned ==
  /\ \A n \in Nodes : thread[n] # "none" => n \in allocated
  /\ main \notin {"create", "create_error", "stuck"} => \A n \in allocated : thread[n] # "none"
  /\ main \in {"create", "create_error"} =>
       /\ first \in allocated /\ thread[first] = "none" /\ ~done[first]
       /\ \A n \in allocated \ {first} : thread[n] # "none"

\* A thread whose done is set uses neither its node nor the file again.
DoneIsLast ==
  \A n \in Nodes : done[n] /\ thread[n] # "none" => thread[n] \in {"returning", "exited"}

\* The variables of reap_threads.
Cursor ==
  /\ Reaping => cur_node \in allocated \cup {NULL}
  /\ Joining => cur_node \in allocated /\ done[cur_node] /\ tmp_node = next[cur_node]

\* NodesNotFreed and JoinReturns are not inductive: that the node after the one
\* being freed is another one, and is not freed with it, depends on the shape of
\* the list, and that a thread will return on what done says of it.
IInv == Types /\ List /\ Owned /\ DoneIsLast /\ Cursor

\* SLIST_INSERT_HEAD makes a list with one more node.
LEMMA InsertLinked ==
  ASSUME Types, NEW r \in [Nodes -> Int], Linked(first, next, allocated, r),
         NEW n \in Nodes \ allocated, SLIST_INSERT_HEAD(n), allocated' = allocated \cup {n}
  PROVE  List'
<1> DEFINE s == [r EXCEPT ![n] = IF first = NULL THEN 0 ELSE r[first] - 1]
<1>1. s \in [Nodes -> Int]
  BY DEF Types, Linked
<1>2. Linked(first', next', allocated', s)
  <2>1. s[n] = IF first = NULL THEN 0 ELSE r[first] - 1
    OBVIOUS
  <2>2. \A m \in allocated : s[m] = r[m]
    BY DEF Types
  <2>3. first' = n /\ next'[n] = first /\ \A m \in allocated : next'[m] = next[m] /\ m # n
    BY DEF SLIST_INSERT_HEAD, Types
  <2>4. NULL \notin Nodes
    BY SocketAssumption
  <2> HIDE DEF s
  <2>5. \A m \in allocated' : next'[m] \in allocated' \cup {NULL}
    BY <2>3, <2>4 DEF Linked, Types
  <2>6. \A m \in allocated' : next'[m] # NULL => next'[m] # first' /\ s[m] < s[next'[m]]
    <3> SUFFICES ASSUME NEW m \in allocated', next'[m] # NULL
                 PROVE  next'[m] # first' /\ s[m] < s[next'[m]]
      OBVIOUS
    <3>1. CASE m = n
      BY <3>1, <2>1, <2>2, <2>3, <2>4 DEF Linked, Types
    <3>2. CASE m # n
      BY <3>2, <2>1, <2>2, <2>3, <2>4 DEF Linked, Types
    <3> QED
      BY <3>1, <3>2
  <2>7. \A l, m \in allocated' : next'[l] = next'[m] /\ next'[l] # NULL => l = m
    BY <2>3, <2>4 DEF Linked, Types
  <2> QED
    BY <1>1, <2>3, <2>5, <2>6, <2>7 DEF Linked
<1> QED
  BY <1>1, <1>2 DEF List

\* SLIST_REMOVE leaves a list of the other nodes, the next one among them.
LEMMA RemoveLinked ==
  ASSUME Types, NEW r \in [Nodes -> Int], Linked(first, next, allocated, r),
         NEW n \in allocated, SLIST_REMOVE(n), allocated' = allocated \ {n}
  PROVE  List' /\ next[n] \in allocated' \cup {NULL}
<1>1. NULL \notin Nodes /\ n \in Nodes
  BY SocketAssumption DEF Types
<1>2. next[n] # n
  BY <1>1 DEF Linked, Types
<1>3. next[n] \in allocated' \cup {NULL}
  BY <1>1, <1>2 DEF Linked
<1>4. CASE first = n
  <2>1. first' = next[n] /\ \A m \in allocated' : next'[m] = next[m]
    BY <1>4 DEF SLIST_REMOVE, Types
  <2>2. Linked(first', next', allocated', r)
    BY <1>1, <1>3, <1>4, <2>1 DEF Linked, Types
  <2> QED
    BY <2>2, <1>3 DEF List
<1>5. CASE first # n
  <2>1. first' = first /\ \A m \in allocated' : next'[m] = IF next[m] = n THEN next[n] ELSE next[m]
    BY <1>5 DEF SLIST_REMOVE, Types
  <2>2. \A m \in allocated' : next'[m] \in allocated' \cup {NULL}
    BY <1>1, <1>3, <2>1 DEF Linked, Types
  <2>3. ASSUME NEW m \in allocated', next'[m] # NULL
        PROVE  next'[m] # first' /\ r[m] < r[next'[m]]
    <3>1. CASE next[m] = n
      <4>1. r[m] < r[n] /\ r[n] < r[next[n]] /\ next[n] # first
        BY <3>1, <2>1, <2>3, <1>1 DEF Linked, Types
      <4>2. r[m] \in Int /\ r[n] \in Int /\ r[next[n]] \in Int
        BY <3>1, <2>1, <2>3, <1>1 DEF Linked, Types
      <4> QED
        BY <3>1, <4>1, <4>2, <2>1
    <3>2. CASE next[m] # n
      BY <3>2, <2>1, <2>3 DEF Linked
    <3> QED
      BY <3>1, <3>2
  <2>4. \A l, m \in allocated' : next'[l] = next'[m] /\ next'[l] # NULL => l = m
    BY <1>1, <2>1 DEF Linked, Types
  <2>5. Linked(first', next', allocated', r)
    BY <2>1, <2>2, <2>3, <2>4, <1>5 DEF Linked
  <2> QED
    BY <2>5, <1>3 DEF List
<1> QED
  BY <1>4, <1>5

LEMMA InitIInv == Init => IInv
<1> SUFFICES ASSUME Init PROVE IInv
  OBVIOUS
<1>1. Linked(first, next, allocated, [n \in Nodes |-> 0])
  BY DEF Init, Linked
<1>2. List
  BY <1>1 DEF List
<1> QED
  BY <1>2 DEF Init, IInv, Types, Owned, DoneIsLast, Cursor, Reaping, Joining

\* The end of the process leaves what Init starts with.
LEMMA ExitIInv == Exit => IInv'
<1> SUFFICES ASSUME Exit PROVE IInv'
  OBVIOUS
<1>1. Linked(first', next', allocated', [n \in Nodes |-> 0])
  BY DEF Exit, Linked
<1>2. List'
  BY <1>1 DEF List
<1> QED
  BY <1>2 DEF Exit, Goto, IInv, Types, Owned, DoneIsLast, Cursor, Reaping, Joining

\* Steps that leave the list and the threads alone, and after which main is where
\* it was, or outside reap_threads and pthread_create, or at the head of the list.
LEMMA QuietIInv ==
  ASSUME IInv, UNCHANGED <<list, threads>>,
         \/ UNCHANGED <<main, reap>>
         \/ main' \notin {"create", "create_error", "reap", "reap_last", "join", "join_last"}
            /\ (main \in {"create", "create_error", "stuck"} => main' = "stuck") /\ UNCHANGED reap
         \/ main' = "reap_last" /\ main \notin {"create", "create_error", "stuck"}
            /\ cur_node' = first /\ UNCHANGED tmp_node
  PROVE  IInv'
<1>1. Types' /\ DoneIsLast'
  BY DEF IInv, Types, DoneIsLast, list, threads, reap
<1>2. List'
  BY DEF IInv, List, list
<1>3. first \in allocated \cup {NULL}
  BY DEF IInv, List, Linked
<1>4. Owned' /\ Cursor'
  BY <1>3 DEF IInv, Owned, Cursor, Reaping, Joining, list, threads, reap
<1> QED
  BY <1>1, <1>2, <1>4 DEF IInv

\* Steps of a connection thread.
LEMMA ThreadIInv ==
  ASSUME IInv, NEW n \in Nodes,
         open_file(n) \/ lock_file(n) \/ unlock_file(n) \/ set_done(n) \/ thread_exits(n)
  PROVE  IInv'
<1> USE DEF IInv
<1>1. UNCHANGED <<list, main, reap>> /\ List'
  BY DEF open_file, lock_file, unlock_file, set_done, thread_exits, List, list, reap
<1>2. Types'
  BY <1>1 DEF open_file, lock_file, unlock_file, set_done, thread_exits, Types, list, reap
<1>3. DoneIsLast'
  BY DEF open_file, lock_file, unlock_file, set_done, thread_exits, Types, DoneIsLast
<1>4. Owned'
  BY <1>1 DEF open_file, lock_file, unlock_file, set_done, thread_exits, Types, Owned, list
<1>5. Cursor'
  BY <1>1 DEF open_file, lock_file, unlock_file, set_done, thread_exits, Types, Cursor, Reaping, Joining,
              list, reap
<1> QED
  BY <1>1, <1>2, <1>3, <1>4, <1>5

LEMMA InsertIInv ==
  ASSUME IInv, insert
  PROVE  IInv'
<1>1. CASE main' = "insert_error"
  <2>1. UNCHANGED <<list, threads, reap>> /\ main = "insert"
    BY <1>1 DEF insert, Goto, list, threads, reap
  <2> QED
    BY <1>1, <2>1, QuietIInv
<1>2. CASE main' # "insert_error"
  <2>1. PICK n \in Nodes \ allocated :
          /\ allocated' = allocated \cup {n}
          /\ done' = [done EXCEPT ![n] = FALSE]
          /\ SLIST_INSERT_HEAD(n)
          /\ main' = "create"
    BY <1>2 DEF insert, Goto
  <2>2. UNCHANGED <<thread, file_mutex, reap>> /\ main = "insert"
    BY DEF insert
  <2>3. PICK r \in [Nodes -> Int] : Linked(first, next, allocated, r)
    BY DEF IInv, List
  <2>4. List'
    BY <2>1, <2>3, InsertLinked DEF IInv
  <2>5. first' = n /\ thread[n] = "none"
    BY <2>1 DEF SLIST_INSERT_HEAD, IInv, Owned
  <2>6. Types'
    BY <2>1, <2>2 DEF IInv, Types, SLIST_INSERT_HEAD, reap
  <2>7. Owned' /\ DoneIsLast'
    BY <2>1, <2>2, <2>5 DEF IInv, Types, Owned, DoneIsLast
  <2>8. Cursor'
    BY <2>1, <2>2 DEF IInv, Cursor, Reaping, Joining
  <2> QED
    BY <2>4, <2>6, <2>7, <2>8 DEF IInv
<1> QED
  BY <1>1, <1>2

LEMMA CreateIInv ==
  ASSUME IInv, create
  PROVE  IInv'
<1>1. /\ main = "create" /\ first \in allocated /\ first \in Nodes /\ thread[first] = "none"
      /\ ~done[first] /\ UNCHANGED <<list, done, tmp_node>>
  BY DEF create, IInv, Owned, Types
<1>2. List'
  BY <1>1 DEF IInv, List, list
<1>3. CASE main' = "reap"
  <2>1. thread' = [thread EXCEPT ![first] = "start"] /\ cur_node' = first
    BY <1>3 DEF create, Goto
  <2>2. Types' /\ Owned' /\ DoneIsLast' /\ Cursor'
    BY <1>1, <1>3, <2>1 DEF IInv, Types, Owned, DoneIsLast, Cursor, Reaping, Joining, list
  <2> QED
    BY <1>2, <2>2 DEF IInv
<1>4. CASE main' # "reap"
  <2>1. main' = "create_error" /\ UNCHANGED <<thread, cur_node>>
    BY <1>4 DEF create, Goto
  <2>2. Types' /\ Owned' /\ DoneIsLast' /\ Cursor'
    BY <1>1, <2>1 DEF IInv, Types, Owned, DoneIsLast, Cursor, Reaping, Joining, list
  <2> QED
    BY <1>2, <2>2 DEF IInv
<1> QED
  BY <1>3, <1>4

LEMMA GiveUpIInv ==
  ASSUME IInv, give_up
  PROVE  IInv'
<1>1. main' = "loop" /\ UNCHANGED <<threads, reap>>
  BY DEF give_up, Goto
<1>2. CASE main = "insert_error"
  <2>1. UNCHANGED list
    BY <1>2 DEF give_up
  <2> QED
    BY <1>1, <1>2, <2>1, QuietIInv
<1>3. CASE main # "insert_error"
  <2>1. main = "create_error" /\ SLIST_REMOVE(first) /\ allocated' = allocated \ {first}
    BY <1>3 DEF give_up
  <2>2. first \in allocated /\ first \in Nodes /\ thread[first] = "none"
    BY <2>1 DEF IInv, Owned, Types
  <2>3. PICK r \in [Nodes -> Int] : Linked(first, next, allocated, r)
    BY DEF IInv, List
  <2>4. List'
    BY <2>1, <2>2, <2>3, RemoveLinked DEF IInv
  <2>5. Types'
    BY <1>1, <2>1, <2>2 DEF IInv, Types, SLIST_REMOVE, threads, reap
  <2>6. Owned' /\ DoneIsLast' /\ Cursor'
    BY <1>1, <2>1, <2>2 DEF IInv, Types, Owned, DoneIsLast, Cursor, Reaping, Joining, threads
  <2> QED
    BY <2>4, <2>5, <2>6 DEF IInv
<1> QED
  BY <1>2, <1>3

LEMMA ReapIInv ==
  ASSUME IInv, reap_threads
  PROVE  IInv'
<1>1. UNCHANGED <<list, threads>> /\ main \in {"reap", "reap_last"}
  BY DEF reap_threads
<1>2. List' /\ DoneIsLast'
  BY <1>1 DEF IInv, List, DoneIsLast, list, threads
<1>3. cur_node # NULL => /\ cur_node \in allocated /\ cur_node \in Nodes
                         /\ next[cur_node] \in allocated \cup {NULL}
  BY <1>1 DEF IInv, List, Linked, Cursor, Reaping, Types
<1>4. Types'
  BY <1>1, <1>3 DEF reap_threads, IInv, Types, list, threads, reap
<1>5. Owned' /\ Cursor'
  BY <1>1, <1>3 DEF reap_threads, Goto, IInv, Types, Owned, Cursor, Reaping, Joining, list,
                    threads, reap
<1> QED
  BY <1>2, <1>4, <1>5 DEF IInv

LEMMA JoinIInv ==
  ASSUME IInv, pthread_join
  PROVE  IInv'
<1>1. PICK r \in [Nodes -> Int] : Linked(first, next, allocated, r)
  BY DEF IInv, List
<1>2. /\ cur_node \in allocated /\ cur_node \in Nodes /\ tmp_node = next[cur_node]
      /\ main \in {"join", "join_last"} /\ main' \in {"reap", "reap_last"}
      /\ thread' = [thread EXCEPT ![cur_node] = "none"]
      /\ allocated' = allocated \ {cur_node}
      /\ cur_node' = tmp_node
      /\ done' = [done EXCEPT ![cur_node] = FALSE]
      /\ UNCHANGED tmp_node
  BY DEF pthread_join, Goto, IInv, Cursor, Joining, Types
<1>3. List' /\ next[cur_node] \in allocated' \cup {NULL}
  BY <1>1, <1>2, RemoveLinked DEF IInv, pthread_join
<1>4. Types'
  BY <1>2 DEF IInv, Types, pthread_join, SLIST_REMOVE
<1>5. Owned' /\ DoneIsLast' /\ Cursor'
  BY <1>2, <1>3 DEF IInv, Types, Owned, DoneIsLast, Cursor, Reaping, Joining
<1> QED
  BY <1>3, <1>4, <1>5 DEF IInv

LEMMA NextIInv == IInv /\ [Next]_vars => IInv'
<1> SUFFICES ASSUME IInv, [Next]_vars PROVE IInv'
  OBVIOUS
<1> USE DEF Goto
<1>1. CASE UNCHANGED vars
  BY <1>1, QuietIInv DEF vars
<1>2. CASE startup \/ return
  BY <1>2, QuietIInv, ExitIInv DEF startup, return, MainRuns
<1>3. CASE call_accept \/ accept \/ accept_error \/ syslog_returns \/ cleanup \/ unlink
  BY <1>3, QuietIInv DEF call_accept, accept, accept_error, syslog_returns, cleanup, unlink,
                         MainRuns
<1>4. CASE check_running
  BY <1>4, QuietIInv DEF check_running
<1>5. CASE insert \/ create \/ give_up
  BY <1>5, InsertIInv, CreateIInv, GiveUpIInv
<1>6. CASE reap_threads \/ pthread_join
  BY <1>6, ReapIInv, JoinIInv
<1>7. CASE Connect \/ alarm_writes \/ alarm_returns
  BY <1>7, QuietIInv DEF Connect, alarm_writes, alarm_returns
<1>8. CASE alarm_handler
  BY <1>8, QuietIInv DEF alarm_handler
<1>9. CASE signal_handler
  <2>1. CASE main = "start" /\ Exit
    BY <2>1, ExitIInv
  <2>2. CASE ~(main = "start" /\ Exit)
    BY <1>9, <2>2, QuietIInv DEF signal_handler
  <2> QED
    BY <2>1, <2>2
<1>10. ASSUME NEW n \in Nodes,
              \/ open_file(n) \/ lock_file(n) \/ unlock_file(n) \/ set_done(n)
              \/ thread_exits(n) \/ sigpipe(n)
       PROVE  IInv'
  BY <1>10, ThreadIInv, ExitIInv DEF sigpipe
<1> QED
  BY <1>1, <1>2, <1>3, <1>4, <1>5, <1>6, <1>7, <1>8, <1>9, <1>10 DEF Next, Main, Alarm

LEMMA Invariance == Spec => []IInv
  BY InitIInv, NextIInv, PTL DEF Spec

\* Neither a thread nor reap_threads uses a conn_node that has been freed.
THEOREM NodesStayAllocated == Spec => []NodesNotFreed
<1>1. IInv => NodesNotFreed
  <2> SUFFICES ASSUME IInv PROVE NodesNotFreed
    OBVIOUS
  <2>1. Joining => tmp_node \in allocated \cup {NULL} /\ cur_node # NULL
    BY SocketAssumption DEF IInv, Types, List, Linked, Cursor
  <2> QED
    BY <2>1 DEF NodesNotFreed, IInv, Owned, Cursor
<1> QED
  BY <1>1, Invariance, PTL

\* pthread_join of reap_threads never waits for a client.
THEOREM JoinsReturn == Spec => []JoinReturns
<1>1. IInv => JoinReturns
  BY DEF IInv, Types, Owned, DoneIsLast, Cursor, JoinReturns, Joining
<1> QED
  BY <1>1, Invariance, PTL

-----------------------------------------------------------------------------
(* The mutex and the file.                                                 *)

Leaving == {"unlink", "unlink_error", "return", "exited", "stuck"}

\* A thread that appends to the regular file holds file_mutex until main destroys
\* it, which main does on its way out and to no mutex that is held.
Locks ==
  /\ destroyed \in BOOLEAN
  /\ file \in Nat /\ made \in Nat /\ opened \in [Nodes -> Nat]
  /\ destroyed => main \in Leaving
  /\ UseCharDevice \/ destroyed => file_mutex = NULL
  /\ ~UseCharDevice /\ ~destroyed => \A n \in Nodes : thread[n] = "append" => file_mutex = n

LEMMA InitFiles ==
  ASSUME Init
  PROVE  Locks /\ SameFile
<1>1. file \in Nat /\ made \in Nat /\ opened \in [Nodes -> Nat]
  BY SocketAssumption DEF Init
<1>2. \A n \in Nodes : thread[n] = "none"
  BY DEF Init
<1>3. ~destroyed /\ destroyed \in BOOLEAN /\ file_mutex = NULL
  BY DEF Init
<1> QED
  BY <1>1, <1>2, <1>3 DEF Locks, SameFile

\* Steps that leave the threads and the file alone.
LEMMA QuietFiles ==
  ASSUME Locks, SameFile, UNCHANGED <<threads, disk>>,
         main \in Leaving => main' \in Leaving,
         main \in {"return", "exited", "stuck"} => main' \in {"return", "exited", "stuck"}
  PROVE  Locks' /\ SameFile'
  BY DEF Locks, SameFile, Leaving, threads, disk

LEMMA ExitFiles ==
  ASSUME Locks, Exit
  PROVE  Locks' /\ SameFile'
  BY DEF Exit, Goto, Locks, SameFile, Leaving

LEMMA NextFiles ==
  ASSUME IInv, Locks, SameFile, [Next]_vars
  PROVE  Locks' /\ SameFile'
<1> USE DEF Goto
<1>1. CASE UNCHANGED vars
  BY <1>1, QuietFiles DEF vars
<1>2. CASE \/ call_accept \/ accept \/ accept_error \/ syslog_returns \/ check_running
           \/ give_up \/ reap_threads
  BY <1>2, QuietFiles DEF call_accept, accept, accept_error, syslog_returns, check_running,
                          give_up, reap_threads, Leaving
<1>3. CASE startup \/ return
  BY <1>3, QuietFiles, ExitFiles DEF startup, return, Leaving
<1>4. CASE insert \/ create \/ pthread_join
  <2>1. /\ UNCHANGED <<file_mutex, disk>>
        /\ main \in {"insert", "create", "join", "join_last"} /\ main' \notin Leaving
    BY <1>4 DEF insert, create, pthread_join, Leaving
  <2>2. \A n \in Nodes : thread'[n] \in {"serving", "append"} => thread[n] = thread'[n]
    BY <1>4 DEF insert, create, pthread_join, IInv, Types, Owned, Cursor, Joining
  <2> QED
    BY <2>1, <2>2 DEF Locks, SameFile, Leaving, disk
<1>5. CASE cleanup
  <2>1. UNCHANGED <<threads, file, made, opened>> /\ main = "cleanup"
    BY <1>5 DEF cleanup
  <2>2. SameFile'
    BY <1>5, <2>1 DEF cleanup, SameFile, threads
  <2>3. CASE ~UseCharDevice /\ file_mutex = NULL
    <3>1. destroyed' = TRUE /\ main' = "unlink"
      BY <1>5, <2>3 DEF cleanup
    <3> QED
      BY <2>1, <2>2, <2>3, <3>1 DEF Locks, Leaving, threads
  <2>4. CASE ~(~UseCharDevice /\ file_mutex = NULL)
    <3>1. destroyed' = FALSE /\ destroyed = FALSE
      BY <1>5, <2>1, <2>4 DEF cleanup, Locks, Leaving
    <3> QED
      BY <2>1, <2>2, <3>1 DEF Locks, threads
  <2> QED
    BY <2>3, <2>4
<1>13. CASE unlink
  BY <1>13 DEF unlink, Locks, SameFile, Leaving, threads
<1>6. CASE Connect \/ alarm_writes \/ alarm_handler
  BY <1>6, QuietFiles DEF Connect, alarm_writes, alarm_handler, Leaving
<1>7. CASE alarm_returns
  BY <1>7 DEF alarm_returns, open_append, Locks, SameFile, threads
<1>8. CASE signal_handler
  <2>1. CASE main = "start" /\ Exit
    BY <2>1, ExitFiles
  <2>2. CASE ~(main = "start" /\ Exit)
    BY <1>8, <2>2, QuietFiles DEF signal_handler, Leaving
  <2> QED
    BY <2>1, <2>2
<1>9. ASSUME NEW n \in Nodes, open_file(n) \/ set_done(n) \/ thread_exits(n)
      PROVE  Locks' /\ SameFile'
  <2>1. UNCHANGED <<main, file, made, destroyed, file_mutex>>
    BY <1>9 DEF open_file, set_done, thread_exits, disk
  <2>2. \A m \in Nodes : /\ thread'[m] = "append" => thread[m] = "append"
                         /\ thread'[m] \in {"serving", "append"} =>
                              \/ thread[m] = thread'[m] /\ opened'[m] = opened[m]
                              \/ opened'[m] = file /\ file # 0
    BY <1>9 DEF open_file, set_done, thread_exits, IInv, Types, Locks, disk
  <2>3. opened' \in [Nodes -> Nat]
    BY <1>9 DEF open_file, set_done, thread_exits, Locks, disk
  <2> QED
    BY <2>1, <2>2, <2>3 DEF Locks, SameFile
<1>10. ASSUME NEW n \in Nodes, lock_file(n)
       PROVE  Locks' /\ SameFile'
  <2>1. UNCHANGED <<main, disk>> /\ thread[n] = "serving" /\ thread' = [thread EXCEPT ![n] = "append"]
    BY <1>10 DEF lock_file
  <2>2. SameFile'
    BY <2>1 DEF SameFile, IInv, Types, disk
  <2>3. CASE UseCharDevice \/ destroyed
    <3>1. file_mutex' = file_mutex
      BY <1>10, <2>3 DEF lock_file
    <3> QED
      BY <2>1, <2>2, <2>3, <3>1 DEF Locks, disk
  <2>4. CASE ~(UseCharDevice \/ destroyed)
    <3>1. file_mutex = NULL /\ file_mutex' = n
      BY <1>10, <2>4 DEF lock_file
    <3>2. \A m \in Nodes : thread'[m] = "append" => m = n
      BY <2>1, <2>4, <3>1, SocketAssumption DEF Locks, IInv, Types
    <3> QED
      BY <2>1, <2>2, <2>4, <3>1, <3>2 DEF Locks, disk
  <2> QED
    BY <2>3, <2>4
<1>11. ASSUME NEW n \in Nodes, unlock_file(n)
       PROVE  Locks' /\ SameFile'
  BY <1>11, SocketAssumption DEF unlock_file, open_append, Locks, SameFile, IInv, Types
<1>12. ASSUME NEW n \in Nodes, sigpipe(n)
       PROVE  Locks' /\ SameFile'
  BY <1>12, ExitFiles DEF sigpipe
<1> QED
  BY <1>1, <1>2, <1>3, <1>4, <1>5, <1>6, <1>7, <1>8, <1>9, <1>10, <1>11, <1>12,
     <1>13 DEF Next, Main, Alarm

\* As long as main has not removed it, threads read from the file they append to.
THEOREM ReadsWhatIsAppended == Spec => []SameFile
<1>1. Init => Locks /\ SameFile
  BY InitFiles
<1>2. IInv /\ (Locks /\ SameFile) /\ [Next]_vars => (Locks /\ SameFile)'
  BY NextFiles
<1> QED
  BY <1>1, <1>2, Invariance, PTL DEF Spec

-----------------------------------------------------------------------------
(* The protocol.                                                           *)

LEMMA ProtocolStep ==
  ASSUME IInv, Locks, [Next]_vars
  PROVE  [Protocol!Next]_(Protocol!vars)
<1> DEFINE state == [n \in Nodes |-> IF thread[n] \in {"returning", "exited"} THEN "done"
                                     ELSE thread[n]]
<1> USE DEF Goto
<1>1. CASE UNCHANGED <<thread, file_mutex, file, destroyed>>
  BY <1>1 DEF Protocol!vars
<1>2. CASE Exit
  <2>1. Protocol!End
    BY <1>2 DEF Exit, Protocol!End
  <2> QED
    BY <2>1 DEF Protocol!Next
<1>3. CASE cleanup \/ unlink \/ alarm_returns
  <2>1. UNCHANGED <<thread, file_mutex>>
    BY <1>3 DEF cleanup, unlink, alarm_returns, threads
  <2>2. \/ destroyed' = destroyed
        \/ file_mutex = NULL /\ destroyed' = TRUE
    <3>1. CASE cleanup
      <4>1. destroyed = FALSE
        BY <3>1 DEF cleanup, Locks, Leaving
      <4> QED
        BY <3>1, <4>1 DEF cleanup
    <3> QED
      BY <1>3, <3>1 DEF unlink, alarm_returns
  <2>3. (~destroyed)' \in IF file_mutex = NULL THEN {~destroyed, FALSE} ELSE {~destroyed}
    <3>1. CASE destroyed' = destroyed
      <4>1. (~destroyed)' = ~destroyed
        BY <3>1
      <4> QED
        BY <4>1, Zenon
    <3>2. CASE file_mutex = NULL /\ destroyed' = TRUE
      <4>1. (~destroyed)' = FALSE
        BY <3>2
      <4> QED
        BY <3>2, <4>1, Zenon
    <3> QED
      BY <2>2, <3>1, <3>2
  <2>4. Protocol!Surroundings
    BY <2>1, <2>3 DEF Protocol!Surroundings
  <2> QED
    BY <2>4 DEF Protocol!Next
<1>4. CASE create
  <2>1. CASE UNCHANGED thread
    BY <1>1, <1>4, <2>1 DEF create, disk
  <2>2. CASE ~UNCHANGED thread
    <3>1. PICK n \in Nodes : /\ thread[n] = "none" /\ thread' = [thread EXCEPT ![n] = "start"]
                             /\ UNCHANGED <<file_mutex, disk>>
      BY <1>4, <2>2 DEF create, IInv, Owned, Types
    <3>2. Protocol!Create(n) /\ UNCHANGED destroyed
      BY <3>1 DEF Protocol!Create, Protocol!Move, IInv, Types, disk
    <3> QED
      BY <3>2 DEF Protocol!Next
  <2> QED
    BY <2>1, <2>2
<1>5. CASE pthread_join
  <2>1. PICK n \in Nodes : /\ thread[n] = "exited" /\ thread' = [thread EXCEPT ![n] = "none"]
                           /\ UNCHANGED <<file_mutex, disk>>
    BY <1>5 DEF pthread_join, IInv, Cursor, Joining, Types
  <2>2. Protocol!Join(n) /\ UNCHANGED destroyed
    BY <2>1 DEF Protocol!Join, Protocol!Move, IInv, Types, disk
  <2> QED
    BY <2>2 DEF Protocol!Next
<1>6. ASSUME NEW n \in Nodes, open_file(n)
      PROVE  Protocol!Next
  <2>1. Protocol!Open(n) /\ UNCHANGED destroyed
    BY <1>6 DEF open_file, Protocol!Open, Protocol!Move, IInv, Types
  <2> QED
    BY <2>1 DEF Protocol!Next
<1>7. ASSUME NEW n \in Nodes, lock_file(n)
      PROVE  Protocol!Next
  <2>1. Protocol!Move(n, "serving", "append")
    BY <1>7 DEF lock_file, Protocol!Move, IInv, Types
  <2>2. Protocol!Lock(n) /\ UNCHANGED destroyed
    BY <1>7, <2>1 DEF lock_file, Protocol!Lock, disk
  <2> QED
    BY <2>2 DEF Protocol!Next
<1>8. ASSUME NEW n \in Nodes, unlock_file(n)
      PROVE  Protocol!Next
  <2>1. Protocol!Move(n, "append", "serving")
    BY <1>8 DEF unlock_file, Protocol!Move, IInv, Types
  <2>2. file_mutex' = IF file_mutex = n THEN NULL ELSE file_mutex
    BY <1>8, SocketAssumption DEF unlock_file, Locks
  <2>3. file # 0 => file' # 0
    BY <1>8 DEF unlock_file, open_append
  <2>4. Protocol!Unlock(n) /\ UNCHANGED destroyed
    BY <1>8, <2>1, <2>2, <2>3 DEF unlock_file, Protocol!Unlock
  <2> QED
    BY <2>4 DEF Protocol!Next
<1>9. ASSUME NEW n \in Nodes, set_done(n)
      PROVE  Protocol!Next
  <2>1. Protocol!Finish(n) /\ UNCHANGED destroyed
    BY <1>9 DEF set_done, Protocol!Finish, Protocol!Move, IInv, Types
  <2> QED
    BY <2>1 DEF Protocol!Next
<1>10. ASSUME NEW n \in Nodes, thread_exits(n)
       PROVE  UNCHANGED Protocol!vars
  <2>1. state' = state
    BY <1>10 DEF thread_exits, IInv, Types
  <2> QED
    BY <1>10, <2>1 DEF thread_exits, disk, Protocol!vars
<1>11. CASE \/ UNCHANGED vars \/ call_accept \/ accept \/ accept_error \/ syslog_returns
            \/ check_running \/ give_up \/ reap_threads \/ insert \/ Connect \/ alarm_writes
            \/ alarm_handler
  BY <1>1, <1>11 DEF vars, call_accept, accept, accept_error, syslog_returns, check_running,
                     give_up, reap_threads, insert, Connect, alarm_writes, alarm_handler,
                     threads, disk
<1>12. CASE signal_handler \/ startup
  BY <1>1, <1>2, <1>12 DEF signal_handler, startup, threads, disk
<1>13. CASE return \/ \E n \in Nodes : sigpipe(n)
  BY <1>2, <1>13 DEF return, sigpipe
<1> QED
  BY <1>3, <1>4, <1>5, <1>6, <1>7, <1>8, <1>9, <1>10, <1>11, <1>12, <1>13 DEF Next, Main, Alarm

\* aesdsocket and its threads follow the protocol; with AppendsAreExclusive of
\* ConnectionProtocolProofs, its threads append to the regular file one at a time.
THEOREM ServerFollowsProtocol == Spec => FollowsProtocol
<1>1. Init => Protocol!Init
  BY SocketAssumption DEF Init, Protocol!Init
<1>2. Init => Locks /\ SameFile
  BY InitFiles
<1>3. IInv /\ (Locks /\ SameFile) /\ [Next]_vars => (Locks /\ SameFile)'
  BY NextFiles
<1>4. IInv /\ (Locks /\ SameFile) /\ [Next]_vars => [Protocol!Next]_(Protocol!vars)
  BY ProtocolStep
<1> QED
  BY <1>1, <1>2, <1>3, <1>4, Invariance, PTL DEF Spec, FollowsProtocol, Protocol!Spec

=============================================================================
