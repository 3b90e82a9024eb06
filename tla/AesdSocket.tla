---------------------------- MODULE AesdSocket -----------------------------
(***************************************************************************)
(* The process aesdsocket (server/aesdsocket.c): main accepts connections, *)
(* starts a thread for each and joins those that have finished; SIGINT and *)
(* SIGTERM end it; in the build without the device a timer signal writes   *)
(* timestamps. Signals are delivered to the main thread, between any two   *)
(* of its steps. What a thread does with its connection is in module       *)
(* AesdHandler; here it only uses its node, the file and the file mutex.   *)
(***************************************************************************)
EXTENDS Integers, FiniteSets, FiniteSetsExt, TLC

CONSTANTS
  Nodes,          (* addresses malloc returns for a conn_node              *)
  NULL,
  UseCharDevice,  (* built with USE_AESD_CHAR_DEVICE                       *)
  Backlog         (* connections listen lets wait; 5 in the code           *)

ASSUME SocketAssumption ==
  /\ NULL \notin Nodes
  /\ UseCharDevice \in BOOLEAN
  /\ Backlog \in Nat \ {0}

VARIABLES
  server_running,
  waiting,     (* connections accept has not returned yet                  *)
  main,        (* where main is                                            *)
  first,       (* conn_node_head.slh_first                                 *)
  next,        (* nodes.sle_next of each node                              *)
  allocated,   (* the nodes that are allocated                             *)
  done,        (* the field done of each node                              *)
  thread,      (* the thread of each node: none, start, serving, append    *)
               (* (holding file_mutex), returning (done is set), exited    *)
  file_mutex,  (* the node whose thread holds main's file_mutex, or NULL   *)
  destroyed,   (* main has destroyed file_mutex                            *)
  file,        (* the file that has the name FILENAME; 0: none             *)
  made,        (* how many files have had that name                        *)
  opened,      (* the file each thread has open                            *)
  cur_node, tmp_node,  (* of reap_threads                                  *)
  clients,     (* client descriptors that are open                         *)
  alarm        (* where alarm_handler is: idle, syslog, write (holding     *)
               (* server_info.file_mutex, a copy), error (in syslog again) *)

list == <<first, next, allocated>>
threads == <<done, thread, file_mutex>>
disk == <<file, made, opened, destroyed>>
reap == <<cur_node, tmp_node>>
vars == <<server_running, waiting, main, list, threads, disk, reap, clients, alarm>>

Init ==
  /\ server_running = TRUE
  /\ waiting = 0 /\ clients = 0
  /\ main = "start" /\ alarm = "idle"
  /\ first = NULL /\ next = [n \in Nodes |-> NULL] /\ allocated = {}
  /\ done = [n \in Nodes |-> FALSE] /\ thread = [n \in Nodes |-> "none"]
  /\ file_mutex = NULL /\ destroyed = FALSE
  /\ made \in IF UseCharDevice THEN {1} ELSE {0, 1}       \* 1: left by an earlier run
  /\ file = made /\ opened = [n \in Nodes |-> 0]
  /\ cur_node = NULL /\ tmp_node = NULL

\* main runs: the process has not ended and no signal handler is on top of it.
MainRuns == main \notin {"exited", "stuck"} /\ alarm = "idle"

Goto(label) == main' = label

\* The process ends, and with it its threads, memory and descriptors.
Exit ==
  /\ Goto("exited")
  /\ waiting' = 0 /\ clients' = 0 /\ alarm' = "idle"
  /\ first' = NULL /\ next' = [n \in Nodes |-> NULL] /\ allocated' = {}
  /\ done' = [n \in Nodes |-> FALSE] /\ thread' = [n \in Nodes |-> "none"]
  /\ file_mutex' = NULL /\ opened' = [n \in Nodes |-> 0]
  /\ cur_node' = NULL /\ tmp_node' = NULL
  /\ UNCHANGED <<server_running, destroyed, file, made>>

-----------------------------------------------------------------------------
(* The list of connections, queue.h.                                       *)

SLIST_INSERT_HEAD(n) ==
  /\ next' = [next EXCEPT ![n] = first]
  /\ first' = n

\* Mutant: only the node before n is looked at, never the head.
SLIST_REMOVE_NotHead(n) ==
  /\ next' = [m \in Nodes |-> IF m \in allocated /\ next[m] = n THEN next[n] ELSE next[m]]
  /\ UNCHANGED first

\* The node before n is found by its sle_next. free comes next: n's own link is gone.
SLIST_REMOVE(n) ==
  /\ first' = IF first = n THEN next[n] ELSE first
  /\ next' = [m \in Nodes |-> IF m = n THEN NULL
                              ELSE IF first # n /\ m \in allocated /\ next[m] = n THEN next[n]
                              ELSE next[m]]

-----------------------------------------------------------------------------
(* Clients and connection threads.                                         *)

Connect ==
  /\ main \notin {"start", "unlink", "unlink_error", "return", "exited"} /\ waiting < Backlog
  /\ waiting' = waiting + 1
  /\ UNCHANGED <<server_running, main, list, threads, reap, clients, alarm, disk>>

\* Mutant: a failure to open the file is not noticed.
open_file_NotChecked(n) ==
  /\ thread[n] = "start"
  /\ thread' = [thread EXCEPT ![n] = "serving"]
  /\ opened' = [opened EXCEPT ![n] = file]
  /\ UNCHANGED <<server_running, waiting, main, list, done, file_mutex, reap, clients, alarm,
                 file, made, destroyed>>

\* open(FILENAME, O_RDONLY), without which the connection is closed at once.
open_file(n) ==
  /\ thread[n] = "start"
  /\ \/ /\ file # 0
        /\ opened' = [opened EXCEPT ![n] = file]
        /\ thread' = [thread EXCEPT ![n] = "serving"]
        /\ UNCHANGED <<done, clients>>
     \/ /\ thread' = [thread EXCEPT ![n] = "returning"]
        /\ done' = [done EXCEPT ![n] = TRUE]
        /\ clients' = clients - 1
        /\ UNCHANGED opened
  /\ UNCHANGED <<server_running, waiting, main, list, file_mutex, reap, alarm, file, made,
                 destroyed>>

\* pthread_mutex_lock(conn_info->file_mutex). A lock of the destroyed mutex fails,
\* and the thread goes on without it.
lock_file(n) ==
  /\ thread[n] = "serving"
  /\ \/ (UseCharDevice \/ destroyed) /\ UNCHANGED file_mutex
     \/ ~UseCharDevice /\ ~destroyed /\ file_mutex = NULL /\ file_mutex' = n
  /\ thread' = [thread EXCEPT ![n] = "append"]
  /\ UNCHANGED <<server_running, waiting, main, list, done, reap, clients, alarm, disk>>

\* open(FILENAME, O_WRONLY | O_CREAT | O_APPEND, 0644)
open_append ==
  IF file = 0 THEN made' = made + 1 /\ file' = made + 1 ELSE UNCHANGED <<file, made>>

\* Mutant: a thread whose append fails keeps the mutex.
unlock_file_NotOnError(n) ==
  /\ thread[n] = "append"
  /\ \/ open_append /\ file_mutex' = IF UseCharDevice \/ destroyed THEN file_mutex ELSE NULL
     \/ UNCHANGED <<file, made, file_mutex>>
  /\ thread' = [thread EXCEPT ![n] = "serving"]
  /\ UNCHANGED <<server_running, waiting, main, list, done, reap, clients, alarm, opened, destroyed>>

\* append_packet; pthread_mutex_unlock(conn_info->file_mutex)
unlock_file(n) ==
  /\ thread[n] = "append"
  /\ open_append \/ UNCHANGED <<file, made>>          \* the open may fail
  /\ file_mutex' = IF UseCharDevice \/ destroyed THEN file_mutex ELSE NULL
  /\ thread' = [thread EXCEPT ![n] = "serving"]
  /\ UNCHANGED <<server_running, waiting, main, list, done, reap, clients, alarm, opened, destroyed>>

\* close(fd); close(conn_info->clfd); conn_info->done = true
set_done(n) ==
  /\ thread[n] = "serving"
  /\ thread' = [thread EXCEPT ![n] = "returning"]
  /\ done' = [done EXCEPT ![n] = TRUE]
  /\ clients' = clients - 1
  /\ opened' = [opened EXCEPT ![n] = 0]
  /\ UNCHANGED <<server_running, waiting, main, list, file_mutex, reap, alarm, file, made,
                 destroyed>>

thread_exits(n) ==
  /\ thread[n] = "returning"
  /\ thread' = [thread EXCEPT ![n] = "exited"]
  /\ UNCHANGED <<server_running, waiting, main, list, done, file_mutex, reap, clients, alarm, disk>>

\* send to a client that has gone raises SIGPIPE, whose default action is to
\* end the process.
sigpipe(n) == thread[n] = "serving" /\ Exit

-----------------------------------------------------------------------------
(* main                                                                    *)

\* Up to listen; any of the calls may fail.
startup ==
  /\ MainRuns /\ main = "start"
  /\ \/ /\ Goto("loop")
        /\ UNCHANGED <<server_running, waiting, list, threads, reap, clients, alarm, disk>>
     \/ Exit

\* Mutant: server_running is not tested.
check_running_Never ==
  /\ MainRuns /\ main = "loop"
  /\ Goto("call")
  /\ UNCHANGED <<server_running, waiting, list, threads, reap, clients, alarm, disk>>

\* while (server_running)
check_running ==
  /\ MainRuns /\ main = "loop"
  /\ \/ server_running /\ Goto("call") /\ UNCHANGED reap
     \/ ~server_running /\ Goto("reap_last") /\ cur_node' = first /\ UNCHANGED tmp_node
  /\ UNCHANGED <<server_running, waiting, list, threads, clients, alarm, disk>>

call_accept ==
  /\ MainRuns /\ main = "call"
  /\ Goto("accept")
  /\ UNCHANGED <<server_running, waiting, list, threads, reap, clients, alarm, disk>>

\* accept returns a connection, which main logs.
accept ==
  /\ MainRuns /\ main = "accept" /\ waiting > 0
  /\ waiting' = waiting - 1
  /\ clients' = clients + 1
  /\ Goto("syslog")
  /\ UNCHANGED <<server_running, list, threads, reap, alarm, disk>>

\* accept returns an error other than EINTR, which main logs.
accept_error ==
  /\ MainRuns /\ main = "accept"
  /\ Goto("accept_error")
  /\ UNCHANGED <<server_running, waiting, list, threads, reap, clients, alarm, disk>>

\* Where main is inside syslog and keeps nothing, and where it goes on.
syslog_returns ==
  /\ MainRuns
  /\ \/ main = "syslog" /\ Goto("insert")
     \/ main = "accept_error" /\ Goto("loop")
     \/ main = "unlink_error" /\ Goto("return")
  /\ UNCHANGED <<server_running, waiting, list, threads, reap, clients, alarm, disk>>

\* malloc and SLIST_INSERT_HEAD; new_node is then the first of the list.
insert ==
  /\ MainRuns /\ main = "insert"
  /\ \/ \E n \in Nodes \ allocated :
          /\ allocated' = allocated \cup {n}
          /\ done' = [done EXCEPT ![n] = FALSE]
          /\ SLIST_INSERT_HEAD(n)
          /\ Goto("create")
     \/ Goto("insert_error") /\ UNCHANGED <<list, done>>
  /\ UNCHANGED <<server_running, waiting, thread, file_mutex, reap, clients, alarm, disk>>

\* pthread_create, and the start of reap_threads.
create ==
  /\ MainRuns /\ main = "create"
  /\ \/ /\ thread' = [thread EXCEPT ![first] = "start"]
        /\ cur_node' = first
        /\ Goto("reap")
     \/ Goto("create_error") /\ UNCHANGED <<thread, cur_node>>
  /\ UNCHANGED <<server_running, waiting, list, done, file_mutex, tmp_node, clients, alarm, disk>>

\* Mutant: the descriptor stays open.
give_up_NoClose ==
  /\ MainRuns /\ main \in {"insert_error", "create_error"}
  /\ \/ main = "insert_error" /\ UNCHANGED list
     \/ main = "create_error" /\ SLIST_REMOVE(first) /\ allocated' = allocated \ {first}
  /\ Goto("loop")
  /\ UNCHANGED <<server_running, waiting, threads, reap, clients, alarm, disk>>

\* Mutant: the descriptor is closed twice.
give_up_ClosesTwice ==
  /\ MainRuns /\ main \in {"insert_error", "create_error"}
  /\ \/ main = "insert_error" /\ UNCHANGED list
     \/ main = "create_error" /\ SLIST_REMOVE(first) /\ allocated' = allocated \ {first}
  /\ clients' = clients - 2
  /\ Goto("loop")
  /\ UNCHANGED <<server_running, waiting, threads, reap, alarm, disk>>

\* The failure of malloc or pthread_create has been logged: the node, if there is
\* one, is removed and freed, and the descriptor closed.
give_up ==
  /\ MainRuns /\ main \in {"insert_error", "create_error"}
  /\ \/ main = "insert_error" /\ UNCHANGED list
     \/ main = "create_error" /\ SLIST_REMOVE(first) /\ allocated' = allocated \ {first}
  /\ clients' = clients - 1
  /\ Goto("loop")
  /\ UNCHANGED <<server_running, waiting, threads, reap, alarm, disk>>

\* Mutant: done is not looked at.
reap_threads_All ==
  /\ MainRuns /\ main \in {"reap", "reap_last"}
  /\ \/ /\ cur_node # NULL
        /\ tmp_node' = next[cur_node]
        /\ Goto(IF main = "reap" THEN "join" ELSE "join_last")
        /\ UNCHANGED cur_node
     \/ /\ cur_node = NULL
        /\ Goto(IF main = "reap" THEN "loop" ELSE "cleanup")
        /\ cur_node' = NULL /\ tmp_node' = NULL
  /\ UNCHANGED <<server_running, waiting, list, threads, clients, alarm, disk>>

\* One turn of SLIST_FOREACH_SAFE up to the test of done, or the end of the loop.
reap_threads ==
  /\ MainRuns /\ main \in {"reap", "reap_last"}
  /\ \/ /\ cur_node # NULL
        /\ tmp_node' = next[cur_node]
        /\ \/ /\ done[cur_node]
              /\ Goto(IF main = "reap" THEN "join" ELSE "join_last")
              /\ UNCHANGED cur_node
           \/ /\ ~done[cur_node]
              /\ cur_node' = next[cur_node]
              /\ UNCHANGED main
     \/ /\ cur_node = NULL
        /\ Goto(IF main = "reap" THEN "loop" ELSE "cleanup")
        /\ cur_node' = NULL /\ tmp_node' = NULL
  /\ UNCHANGED <<server_running, waiting, list, threads, clients, alarm, disk>>

\* Mutant: SLIST_FOREACH for SLIST_FOREACH_SAFE.
pthread_join_NotSafe ==
  /\ MainRuns /\ main \in {"join", "join_last"}
  /\ thread[cur_node] = "exited"
  /\ thread' = [thread EXCEPT ![cur_node] = "none"]
  /\ done' = [done EXCEPT ![cur_node] = FALSE]
  /\ SLIST_REMOVE(cur_node)
  /\ allocated' = allocated \ {cur_node}
  /\ Goto(IF main = "join" THEN "reap" ELSE "reap_last")
  /\ UNCHANGED <<server_running, waiting, file_mutex, cur_node, tmp_node, clients, alarm, disk>>

\* pthread_join, SLIST_REMOVE, free.
pthread_join ==
  /\ MainRuns /\ main \in {"join", "join_last"}
  /\ thread[cur_node] = "exited"
  /\ thread' = [thread EXCEPT ![cur_node] = "none"]
  /\ done' = [done EXCEPT ![cur_node] = FALSE]
  /\ SLIST_REMOVE(cur_node)
  /\ allocated' = allocated \ {cur_node}
  /\ cur_node' = tmp_node
  /\ Goto(IF main = "join" THEN "reap" ELSE "reap_last")
  /\ UNCHANGED <<server_running, waiting, file_mutex, tmp_node, clients, alarm, disk>>

\* close(sockfd), and pthread_mutex_destroy, which has no effect on a mutex that is
\* held.
cleanup ==
  /\ MainRuns /\ main = "cleanup"
  /\ waiting' = 0
  /\ destroyed' = (~UseCharDevice /\ file_mutex = NULL)
  /\ Goto(IF UseCharDevice THEN "return" ELSE "unlink")
  /\ UNCHANGED <<server_running, list, threads, reap, clients, alarm, file, made, opened>>

\* unlink(FILENAME); threads that have the file open keep it.
unlink ==
  /\ MainRuns /\ main = "unlink"
  /\ \/ file # 0 /\ file' = 0 /\ Goto("return")
     \/ Goto("unlink_error") /\ UNCHANGED file
  /\ UNCHANGED <<server_running, waiting, list, threads, reap, clients, alarm, made, opened,
                 destroyed>>

\* Returning from main ends the process with every thread that is left.
return == MainRuns /\ main = "return" /\ Exit

-----------------------------------------------------------------------------
(* Signal handlers. syslog takes a lock that is not recursive: a handler   *)
(* that calls it while the thread it interrupts is inside waits for ever.  *)

InSyslog ==
  \/ main \in {"syslog", "accept_error", "insert_error", "create_error", "unlink_error"}
  \/ alarm \in {"syslog", "error"}

\* SIGINT or SIGTERM: before sigaction it ends the process; it makes a blocked
\* accept return EINTR, unless SIGALRM has already arranged for its restart.
signal_handler ==
  \/ main = "start" /\ Exit
  \/ /\ main \notin {"start", "exited", "stuck"}
     /\ \/ InSyslog /\ Goto("stuck") /\ UNCHANGED <<server_running, reap>>
        \/ /\ ~InSyslog
           /\ server_running' = FALSE
           /\ IF main = "accept" /\ waiting = 0 /\ alarm = "idle"
              THEN Goto("reap_last") /\ cur_node' = first /\ UNCHANGED tmp_node
              ELSE UNCHANGED <<main, reap>>
     /\ UNCHANGED <<waiting, list, threads, clients, alarm, disk>>

\* SIGALRM, which restarts accept.
alarm_handler ==
  /\ ~UseCharDevice /\ main \notin {"start", "exited", "stuck"} /\ alarm = "idle"
  /\ \/ InSyslog /\ Goto("stuck") /\ UNCHANGED alarm
     \/ ~InSyslog /\ alarm' = "syslog" /\ UNCHANGED main
  /\ UNCHANGED <<server_running, waiting, list, threads, reap, clients, disk>>

\* pthread_mutex_lock(&server_info->file_mutex): no other thread uses the copy.
alarm_writes ==
  /\ main \notin {"exited", "stuck"} /\ alarm = "syslog"
  /\ alarm' = "write"
  /\ UNCHANGED <<server_running, waiting, main, list, threads, reap, clients, disk>>

\* The timestamp is written, or the failure to open the file logged.
alarm_returns ==
  /\ main \notin {"exited", "stuck"}
  /\ \/ /\ alarm = "write" /\ alarm' = "idle"
        /\ open_append
     \/ alarm = "write" /\ alarm' = "error" /\ UNCHANGED <<file, made>>
     \/ alarm = "error" /\ alarm' = "idle" /\ UNCHANGED <<file, made>>
  /\ UNCHANGED <<server_running, waiting, main, list, threads, reap, clients, opened, destroyed>>

-----------------------------------------------------------------------------
Main ==
  \/ startup \/ check_running \/ call_accept \/ accept \/ syslog_returns
  \/ insert \/ create \/ give_up \/ reap_threads \/ pthread_join \/ cleanup
  \/ unlink \/ return

Alarm == alarm_writes \/ alarm_returns

Next ==
  \/ Main \/ Alarm \/ accept_error \/ Connect \/ signal_handler \/ alarm_handler
  \/ \E n \in Nodes : \/ open_file(n) \/ lock_file(n) \/ unlock_file(n) \/ set_done(n)
                      \/ thread_exits(n) \/ sigpipe(n)

Spec == Init /\ [][Next]_vars

\* main and the threads are scheduled, and a write to the file returns. main gets
\* on between two signals of the timer, which are ten seconds apart. Clients need
\* not connect, nor a connected one ever stop.
FairSpec ==
  /\ Spec /\ SF_vars(Main) /\ WF_vars(Alarm)
  /\ \A n \in Nodes : WF_vars(open_file(n) \/ unlock_file(n) \/ thread_exits(n))

-----------------------------------------------------------------------------
(* Properties.                                                             *)

Reaping == main \in {"reap", "reap_last", "join", "join_last"}
Joining == main \in {"join", "join_last"}

\* Every variable has its type.
TypeOK ==
  /\ server_running \in BOOLEAN
  /\ waiting \in 0 .. Backlog /\ clients \in Nat
  /\ main \in {"start", "loop", "call", "accept", "accept_error", "syslog", "insert",
               "insert_error", "create", "create_error", "reap", "join", "reap_last",
               "join_last", "cleanup", "unlink", "unlink_error", "return", "exited", "stuck"}
  /\ alarm \in {"idle", "syslog", "write", "error"}
  /\ first \in Nodes \cup {NULL} /\ next \in [Nodes -> Nodes \cup {NULL}]
  /\ allocated \subseteq Nodes
  /\ done \in [Nodes -> BOOLEAN]
  /\ thread \in [Nodes -> {"none", "start", "serving", "append", "returning", "exited"}]
  /\ file_mutex \in Nodes \cup {NULL} /\ destroyed \in BOOLEAN
  /\ made \in Nat /\ file \in {0, made} /\ opened \in [Nodes -> Nat]
  /\ cur_node \in Nodes \cup {NULL} /\ tmp_node \in Nodes \cup {NULL}

\* Following sle_next k times from the head.
Nth[k \in Nat] ==
  IF k = 0 THEN first
  ELSE IF Nth[k - 1] = NULL THEN NULL ELSE next[Nth[k - 1]]

\* The list of connections ends, and holds exactly the nodes that are allocated:
\* SLIST_REMOVE loses none, so every thread is found by some reap_threads.
ListIsAllocated ==
  /\ Nth[Cardinality(Nodes)] = NULL
  /\ {Nth[k] : k \in 0 .. Cardinality(Nodes)} \ {NULL} = allocated

\* No freed node is used: not by a thread (its argument conn_info), nor by
\* reap_threads, whose tmp_node was read before cur_node was freed.
NodesNotFreed ==
  /\ \A n \in Nodes : thread[n] # "none" => n \in allocated
  /\ Reaping => cur_node \in allocated \cup {NULL}
  /\ Joining => cur_node # NULL /\ tmp_node \in allocated \cup {NULL}

\* pthread_join in reap_threads waits only for a thread that is about to return,
\* never for a client.
JoinReturns == Joining => thread[cur_node] \in {"returning", "exited"}

\* While main runs each open client descriptor is that of a connection being served or the one
\* main has just accepted: none is leaked or closed twice on an error path.
DescriptorsAccounted ==
  main \notin {"exited", "stuck"} =>
    clients = Cardinality({n \in Nodes : thread[n] \in {"start", "serving", "append"}})
              + (IF main \in {"syslog", "insert", "insert_error", "create", "create_error"} THEN 1 ELSE 0)

\* As long as main has not removed the file to exit, each thread reads from the very file that
\* it and the others append to: the O_CREAT of append_packet never makes another one
\* under the thread's open descriptor.
SameFile ==
  main \notin {"return", "exited", "stuck"} =>
    \A n \in Nodes : thread[n] \in {"serving", "append"} => opened[n] = file /\ file # 0

\* The process and its threads keep to the protocol that AesdHandler's threads, with
\* all that they do in between, keep to as well.
Protocol == INSTANCE ConnectionProtocol WITH
  Conns <- Nodes, device <- UseCharDevice, valid <- ~destroyed, exists <- file # 0,
  holder <- file_mutex,
  state  <- [n \in Nodes |-> IF thread[n] \in {"returning", "exited"} THEN "done" ELSE thread[n]]
FollowsProtocol == Protocol!Spec

\* If clients keep connecting, and get their threads while the server runs, then
\* after signal_handler has run the process ends (unless another signal catches main
\* inside syslog), and until then reap_threads joins each thread that has finished.
\* Said of one node; nothing tells one from another.
JoinsAndShutsDown ==
  LET n == CHOOSE m \in Nodes : TRUE
      Ended == main \in {"exited", "stuck"}
  IN  []<>(waiting > 0) /\ []<>(main = "reap" \/ ~server_running) =>
        (~server_running \/ thread[n] = "exited"
           ~> Ended \/ (server_running /\ thread[n] = "none"))

-----------------------------------------------------------------------------
(* What comments and messages of aesdsocket.c say, and the code does not do. *)

\* aesdsocket.c:32 "Caught signal, exiting", 220 "Break out if so and we're
\* shutting down.": once the signal is caught the process ends.
ShutsDown == ~server_running ~> main \in {"exited", "stuck"}

=============================================================================
