------------------------- MODULE ConnectionProtocol -------------------------
(***************************************************************************)
(* What aesdsocket relies on in its connection threads, and they in it:    *)
(* a thread opens the file before it serves, appends only between a lock   *)
(* and an unlock of file_mutex (in the build without the device), holds    *)
(* the mutex at no other time, and is done once.  AesdHandler has these    *)
(* threads in detail without the process around them, AesdSocket has the   *)
(* process in detail and of the threads no more than this; both are        *)
(* checked against it.                                                     *)
(***************************************************************************)
CONSTANTS Conns, NULL

VARIABLES
  device,   (* built with USE_AESD_CHAR_DEVICE                             *)
  state,    (* none, start, serving, append or done                        *)
  holder,   (* the thread that holds file_mutex, or NULL                   *)
  valid,    (* file_mutex has not been destroyed                           *)
  exists    (* the file exists                                             *)

vars == <<device, state, holder, valid, exists>>

Init ==
  /\ device \in BOOLEAN
  /\ \/ state = [c \in Conns |-> "none"]
     \/ state = [c \in Conns |-> "start"]
  /\ holder = NULL /\ valid = TRUE
  /\ exists \in BOOLEAN

Move(c, from, to) == state[c] = from /\ state' = [state EXCEPT ![c] = to]

Create(c) == Move(c, "none", "start") /\ UNCHANGED <<holder, exists>>

Open(c) ==
  /\ \/ exists /\ Move(c, "start", "serving")
     \/ Move(c, "start", "done")
  /\ UNCHANGED <<holder, exists>>

\* Locking a mutex that has been destroyed fails, which the thread ignores.
Lock(c) ==
  /\ Move(c, "serving", "append")
  /\ \/ (device \/ ~valid) /\ UNCHANGED holder
     \/ ~device /\ valid /\ holder = NULL /\ holder' = c
  /\ UNCHANGED exists

\* The append and the unlock; the append creates the file if it is not there.
Unlock(c) ==
  /\ Move(c, "append", "serving")
  /\ holder' = IF holder = c THEN NULL ELSE holder
  /\ exists' \in {exists, TRUE}

Finish(c) == Move(c, "serving", "done") /\ UNCHANGED <<holder, exists>>

Join(c) == Move(c, "done", "none") /\ UNCHANGED <<holder, exists>>

\* The timer creates the file; main removes it and destroys the mutex, which has
\* no effect on one that is held.
Surroundings ==
  /\ exists' \in BOOLEAN
  /\ valid' \in IF holder = NULL THEN {valid, FALSE} ELSE {valid}
  /\ UNCHANGED <<state, holder>>

\* The process ends, and every thread with it.
End ==
  /\ state' = [c \in Conns |-> "none"] /\ holder' = NULL
  /\ UNCHANGED <<valid, exists>>

Next ==
  /\ \/ \E c \in Conns : \/ Create(c) \/ Open(c) \/ Lock(c) \/ Unlock(c)
                         \/ Finish(c) \/ Join(c)
        /\ UNCHANGED valid
     \/ Surroundings
     \/ End
  /\ UNCHANGED device

Spec == Init /\ [][Next]_vars

-----------------------------------------------------------------------------
\* What the protocol is for: connection threads append to the regular file one at a
\* time, until main destroys the mutex at exit (handler.c:111, aesdsocket.c:266).
AppendsExclude ==
  ~device /\ valid => \A b, c \in Conns : state[b] = "append" /\ state[c] = "append" => b = c

=============================================================================
