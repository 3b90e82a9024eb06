----------------------------- MODULE Threading -----------------------------
(***************************************************************************)
(* examples/threading/threading.c: threads that sleep, take a mutex they   *)
(* share, sleep, and release it. The caller joins them and frees their     *)
(* thread_data. A sleep may be cut short by a signal, which usleep reports *)
(* as an error; how long it takes is left out.                             *)
(***************************************************************************)
EXTENDS Integers, FiniteSets, TLC

CONSTANTS Threads, NULL

ASSUME NullAssumption == NULL \notin Threads

VARIABLES
  pc,       (* where each thread is                                        *)
  mutex,    (* the thread that owns the mutex, or NULL                     *)
  data,     (* threads whose thread_data is allocated                      *)
  success,  (* thread_complete_success                                     *)
  held      (* history: threads that have held the mutex                   *)

vars == <<pc, mutex, data, success, held>>

Init ==
  /\ pc = [t \in Threads |-> "none"]
  /\ mutex = NULL /\ data = {} /\ held = {}
  /\ success = [t \in Threads |-> FALSE]

Goto(t, label) == pc' = [pc EXCEPT ![t] = label]

\* return thread_func_args, after an error
Fails(t) ==
  /\ success' = [success EXCEPT ![t] = FALSE]
  /\ Goto(t, "exited")

\* When pthread_create fails nothing points to the thread_data any more.
start_thread_obtaining_mutex(t) ==
  /\ pc[t] = "none"
  /\ \/ Goto(t, "not_started") /\ UNCHANGED <<data, success>>    \* malloc
     \/ /\ data' = data \cup {t}
        /\ success' = [success EXCEPT ![t] = FALSE]
        /\ Goto(t, "not_started") \/ Goto(t, "wait_to_obtain")
  /\ UNCHANGED <<mutex, held>>

wait_to_obtain(t) ==
  /\ pc[t] = "wait_to_obtain"
  /\ \/ Goto(t, "lock") /\ UNCHANGED success
     \/ Fails(t)
  /\ UNCHANGED <<mutex, data, held>>

\* Mutant: the mutex is taken whoever owns it.
pthread_mutex_lock_Always(t) ==
  /\ pc[t] = "lock"
  /\ mutex' = t /\ held' = held \cup {t}
  /\ Goto(t, "wait_to_release")
  /\ UNCHANGED <<data, success>>

pthread_mutex_lock(t) ==
  /\ pc[t] = "lock"
  /\ \/ /\ mutex = NULL
        /\ mutex' = t /\ held' = held \cup {t}
        /\ Goto(t, "wait_to_release")
        /\ UNCHANGED success
     \/ Fails(t) /\ UNCHANGED <<mutex, held>>
  /\ UNCHANGED data

\* Mutant: a failed sleep is taken for the end of the thread.
wait_to_release_Succeeds(t) ==
  /\ pc[t] = "wait_to_release"
  /\ \/ Goto(t, "unlock") /\ UNCHANGED success
     \/ success' = [success EXCEPT ![t] = TRUE] /\ Goto(t, "exited")
  /\ UNCHANGED <<mutex, data, held>>

wait_to_release(t) ==
  /\ pc[t] = "wait_to_release"
  /\ \/ Goto(t, "unlock") /\ UNCHANGED success
     \/ Fails(t)
  /\ UNCHANGED <<mutex, data, held>>

\* Mutant: pthread_mutex_lock for pthread_mutex_unlock.
pthread_mutex_unlock_Locks(t) ==
  /\ pc[t] = "unlock" /\ mutex = NULL
  /\ mutex' = t
  /\ success' = [success EXCEPT ![t] = TRUE]
  /\ Goto(t, "exited")
  /\ UNCHANGED <<data, held>>

\* The owner of a mutex that exists can unlock it.
pthread_mutex_unlock(t) ==
  /\ pc[t] = "unlock"
  /\ mutex' = NULL
  /\ success' = [success EXCEPT ![t] = TRUE]
  /\ Goto(t, "exited")
  /\ UNCHANGED <<data, held>>

\* The caller: pthread_join, then free the thread_data it returns.
pthread_join(t) ==
  /\ pc[t] = "exited"
  /\ data' = data \ {t}
  /\ Goto(t, "joined")
  /\ UNCHANGED <<mutex, success, held>>

threadfunc(t) ==
  \/ wait_to_obtain(t) \/ pthread_mutex_lock(t) \/ wait_to_release(t)
  \/ pthread_mutex_unlock(t)

Next ==
  \E t \in Threads :
    start_thread_obtaining_mutex(t) \/ threadfunc(t) \/ pthread_join(t)

Spec == Init /\ [][Next]_vars

\* A sleep ends, and a lock that can be taken is; no other error is forced.
FairSpec ==
  Spec /\ \A t \in Threads :
            /\ WF_vars(wait_to_obtain(t)) /\ WF_vars(wait_to_release(t))
            /\ WF_vars(pthread_mutex_lock(t) /\ mutex' = t)
            /\ WF_vars(pthread_mutex_unlock(t))

-----------------------------------------------------------------------------
Gone(t) == pc[t] \in {"exited", "joined"}

\* Every variable has its type; threadfunc only runs while its thread_data exists.
TypeOK ==
  /\ pc \in [Threads -> {"none", "not_started", "wait_to_obtain", "lock", "wait_to_release",
                         "unlock", "exited", "joined"}]
  /\ mutex \in Threads \cup {NULL} /\ held \subseteq Threads
  /\ success \in [Threads -> BOOLEAN]
  /\ \A t \in Threads : pc[t] \in {"wait_to_obtain", "lock", "wait_to_release", "unlock", "exited"}
                          => t \in data

\* A thread that is between lock and unlock owns the mutex, so there is one at most.
Excludes ==
  \A t \in Threads : pc[t] \in {"wait_to_release", "unlock"} => mutex = t

\* thread_complete_success tells the truth: the thread has held the mutex and
\* has given it back.
SuccessIsReleased ==
  \A t \in Threads : success[t] => t \in held /\ mutex # t

\* A thread that was started returns, unless another has returned with the mutex.
ReturnsUnlessAbandoned ==
  \A t \in Threads : pc[t] = "wait_to_obtain" ~>
                       Gone(t) \/ \E u \in Threads : Gone(u) /\ mutex = u

=============================================================================
