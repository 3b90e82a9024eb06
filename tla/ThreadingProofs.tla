-------------------------- MODULE ThreadingProofs ---------------------------
(***************************************************************************)
(* The mutex and thread_complete_success of examples/threading, for any    *)
(* number of threads.                                                      *)
(***************************************************************************)
EXTENDS Threading, TLAPS

\* SuccessIsReleased is not inductive: a thread that has succeeded does not take the
\* mutex again because it has ended, and the one that releases it has held it.
IInv ==
  /\ TypeOK /\ Excludes
  /\ \A t \in Threads : pc[t] \in {"wait_to_release", "unlock"} => t \in held
  /\ \A t \in Threads : success[t] => t \in held /\ mutex # t /\ Gone(t)

LEMMA InitIInv == Init => IInv
  BY DEF Init, IInv, TypeOK, Excludes, Gone

LEMMA NextIInv == IInv /\ [Next]_vars => IInv'
<1> SUFFICES ASSUME IInv, [Next]_vars PROVE IInv'
  OBVIOUS
<1> USE DEF IInv, TypeOK, Excludes, Gone, Goto, Fails
<1>1. CASE UNCHANGED vars
  BY <1>1 DEF vars
<1>2. ASSUME NEW t \in Threads, start_thread_obtaining_mutex(t)
      PROVE  IInv'
  BY <1>2 DEF start_thread_obtaining_mutex
<1>3. ASSUME NEW t \in Threads, wait_to_obtain(t)
      PROVE  IInv'
  BY <1>3 DEF wait_to_obtain
<1>4. ASSUME NEW t \in Threads, pthread_mutex_lock(t)
      PROVE  IInv'
  BY <1>4, NullAssumption DEF pthread_mutex_lock
<1>5. ASSUME NEW t \in Threads, wait_to_release(t)
      PROVE  IInv'
  BY <1>5 DEF wait_to_release
<1>6. ASSUME NEW t \in Threads, pthread_mutex_unlock(t)
      PROVE  IInv'
  BY <1>6, NullAssumption DEF pthread_mutex_unlock
<1>7. ASSUME NEW t \in Threads, pthread_join(t)
      PROVE  IInv'
  BY <1>7 DEF pthread_join
<1> QED
  BY <1>1, <1>2, <1>3, <1>4, <1>5, <1>6, <1>7 DEF Next, threadfunc

\* threadfunc runs only while its thread_data is allocated: the caller frees it after
\* the join.
THEOREM DataStaysAllocated == Spec => []TypeOK
<1>1. IInv => TypeOK
  BY DEF IInv
<1> QED
  BY <1>1, InitIInv, NextIInv, PTL DEF Spec

\* One thread at a time is between lock and unlock.
THEOREM MutexExcludes == Spec => []Excludes
<1>1. IInv => Excludes
  BY DEF IInv
<1> QED
  BY <1>1, InitIInv, NextIInv, PTL DEF Spec

\* thread_complete_success is true only of a thread that has held the mutex and has
\* given it back, whatever fails in the others.
THEOREM SuccessIsTrue == Spec => []SuccessIsReleased
<1>1. IInv => SuccessIsReleased
  BY DEF IInv, SuccessIsReleased
<1> QED
  BY <1>1, InitIInv, NextIInv, PTL DEF Spec

=============================================================================
