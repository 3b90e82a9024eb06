------------------------- MODULE SystemCallsProofs --------------------------
(***************************************************************************)
(* What the calls of examples/systemcalls return and leave open, for any   *)
(* number of concurrent callers.                                           *)
(***************************************************************************)
EXTENDS SystemCalls, TLAPS

Types ==
  /\ call \in [Callers -> {"do_exec", "do_exec_redirect", "do_system"}]
  /\ parent \in [Callers -> {"start", "fork", "waitpid", "returned"}]
  /\ child \in [Callers -> Statuses \cup {"none", "forked", "command", "caller"}]
  /\ status \in [Callers -> Statuses \cup {"none"}]
  /\ fd \in [Callers -> SUBSET {"parent", "child"}]
  /\ ret \in [Callers -> BOOLEAN \cup {NoRet}] /\ twice \in [Callers -> BOOLEAN]

\* How far a call has come: before fork, and in the child before the command ends.
Progress(c) ==
  /\ parent[c] \in {"start", "fork"} =>
       child[c] = "none" /\ status[c] = "none" /\ ~twice[c] /\ ret[c] = NoRet
  /\ child[c] \in {"forked", "command"} => status[c] = "none" /\ ~twice[c]
  /\ child[c] = "caller" => twice[c]
  /\ call[c] = "do_system" => child[c] = "none" /\ parent[c] \in {"start", "returned"}

\* The child of do_exec ends with status 0 only if it ran the command.
ZeroIsRun(c) == call[c] # "do_exec_redirect" /\ child[c] = "zero" => status[c] = "zero"

\* Who has outputfile open.
Open(c) ==
  /\ "parent" \in fd[c] => /\ call[c] = "do_exec_redirect" /\ parent[c] \in {"fork", "returned"}
                           /\ child[c] = "none" /\ status[c] = "none"
                           /\ parent[c] = "returned" => ret[c] = FALSE
  /\ "child" \in fd[c] => call[c] = "do_exec_redirect" /\ child[c] \in {"forked", "caller"}

Holds(c) ==
  /\ call[c] # "do_exec_redirect" /\ ret[c] = TRUE => status[c] = "zero"
  /\ twice[c] => call[c] = "do_exec_redirect" /\ status[c] = "none"
  /\ Progress(c) /\ ZeroIsRun(c) /\ Open(c)

IInv == Types /\ \A c \in Callers : Holds(c)

LEMMA InitIInv == Init => IInv
<1> SUFFICES ASSUME Init PROVE IInv
  OBVIOUS
<1>1. Types
  BY DEF Init, Types, Statuses
<1>2. \A c \in Callers : Holds(c)
  BY NoRetAssumption DEF Init, Holds, Progress, ZeroIsRun, Open
<1> QED
  BY <1>1, <1>2 DEF IInv

LEMMA NextIInv == IInv /\ [Next]_vars => IInv'
<1> SUFFICES ASSUME IInv, [Next]_vars PROVE IInv'
  OBVIOUS
<1>0. {{}, {"parent"}, {"child"}} \subseteq SUBSET {"parent", "child"}
  OBVIOUS
<1> USE NoRetAssumption DEF Progress, ZeroIsRun, Open, Statuses, Goto, Returns
<1>1. CASE UNCHANGED vars
  BY <1>1 DEF vars, IInv, Types, Holds
<1>2. ASSUME NEW c \in Callers, do_system(c)
      PROVE  IInv'
  <2>1. Types'
    BY <1>2 DEF do_system, IInv, Types
  <2>2. ASSUME NEW d \in Callers
        PROVE  (Holds(d))'
    <3>1. CASE d = c
      BY <1>2, <3>1 DEF do_system, IInv, Types, Holds
    <3>2. CASE d # c
      BY <1>2, <3>2 DEF do_system, IInv, Types, Holds
    <3> QED
      BY <3>1, <3>2
  <2> QED
    BY <2>1, <2>2 DEF IInv
<1>3. ASSUME NEW c \in Callers, open_output(c)
      PROVE  IInv'
  <2>1. Types'
    <3>1. \E S \in {{}, {"parent"}, {"child"}} : fd' = fd \/ fd' = [fd EXCEPT ![c] = S]
      BY <1>3 DEF open_output
    <3>2. fd' \in [Callers -> SUBSET {"parent", "child"}]
      BY <1>0, <3>1 DEF IInv, Types
    <3> QED
      BY <1>3, <3>2 DEF open_output, IInv, Types
  <2>2. ASSUME NEW d \in Callers
        PROVE  (Holds(d))'
    <3>1. CASE d = c
      BY <1>3, <3>1 DEF open_output, IInv, Types, Holds
    <3>2. CASE d # c
      BY <1>3, <3>2 DEF open_output, IInv, Types, Holds
    <3> QED
      BY <3>1, <3>2
  <2> QED
    BY <2>1, <2>2 DEF IInv
<1>4. ASSUME NEW c \in Callers, fork(c)
      PROVE  IInv'
  <2>1. Types'
    <3>1. \E S \in {{}, {"parent"}, {"child"}} : fd' = fd \/ fd' = [fd EXCEPT ![c] = S]
      BY <1>4 DEF fork
    <3>2. fd' \in [Callers -> SUBSET {"parent", "child"}]
      BY <1>0, <3>1 DEF IInv, Types
    <3> QED
      BY <1>4, <3>2 DEF fork, IInv, Types
  <2>2. ASSUME NEW d \in Callers
        PROVE  (Holds(d))'
    <3>1. CASE d = c
      BY <1>4, <3>1 DEF fork, IInv, Types, Holds
    <3>2. CASE d # c
      BY <1>4, <3>2 DEF fork, IInv, Types, Holds
    <3> QED
      BY <3>1, <3>2
  <2> QED
    BY <2>1, <2>2 DEF IInv
<1>5. ASSUME NEW c \in Callers, execv(c)
      PROVE  IInv'
  <2>1. \E S \in {{}, {"child"}} : fd' = fd \/ fd' = [fd EXCEPT ![c] = S]
    BY <1>5 DEF execv
  <2>3. fd' \in [Callers -> SUBSET {"parent", "child"}]
    BY <1>0, <2>1 DEF IInv, Types
  <2>4. Types'
    BY <1>5, <2>3 DEF execv, IInv, Types
  <2>2. ASSUME NEW d \in Callers
        PROVE  (Holds(d))'
    <3>1. CASE d # c
      BY <1>5, <3>1 DEF execv, IInv, Types, Holds
    <3>2. CASE d = c
      <4>1. Holds(c) /\ child[c] = "forked" /\ UNCHANGED <<call, parent, status, ret>>
        BY <1>5 DEF execv, IInv
      <4>2. "parent" \notin fd[c]
        BY <4>1 DEF Holds
      <4>3. "parent" \notin fd'[c]
        BY <2>1, <4>2 DEF IInv, Types
      <4>4. CASE child' = [child EXCEPT ![c] = "command"] /\ fd' = [fd EXCEPT ![c] = {}] /\ UNCHANGED twice
        BY <3>2, <4>1, <4>4 DEF IInv, Types, Holds
      <4>5. CASE call[c] = "do_exec" /\ child' = [child EXCEPT ![c] = "nonzero"] /\ UNCHANGED <<fd, twice>>
        BY <3>2, <4>1, <4>5, <4>2 DEF IInv, Types, Holds
      <4>6. CASE /\ call[c] = "do_exec_redirect" /\ child' = [child EXCEPT ![c] = "caller"]
                 /\ twice' = [twice EXCEPT ![c] = TRUE]
        BY <3>2, <4>1, <4>3, <4>6 DEF IInv, Types, Holds
      <4> QED
        BY <1>5, <4>4, <4>5, <4>6 DEF execv
    <3> QED
      BY <3>1, <3>2
  <2> QED
    BY <2>2, <2>4 DEF IInv
<1>6. ASSUME NEW c \in Callers, child_exits(c)
      PROVE  IInv'
  <2>1. Types'
    BY <1>6 DEF child_exits, IInv, Types
  <2>2. ASSUME NEW d \in Callers
        PROVE  (Holds(d))'
    <3>1. CASE d = c
      BY <1>6, <3>1 DEF child_exits, IInv, Types, Holds
    <3>2. CASE d # c
      BY <1>6, <3>2 DEF child_exits, IInv, Types, Holds
    <3> QED
      BY <3>1, <3>2
  <2> QED
    BY <2>1, <2>2 DEF IInv
<1>7. ASSUME NEW c \in Callers, waitpid(c)
      PROVE  IInv'
  <2>1. Types'
    BY <1>7 DEF waitpid, IInv, Types
  <2>2. ASSUME NEW d \in Callers
        PROVE  (Holds(d))'
    <3>1. CASE d = c
      BY <1>7, <3>1 DEF waitpid, IInv, Types, Holds
    <3>2. CASE d # c
      BY <1>7, <3>2 DEF waitpid, IInv, Types, Holds
    <3> QED
      BY <3>1, <3>2
  <2> QED
    BY <2>1, <2>2 DEF IInv
<1> QED
  BY <1>1, <1>2, <1>3, <1>4, <1>5, <1>6, <1>7 DEF Next

LEMMA Invariance == Spec => []IInv
  BY InitIInv, NextIInv, PTL DEF Spec

\* do_system and do_exec return true only after a command that ran and succeeded.
THEOREM TrueMeansSuccess == Spec => []TrueIsSuccess
<1>1. IInv => TrueIsSuccess
  BY DEF IInv, Holds, TrueIsSuccess
<1> QED
  BY <1>1, Invariance, PTL

\* Only do_exec_redirect returns in two processes, and only without the command.
THEOREM OnlyRedirectReturnsTwice == Spec => []ReturnsOnce
<1>1. IInv => ReturnsOnce
  BY DEF IInv, Holds, ReturnsOnce
<1> QED
  BY <1>1, Invariance, PTL

\* outputfile stays open only after a failed fork or a failed dup2.
THEOREM OutputIsClosed == Spec => []OutputClosed
<1>1. IInv => OutputClosed
  BY DEF IInv, Types, Holds, Progress, Open, OutputClosed
<1> QED
  BY <1>1, Invariance, PTL

=============================================================================
