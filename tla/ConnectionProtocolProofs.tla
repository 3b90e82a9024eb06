---------------------- MODULE ConnectionProtocolProofs ----------------------
(***************************************************************************)
(* The protocol of the connection threads gives mutual exclusion, for any  *)
(* number of connections.  AesdHandler and AesdSocket inherit it from here *)
(* by following the protocol.                                              *)
(***************************************************************************)
EXTENDS ConnectionProtocol, TLAPS

States == {"none", "start", "serving", "append", "done"}

\* AppendsExclude is not inductive: the mutex tells the one thread that appends from
\* one that is about to, and nobody holds a mutex that was destroyed.
IInv ==
  /\ state \in [Conns -> States]
  /\ ~device /\ valid => \A c \in Conns : state[c] = "append" => holder = c
  /\ device \/ ~valid => holder = NULL

LEMMA NextIInv ==
  ASSUME NULL \notin Conns, IInv, [Next]_vars
  PROVE  IInv'
<1>1. CASE UNCHANGED vars
  BY <1>1 DEF vars, IInv
<1>2. ASSUME NEW c \in Conns, Create(c) \/ Open(c) \/ Finish(c) \/ Join(c),
             UNCHANGED <<valid, device>>
      PROVE  IInv'
  BY <1>2 DEF Create, Open, Finish, Join, Move, IInv, States
<1>3. ASSUME NEW c \in Conns, Lock(c), UNCHANGED <<valid, device>>
      PROVE  IInv'
  BY <1>3 DEF Lock, Move, IInv, States
<1>4. ASSUME NEW c \in Conns, Unlock(c), UNCHANGED <<valid, device>>
      PROVE  IInv'
  BY <1>4 DEF Unlock, Move, IInv, States
<1>5. CASE Surroundings /\ UNCHANGED device
  BY <1>5 DEF Surroundings, IInv
<1>6. CASE End /\ UNCHANGED device
  BY <1>6 DEF End, IInv, States
<1> QED
  BY <1>1, <1>2, <1>3, <1>4, <1>5, <1>6 DEF Next

\* Threads that follow the protocol append one at a time while the mutex exists.
THEOREM AppendsAreExclusive ==
  ASSUME NULL \notin Conns
  PROVE  Spec => []AppendsExclude
<1>1. Init => IInv
  BY DEF Init, IInv, States
<1>2. IInv => AppendsExclude
  BY DEF IInv, AppendsExclude
<1>3. IInv /\ [Next]_vars => IInv'
  BY NextIInv
<1> QED
  BY <1>1, <1>2, <1>3, PTL DEF Spec

=============================================================================
