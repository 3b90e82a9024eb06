---------------------------- MODULE SystemCalls ----------------------------
(***************************************************************************)
(* examples/systemcalls/systemcalls.c: programs that run a command with    *)
(* system, with fork and execv, or with fork and execv and standard output *)
(* redirected to a file. Each caller makes one call; parent and child run  *)
(* concurrently.                                                           *)
(***************************************************************************)
EXTENDS Integers, FiniteSets, TLC

CONSTANTS Callers, NoRet

ASSUME NoRetAssumption == NoRet \notin BOOLEAN

\* How a process ends: with exit status 0, with another one, by a signal.
Statuses == {"zero", "nonzero", "signal"}

VARIABLES
  call,    (* the function each caller is in, or has called                *)
  parent,  (* where the caller is                                          *)
  child,   (* the child process                                            *)
  status,  (* how the command ended; "none" if it was not run              *)
  fd,      (* which of parent and child have outputfile open, as fd        *)
  ret,     (* what the call returned                                       *)
  twice    (* the call has also returned, in the child                     *)

vars == <<call, parent, child, status, fd, ret, twice>>

Init ==
  /\ call \in [Callers -> {"do_exec", "do_exec_redirect", "do_system"}]
  /\ parent = [c \in Callers |-> "start"] /\ child = [c \in Callers |-> "none"]
  /\ status = [c \in Callers |-> "none"] /\ fd = [c \in Callers |-> {}]
  /\ ret = [c \in Callers |-> NoRet] /\ twice = [c \in Callers |-> FALSE]

Goto(c, label) == parent' = [parent EXCEPT ![c] = label]

Returns(c, value) ==
  /\ ret' = [ret EXCEPT ![c] = value]
  /\ Goto(c, "returned")

\* system returns 0 when the command was run and ended with status 0, and also
\* when it was given no command and there is no shell.
do_system(c) ==
  /\ parent[c] = "start" /\ call[c] = "do_system"
  /\ \E cmdIsNull, zero \in BOOLEAN, outcome \in Statuses \cup {"none"} :
       /\ IF cmdIsNull THEN outcome = "none" ELSE zero = (outcome = "zero")
       /\ status' = [status EXCEPT ![c] = outcome]
       /\ Returns(c, ~(cmdIsNull /\ zero) /\ zero)
  /\ UNCHANGED <<call, child, fd, twice>>

\* open(outputfile, ...) in do_exec_redirect
open_output(c) ==
  /\ parent[c] = "start" /\ call[c] = "do_exec_redirect"
  /\ \/ fd' = [fd EXCEPT ![c] = {"parent"}] /\ Goto(c, "fork") /\ UNCHANGED ret
     \/ Returns(c, FALSE) /\ UNCHANGED fd
  /\ UNCHANGED <<call, child, status, twice>>

\* Mutant: the parent does not close its descriptor.
fork_KeepsOpen(c) ==
  /\ parent[c] = (IF call[c] = "do_exec" THEN "start" ELSE "fork") /\ call[c] # "do_system"
  /\ \/ /\ child' = [child EXCEPT ![c] = "forked"]
        /\ fd' = [fd EXCEPT ![c] = IF @ = {} THEN {} ELSE {"parent", "child"}]
        /\ Goto(c, "waitpid")
        /\ UNCHANGED ret
     \/ Returns(c, FALSE) /\ UNCHANGED <<child, fd>>
  /\ UNCHANGED <<call, status, twice>>

\* The parent of do_exec_redirect closes its descriptor at once; the child has its own.
fork(c) ==
  /\ parent[c] = (IF call[c] = "do_exec" THEN "start" ELSE "fork") /\ call[c] # "do_system"
  /\ \/ /\ child' = [child EXCEPT ![c] = "forked"]
        /\ fd' = [fd EXCEPT ![c] = IF @ = {} THEN {} ELSE {"child"}]
        /\ Goto(c, "waitpid")
        /\ UNCHANGED ret
     \/ Returns(c, FALSE) /\ UNCHANGED <<child, fd>>
  /\ UNCHANGED <<call, status, twice>>

\* Mutant: the child returns when execv fails.
execv_Returns(c) ==
  /\ child[c] = "forked"
  /\ \/ child' = [child EXCEPT ![c] = "command"] /\ UNCHANGED twice
     \/ child' = [child EXCEPT ![c] = "caller"] /\ twice' = [twice EXCEPT ![c] = TRUE]
  /\ fd' = [fd EXCEPT ![c] = {}]
  /\ UNCHANGED <<call, parent, status, ret>>

\* dup2, close and execv in the child. Where execv fails the child of do_exec exits;
\* where dup2 or execv fails that of do_exec_redirect returns and goes on as a
\* second caller, after dup2 with the file still open.
execv(c) ==
  /\ child[c] = "forked"
  /\ \/ /\ child' = [child EXCEPT ![c] = "command"]
        /\ fd' = [fd EXCEPT ![c] = {}]
        /\ UNCHANGED twice
     \/ /\ call[c] = "do_exec"
        /\ child' = [child EXCEPT ![c] = "nonzero"]
        /\ UNCHANGED <<fd, twice>>
     \/ /\ call[c] = "do_exec_redirect"
        /\ child' = [child EXCEPT ![c] = "caller"]
        /\ \E left \in {{}, {"child"}} : fd' = [fd EXCEPT ![c] = left]
        /\ twice' = [twice EXCEPT ![c] = TRUE]
  /\ UNCHANGED <<call, parent, status, ret>>

\* The command ends, or the second caller.
child_exits(c) ==
  /\ child[c] \in {"command", "caller"}
  /\ \E s \in Statuses :
       /\ child' = [child EXCEPT ![c] = s]
       /\ status' = [status EXCEPT ![c] = IF child[c] = "command" THEN s ELSE @]
  /\ fd' = [fd EXCEPT ![c] = @ \ {"child"}]
  /\ UNCHANGED <<call, parent, ret, twice>>

\* Mutant: the status is not looked at.
waitpid_AnyStatus(c) ==
  /\ parent[c] = "waitpid"
  /\ child[c] \in Statuses /\ Returns(c, TRUE) /\ child' = [child EXCEPT ![c] = "none"]
  /\ UNCHANGED <<call, status, fd, twice>>

\* waitpid returns the child's status, or an error at any time; do_exec_redirect
\* returns true after either test of the status.
waitpid(c) ==
  /\ parent[c] = "waitpid"
  /\ \/ /\ child[c] \in Statuses
        /\ Returns(c, call[c] = "do_exec_redirect" \/ child[c] = "zero")
        /\ child' = [child EXCEPT ![c] = "none"]
     \/ Returns(c, FALSE) /\ UNCHANGED child
  /\ UNCHANGED <<call, status, fd, twice>>

Next ==
  \E c \in Callers : \/ do_system(c) \/ open_output(c) \/ fork(c)
                     \/ execv(c) \/ child_exits(c) \/ waitpid(c)

Spec == Init /\ [][Next]_vars

-----------------------------------------------------------------------------
\* True from do_system and do_exec means that the command was run and ended with
\* status 0.
TrueIsSuccess ==
  \A c \in Callers : call[c] # "do_exec_redirect" /\ ret[c] = TRUE => status[c] = "zero"

\* A call of do_exec returns in one process only. One of do_exec_redirect also
\* returns in the child, and only where the command was not run.
ReturnsOnce ==
  \A c \in Callers : twice[c] => call[c] = "do_exec_redirect" /\ status[c] = "none"

\* do_exec_redirect leaves outputfile closed (systemcalls.c:94) in the process that
\* called it, unless fork failed, and in its child unless dup2 failed; the command
\* does not inherit it.
OutputClosed ==
  \A c \in Callers :
    /\ parent[c] = "returned" /\ "parent" \in fd[c] =>
         ret[c] = FALSE /\ child[c] = "none" /\ status[c] = "none"
    /\ "child" \in fd[c] => child[c] = "forked" \/ (child[c] = "caller" /\ twice[c])

=============================================================================
