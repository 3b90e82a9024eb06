----------------------------- MODULE QueueMacros -----------------------------
(***************************************************************************)
(* The list macros of server/queue.h: singly-linked lists, singly-linked   *)
(* tail queues, lists and tail queues, of which the server uses the first. *)
(*                                                                         *)
(* A cell is a list head or an element.  next[c] is the forward pointer of *)
(* the cell (slh_first, stqh_first, lh_first, tqh_first of a head,         *)
(* sle_next ... tqe_next of an element).  prev[c] is its other pointer     *)
(* (stqh_last, tqh_last of a head, le_prev, tqe_prev of an element), the   *)
(* address of a forward pointer and so a cell.  A cell is its address: a   *)
(* head and an entry have the same layout, which TAILQ_LAST and TAILQ_PREV *)
(* rely on when they cast an entry to a head.  A field the kind does not   *)
(* have stays NULL, and an element taken off a list keeps its stale        *)
(* pointers (no QUEUE_MACRO_DEBUG_TRASH).                                  *)
(*                                                                         *)
(* A macro runs to its end in one step: the lists have no locking of their *)
(* own.  In each EXCEPT the assignments stand in the order of the macro's, *)
(* so that two names of one cell have the effect they have in C.           *)
(***************************************************************************)
EXTENDS Integers, Sequences, SequencesExt, FiniteSets, TLC

CONSTANTS Heads, Elems, NULL

ASSUME CellAssumption == Heads \cap Elems = {} /\ NULL \notin Heads \cup Elems

VARIABLES kind, next, prev, op

vars == <<kind, next, prev, op>>

Cells == Heads \cup Elems

(* FOREACH: the elements met from head h on.  A walk that has met more     *)
(* elements than there are is going round a cycle and is cut there.        *)
FOREACH(h) ==
    LET walk[n \in 0 .. Cardinality(Elems) + 1, c \in Elems \cup {NULL}] ==
            IF n = 0 \/ c = NULL THEN <<>> ELSE <<c>> \o walk[n - 1, next[c]]
    IN  walk[Cardinality(Elems) + 1, next[h]]

Members(h) == ToSet(FOREACH(h))

(* Elements on no list: an insertion takes one of these. *)
Free == Elems \ UNION {Members(h) : h \in Heads}

(* The loops of CONCAT and REMOVE: the last element, the one before e. *)
LastOf(h) == Last(FOREACH(h))
Before(h, e) == CHOOSE c \in Members(h) : next[c] = e

-----------------------------------------------------------------------------
(* Singly-linked lists *)

SLIST_INIT(h) == next' = [next EXCEPT ![h] = NULL] /\ UNCHANGED prev

SLIST_INSERT_HEAD(h, e) ==
    next' = [next EXCEPT ![e] = next[h], ![h] = e] /\ UNCHANGED prev

SLIST_INSERT_AFTER(x, e) ==
    next' = [next EXCEPT ![e] = next[x], ![x] = e] /\ UNCHANGED prev

SLIST_REMOVE_HEAD(h) ==
    next' = [next EXCEPT ![h] = next[next[h]]] /\ UNCHANGED prev

SLIST_REMOVE_AFTER(x) ==
    next' = [next EXCEPT ![x] = next[next[x]]] /\ UNCHANGED prev

SLIST_REMOVE(h, e) ==
    \/ next[h] = e /\ SLIST_REMOVE_HEAD(h)
    \/ next[h] # e /\ SLIST_REMOVE_AFTER(Before(h, e))

(* prevp is the address of the pointer to e, as SLIST_FOREACH_PREVPTR      *)
(* leaves it: the head or the element before.                              *)
SLIST_REMOVE_PREVPTR(prevp, e) ==
    next' = [next EXCEPT ![prevp] = next[e]] /\ UNCHANGED prev

(* Mutant: the second head keeps its elements. *)
SLIST_CONCAT_KeepsSecond(h, g) ==
    /\ next' = [next EXCEPT ![IF next[h] = NULL THEN h ELSE LastOf(h)] = next[g]]
    /\ UNCHANGED prev

SLIST_CONCAT(h, g) ==
    /\ next' = IF next[h] = NULL
               THEN [next EXCEPT ![h] = next[g], ![g] = NULL]
               ELSE IF next[g] = NULL THEN next
                    ELSE [next EXCEPT ![LastOf(h)] = next[g], ![g] = NULL]
    /\ UNCHANGED prev

SLIST_SPLIT_AFTER(h, x, g) ==
    next' = [next EXCEPT ![g] = next[x], ![x] = NULL] /\ UNCHANGED prev

SLIST_SWAP(h, g) ==
    next' = [next EXCEPT ![h] = next[g], ![g] = next[h]] /\ UNCHANGED prev

-----------------------------------------------------------------------------
(* Singly-linked tail queues: prev[h] is stqh_last *)

STAILQ_INIT(h) ==
    next' = [next EXCEPT ![h] = NULL] /\ prev' = [prev EXCEPT ![h] = h]

STAILQ_INSERT_HEAD(h, e) ==
    /\ next' = [next EXCEPT ![e] = next[h], ![h] = e]
    /\ prev' = IF next[h] = NULL THEN [prev EXCEPT ![h] = e] ELSE prev

STAILQ_INSERT_AFTER(h, x, e) ==
    /\ next' = [next EXCEPT ![e] = next[x], ![x] = e]
    /\ prev' = IF next[x] = NULL THEN [prev EXCEPT ![h] = e] ELSE prev

STAILQ_INSERT_TAIL(h, e) ==
    /\ next' = [next EXCEPT ![e] = NULL, ![prev[h]] = e]
    /\ prev' = [prev EXCEPT ![h] = e]

(* Mutant: the head keeps pointing at the element that is gone. *)
STAILQ_REMOVE_AFTER_KeepsLast(h, c) ==
    next' = [next EXCEPT ![c] = next[next[c]]] /\ UNCHANGED prev

(* REMOVE_HEAD for the head, REMOVE_AFTER for an element: what follows c   *)
(* is taken out, and c is the last cell if nothing is left behind it.      *)
STAILQ_REMOVE_AFTER(h, c) ==
    /\ next' = [next EXCEPT ![c] = next[next[c]]]
    /\ prev' = IF next[next[c]] = NULL THEN [prev EXCEPT ![h] = c] ELSE prev

STAILQ_REMOVE_HEAD(h) == STAILQ_REMOVE_AFTER(h, h)

STAILQ_REMOVE(h, e) ==
    \/ next[h] = e /\ STAILQ_REMOVE_HEAD(h)
    \/ next[h] # e /\ STAILQ_REMOVE_AFTER(h, Before(h, e))

STAILQ_CONCAT(h, g) ==
    \/ next[g] = NULL /\ UNCHANGED <<next, prev>>
    \/ /\ next[g] # NULL
       /\ next' = [next EXCEPT ![prev[h]] = next[g], ![g] = NULL]
       /\ prev' = [prev EXCEPT ![h] = prev[g], ![g] = g]

STAILQ_SPLIT_AFTER(h, x, g) ==
    \/ next[x] = NULL /\ STAILQ_INIT(g)
    \/ /\ next[x] # NULL
       /\ next' = [next EXCEPT ![g] = next[x], ![x] = NULL]
       /\ prev' = [prev EXCEPT ![g] = prev[h], ![h] = x]

STAILQ_SWAP(h, g) ==
    /\ next' = [next EXCEPT ![h] = next[g], ![g] = next[h]]
    /\ prev' = [prev EXCEPT ![h] = IF next[g] = NULL THEN h ELSE prev[g],
                            ![g] = IF next[h] = NULL THEN g ELSE prev[h]]

STAILQ_REVERSE(h) ==
    LET s == FOREACH(h)
    IN  IF s = <<>> THEN UNCHANGED <<next, prev>>
        ELSE /\ next' = [c \in Cells |->
                            IF c = h THEN Last(s)
                            ELSE IF c = s[1] THEN NULL
                            ELSE IF c \in ToSet(s) THEN Before(h, c)
                            ELSE next[c]]
             /\ prev' = [prev EXCEPT ![h] = s[1]]

-----------------------------------------------------------------------------
(* Lists: prev[e] is le_prev *)

(* c->field.le_prev = v, when there is an element c. *)
SetPrev(p, c, v) == IF c = NULL THEN p ELSE [p EXCEPT ![c] = v]

LIST_INIT(h) == next' = [next EXCEPT ![h] = NULL] /\ UNCHANGED prev

LIST_INSERT_HEAD(h, e) ==
    /\ next' = [next EXCEPT ![e] = next[h], ![h] = e]
    /\ prev' = [SetPrev(prev, next[h], e) EXCEPT ![e] = h]

LIST_INSERT_AFTER(x, e) ==
    /\ next' = [next EXCEPT ![e] = next[x], ![x] = e]
    /\ prev' = [SetPrev(prev, next[x], e) EXCEPT ![e] = x]

LIST_INSERT_BEFORE(x, e) ==
    /\ next' = [next EXCEPT ![e] = x, ![prev[x]] = e]
    /\ prev' = [prev EXCEPT ![e] = prev[x], ![x] = e]

LIST_REMOVE(e) ==
    /\ next' = [next EXCEPT ![prev[e]] = next[e]]
    /\ prev' = SetPrev(prev, next[e], prev[e])

LIST_REMOVE_HEAD(h) == LIST_REMOVE(next[h])

LIST_REPLACE(e, f) ==
    /\ next' = [next EXCEPT ![f] = next[e], ![prev[e]] = f]
    /\ prev' = [SetPrev(prev, next[e], f) EXCEPT ![f] = prev[e]]

LIST_CONCAT(h, g) ==
    LET c == IF next[h] = NULL THEN h ELSE LastOf(h)
    IN  \/ next[g] = NULL /\ UNCHANGED <<next, prev>>
        \/ /\ next[g] # NULL
           /\ next' = [next EXCEPT ![c] = next[g], ![g] = NULL]
           /\ prev' = [prev EXCEPT ![next[g]] = c]

LIST_SPLIT_AFTER(h, x, g) ==
    \/ next[x] = NULL /\ LIST_INIT(g)
    \/ /\ next[x] # NULL
       /\ next' = [next EXCEPT ![g] = next[x], ![x] = NULL]
       /\ prev' = [prev EXCEPT ![next[x]] = g]

LIST_SWAP(h, g) ==
    /\ next' = [next EXCEPT ![h] = next[g], ![g] = next[h]]
    /\ prev' = SetPrev(SetPrev(prev, next[g], h), next[h], g)

LIST_PREV(e, h) == IF prev[e] = h THEN NULL ELSE prev[e]

-----------------------------------------------------------------------------
(* Tail queues: prev[h] is tqh_last, prev[e] is tqe_prev *)

(* The cell whose prev points at the forward pointer of c: the element     *)
(* behind c or, when c is the last cell, the head.                         *)
Behind(h, c) == IF next[c] = NULL THEN h ELSE next[c]

TAILQ_INIT(h) ==
    next' = [next EXCEPT ![h] = NULL] /\ prev' = [prev EXCEPT ![h] = h]

TAILQ_INSERT_HEAD(h, e) ==
    /\ next' = [next EXCEPT ![e] = next[h], ![h] = e]
    /\ prev' = [prev EXCEPT ![Behind(h, h)] = e, ![e] = h]

TAILQ_INSERT_AFTER(h, x, e) ==
    /\ next' = [next EXCEPT ![e] = next[x], ![x] = e]
    /\ prev' = [prev EXCEPT ![Behind(h, x)] = e, ![e] = x]

TAILQ_INSERT_BEFORE(x, e) ==
    /\ next' = [next EXCEPT ![e] = x, ![prev[x]] = e]
    /\ prev' = [prev EXCEPT ![e] = prev[x], ![x] = e]

TAILQ_INSERT_TAIL(h, e) ==
    /\ next' = [next EXCEPT ![e] = NULL, ![prev[h]] = e]
    /\ prev' = [prev EXCEPT ![e] = prev[h], ![h] = e]

TAILQ_REMOVE(h, e) ==
    /\ next' = [next EXCEPT ![prev[e]] = next[e]]
    /\ prev' = [prev EXCEPT ![Behind(h, e)] = prev[e]]

TAILQ_REMOVE_HEAD(h) == TAILQ_REMOVE(h, next[h])

TAILQ_REPLACE(h, e, f) ==
    /\ next' = [next EXCEPT ![f] = next[e], ![prev[e]] = f]
    /\ prev' = [prev EXCEPT ![Behind(h, e)] = f, ![f] = prev[e]]

TAILQ_CONCAT(h, g) ==
    \/ next[g] = NULL /\ UNCHANGED <<next, prev>>
    \/ /\ next[g] # NULL
       /\ next' = [next EXCEPT ![prev[h]] = next[g], ![g] = NULL]
       /\ prev' = [prev EXCEPT ![next[g]] = prev[h], ![h] = prev[g], ![g] = g]

TAILQ_SPLIT_AFTER(h, x, g) ==
    \/ next[x] = NULL /\ TAILQ_INIT(g)
    \/ /\ next[x] # NULL
       /\ next' = [next EXCEPT ![g] = next[x], ![x] = NULL]
       /\ prev' = [prev EXCEPT ![g] = prev[h], ![next[x]] = g, ![h] = x]

TAILQ_SWAP(h, g) ==
    /\ next' = [next EXCEPT ![h] = next[g], ![g] = next[h]]
    /\ prev' = [prev EXCEPT ![h] = prev[g], ![g] = prev[h],
                            ![IF next[g] = NULL THEN h ELSE next[g]] = h,
                            ![IF next[h] = NULL THEN g ELSE next[h]] = g]

(* *((struct headname * )c->last)->last, for a head (TAILQ_LAST) and, with  *)
(* tqe_prev in the place of tqh_last, for an element (TAILQ_PREV).         *)
TAILQ_PREV(c) == next[prev[prev[c]]]
TAILQ_LAST(h) == TAILQ_PREV(h)

TAILQ_LAST_FAST(h) == IF next[h] = NULL THEN NULL ELSE prev[h]

(* Mutant: no test for the first element. *)
TAILQ_PREV_FAST_NoTest(e, h) == prev[e]

TAILQ_PREV_FAST(e, h) == IF prev[e] = h THEN NULL ELSE prev[e]

STAILQ_LAST(h) == IF next[h] = NULL THEN NULL ELSE prev[h]

TAILQ_FOREACH_REVERSE(h) ==
    LET walk[n \in 0 .. Cardinality(Elems) + 1, c \in Elems \cup {NULL}] ==
            IF n = 0 \/ c = NULL THEN <<>> ELSE <<c>> \o walk[n - 1, TAILQ_PREV(c)]
    IN  walk[Cardinality(Elems) + 1, TAILQ_LAST(h)]

-----------------------------------------------------------------------------
(* The assertions.  EMPTY is made of a queue whose first pointer is NULL.  *)

QMD_STAILQ_CHECK_EMPTY(h) == next[h] = NULL => prev[h] = h
QMD_STAILQ_CHECK_TAIL(h) == next[prev[h]] = NULL

QMD_LIST_CHECK_NEXT(c) == next[c] # NULL => prev[next[c]] = c
QMD_LIST_CHECK_HEAD(h) == QMD_LIST_CHECK_NEXT(h)
QMD_LIST_CHECK_PREV(e) == next[prev[e]] = e

QMD_TAILQ_CHECK_HEAD(h) == QMD_LIST_CHECK_HEAD(h)
QMD_TAILQ_CHECK_TAIL(h) == QMD_STAILQ_CHECK_TAIL(h)
QMD_TAILQ_CHECK_NEXT(e) == QMD_LIST_CHECK_NEXT(e)
QMD_TAILQ_CHECK_PREV(e) == QMD_LIST_CHECK_PREV(e)

-----------------------------------------------------------------------------
(* A program using the macros: an operation of the kind of its lists, with *)
(* arguments the macro can be given.                                       *)

Init ==
    /\ kind \in {"SLIST", "STAILQ", "LIST", "TAILQ"}
    /\ next = [c \in Cells |-> NULL]
    /\ prev = [c \in Cells |->
                IF c \in Heads /\ kind \in {"STAILQ", "TAILQ"} THEN c ELSE NULL]
    /\ op = <<"NONE">>

Do(k, o) == kind = k /\ op' = o /\ UNCHANGED kind

Slist(h) ==
    \/ Do("SLIST", <<"INIT", h>>) /\ SLIST_INIT(h)
    \/ \E e \in Free : Do("SLIST", <<"INSERT_HEAD", h, h, e>>) /\ SLIST_INSERT_HEAD(h, e)
    \/ \E x \in Members(h), e \in Free :
        Do("SLIST", <<"INSERT_AFTER", h, x, e>>) /\ SLIST_INSERT_AFTER(x, e)
    \/ \E e \in Members(h) :
        \/ Do("SLIST", <<"REMOVE", h, e>>) /\ SLIST_REMOVE(h, e)
        \/ next[h] = e /\ Do("SLIST", <<"REMOVE_HEAD", h, e>>) /\ SLIST_REMOVE_HEAD(h)
        \/ next[e] # NULL /\ Do("SLIST", <<"REMOVE_AFTER", h, next[e]>>) /\ SLIST_REMOVE_AFTER(e)
        \/ \E c \in {h} \cup Members(h) :
            next[c] = e /\ Do("SLIST", <<"REMOVE", h, e>>) /\ SLIST_REMOVE_PREVPTR(c, e)
    \/ \E g \in Heads \ {h} :
        \/ Do("SLIST", <<"CONCAT", h, g>>) /\ SLIST_CONCAT(h, g)
        \/ Do("SLIST", <<"SWAP", h, g>>) /\ SLIST_SWAP(h, g)
        \/ \E x \in Members(h) :
            Do("SLIST", <<"SPLIT_AFTER", h, x, g>>) /\ SLIST_SPLIT_AFTER(h, x, g)

Stailq(h) ==
    \/ Do("STAILQ", <<"INIT", h>>) /\ STAILQ_INIT(h)
    \/ Do("STAILQ", <<"REVERSE", h>>) /\ STAILQ_REVERSE(h)
    \/ \E e \in Free :
        \/ Do("STAILQ", <<"INSERT_HEAD", h, h, e>>) /\ STAILQ_INSERT_HEAD(h, e)
        \/ Do("STAILQ", <<"INSERT_TAIL", h, h, e>>) /\ STAILQ_INSERT_TAIL(h, e)
        \/ \E x \in Members(h) :
            Do("STAILQ", <<"INSERT_AFTER", h, x, e>>) /\ STAILQ_INSERT_AFTER(h, x, e)
    \/ \E e \in Members(h) :
        \/ Do("STAILQ", <<"REMOVE", h, e>>) /\ STAILQ_REMOVE(h, e)
        \/ next[h] = e /\ Do("STAILQ", <<"REMOVE_HEAD", h, e>>) /\ STAILQ_REMOVE_HEAD(h)
        \/ next[e] # NULL /\ Do("STAILQ", <<"REMOVE_AFTER", h, next[e]>>) /\ STAILQ_REMOVE_AFTER(h, e)
    \/ \E g \in Heads \ {h} :
        \/ Do("STAILQ", <<"CONCAT", h, g>>) /\ STAILQ_CONCAT(h, g)
        \/ Do("STAILQ", <<"SWAP", h, g>>) /\ STAILQ_SWAP(h, g)
        \/ \E x \in Members(h) :
            Do("STAILQ", <<"SPLIT_AFTER", h, x, g>>) /\ STAILQ_SPLIT_AFTER(h, x, g)

List(h) ==
    \/ Do("LIST", <<"INIT", h>>) /\ LIST_INIT(h)
    \/ \E e \in Free : Do("LIST", <<"INSERT_HEAD", h, h, e>>) /\ LIST_INSERT_HEAD(h, e)
    \/ \E x \in Members(h), e \in Free :
        \/ Do("LIST", <<"INSERT_AFTER", h, x, e>>) /\ LIST_INSERT_AFTER(x, e)
        \/ Do("LIST", <<"INSERT_BEFORE", h, x, e>>) /\ LIST_INSERT_BEFORE(x, e)
        \/ Do("LIST", <<"REPLACE", h, x, e>>) /\ LIST_REPLACE(x, e)
    \/ \E e \in Members(h) :
        \/ Do("LIST", <<"REMOVE", h, e>>) /\ LIST_REMOVE(e)
        \/ next[h] = e /\ Do("LIST", <<"REMOVE_HEAD", h, e>>) /\ LIST_REMOVE_HEAD(h)
    \/ \E g \in Heads \ {h} :
        \/ Do("LIST", <<"CONCAT", h, g>>) /\ LIST_CONCAT(h, g)
        \/ Do("LIST", <<"SWAP", h, g>>) /\ LIST_SWAP(h, g)
        \/ \E x \in Members(h) :
            Do("LIST", <<"SPLIT_AFTER", h, x, g>>) /\ LIST_SPLIT_AFTER(h, x, g)

Tailq(h) ==
    \/ Do("TAILQ", <<"INIT", h>>) /\ TAILQ_INIT(h)
    \/ \E e \in Free :
        \/ Do("TAILQ", <<"INSERT_HEAD", h, h, e>>) /\ TAILQ_INSERT_HEAD(h, e)
        \/ Do("TAILQ", <<"INSERT_TAIL", h, h, e>>) /\ TAILQ_INSERT_TAIL(h, e)
    \/ \E x \in Members(h), e \in Free :
        \/ Do("TAILQ", <<"INSERT_AFTER", h, x, e>>) /\ TAILQ_INSERT_AFTER(h, x, e)
        \/ Do("TAILQ", <<"INSERT_BEFORE", h, x, e>>) /\ TAILQ_INSERT_BEFORE(x, e)
        \/ Do("TAILQ", <<"REPLACE", h, x, e>>) /\ TAILQ_REPLACE(h, x, e)
    \/ \E e \in Members(h) :
        \/ Do("TAILQ", <<"REMOVE", h, e>>) /\ TAILQ_REMOVE(h, e)
        \/ next[h] = e /\ Do("TAILQ", <<"REMOVE_HEAD", h, e>>) /\ TAILQ_REMOVE_HEAD(h)
    \/ \E g \in Heads \ {h} :
        \/ Do("TAILQ", <<"CONCAT", h, g>>) /\ TAILQ_CONCAT(h, g)
        \/ Do("TAILQ", <<"SWAP", h, g>>) /\ TAILQ_SWAP(h, g)
        \/ \E x \in Members(h) :
            Do("TAILQ", <<"SPLIT_AFTER", h, x, g>>) /\ TAILQ_SPLIT_AFTER(h, x, g)

Next == \E h \in Heads : Slist(h) \/ Stailq(h) \/ List(h) \/ Tailq(h)

Spec == Init /\ [][Next]_vars

-----------------------------------------------------------------------------
(* Properties *)

(* Every macro does to the sequences its lists stand for what its name     *)
(* says, and nothing to any other list: the pointers implement Queues.     *)
Abstract == INSTANCE Queues WITH lists <- [h \in Heads |-> FOREACH(h)]
ImplementsQueues == Abstract!Spec

(* What the header's own assertions validate before they touch a list is   *)
(* true of every list any sequence of operations leaves, so that a build   *)
(* with QUEUE_MACRO_DEBUG_ASSERTIONS never panics.                         *)
ChecksHold ==
    \A h \in Heads :
        /\ kind = "STAILQ" => QMD_STAILQ_CHECK_EMPTY(h) /\ QMD_STAILQ_CHECK_TAIL(h)
        /\ kind = "LIST" => /\ QMD_LIST_CHECK_HEAD(h)
                            /\ \A e \in Members(h) :
                                QMD_LIST_CHECK_NEXT(e) /\ QMD_LIST_CHECK_PREV(e)
        /\ kind = "TAILQ" => /\ QMD_TAILQ_CHECK_HEAD(h) /\ QMD_TAILQ_CHECK_TAIL(h)
                             /\ \A e \in Members(h) :
                                QMD_TAILQ_CHECK_NEXT(e) /\ QMD_TAILQ_CHECK_PREV(e)

(* The readers that go backwards agree with the walk forwards: LAST and    *)
(* its fast form give the last element, PREV and its fast form the element *)
(* before, FOREACH_REVERSE the reverse of FOREACH.                         *)
BackwardsAgrees ==
    \A h \in Heads :
        LET s == FOREACH(h)
            last == IF s = <<>> THEN NULL ELSE Last(s)
            before(i) == IF i = 1 THEN NULL ELSE s[i - 1]
        IN  /\ kind = "STAILQ" => STAILQ_LAST(h) = last
            /\ kind = "LIST" => \A i \in DOMAIN s : LIST_PREV(s[i], h) = before(i)
            /\ kind = "TAILQ" =>
                /\ TAILQ_LAST(h) = last /\ TAILQ_LAST_FAST(h) = last
                /\ TAILQ_FOREACH_REVERSE(h) = Reverse(s)
                /\ \A i \in DOMAIN s : TAILQ_PREV_FAST(s[i], h) = before(i)
=============================================================================
