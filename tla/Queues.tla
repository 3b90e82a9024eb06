------------------------------- MODULE Queues -------------------------------
(***************************************************************************)
(* What the list macros of server/queue.h promise, whatever the pointers   *)
(* they keep: every head stands for a sequence of distinct elements, no    *)
(* element is on two lists, and an operation changes the sequences of the  *)
(* heads it names and nothing else.  op is the operation just done, with   *)
(* its arguments, so that an implementation cannot answer one operation    *)
(* with the effect of another.                                             *)
(***************************************************************************)
EXTENDS Integers, Sequences, SequencesExt, TLC

CONSTANTS Heads, Elems

VARIABLES lists, op

Free == Elems \ UNION {ToSet(lists[h]) : h \in Heads}

(* The operation o: the lists of f become what f says, the others stay. *)
Do(o, f) == op' = o /\ lists' = f @@ lists

Insert(name, h, i, x, e) ==
    Do(<<name, h, x, e>>, h :> InsertAt(lists[h], i, e))

Unlink(name, h, i) == Do(<<name, h, lists[h][i]>>, h :> RemoveAt(lists[h], i))

Init == lists = [h \in Heads |-> <<>>] /\ op = <<"NONE">>

OneList(h) ==
    \/ Do(<<"INIT", h>>, h :> <<>>)
    \/ Do(<<"REVERSE", h>>, h :> Reverse(lists[h]))
    \/ \E e \in Free :
        \/ Insert("INSERT_HEAD", h, 1, h, e)
        \/ Insert("INSERT_TAIL", h, Len(lists[h]) + 1, h, e)
        \/ \E i \in DOMAIN lists[h] :
            \/ Insert("INSERT_BEFORE", h, i, lists[h][i], e)
            \/ Insert("INSERT_AFTER", h, i + 1, lists[h][i], e)
            \/ Do(<<"REPLACE", h, lists[h][i], e>>, h :> [lists[h] EXCEPT ![i] = e])
    \/ \E i \in DOMAIN lists[h] :
        \/ Unlink("REMOVE", h, i)
        \/ i = 1 /\ Unlink("REMOVE_HEAD", h, i)
        \/ i > 1 /\ Unlink("REMOVE_AFTER", h, i)

TwoLists(h, g) ==
    \/ Do(<<"SWAP", h, g>>, h :> lists[g] @@ g :> lists[h])
    \/ Do(<<"CONCAT", h, g>>, h :> lists[h] \o lists[g] @@ g :> <<>>)
    \/ \E i \in DOMAIN lists[h] :
        Do(<<"SPLIT_AFTER", h, lists[h][i], g>>,
           h :> SubSeq(lists[h], 1, i)
           @@ g :> SubSeq(lists[h], i + 1, Len(lists[h])))

Next ==
    \/ \E h \in Heads : OneList(h)
    \/ \E h, g \in Heads : h # g /\ TwoLists(h, g)

Spec == Init /\ [][Next]_<<lists, op>>
=============================================================================
