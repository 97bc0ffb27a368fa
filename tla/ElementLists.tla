---------------------------- MODULE ElementLists ----------------------------
(***************************************************************************)
(* What p2/exp2/SortedList.c does with its lists, seen from outside: every *)
(* list is a sequence of elements, an element is on at most one of them,   *)
(* an insertion puts it at the front and a deletion takes it out, each in  *)
(* one step.  The header promises a sorted insertion instead: that is      *)
(* StaysSorted of SortedList, which the code does not keep.                *)
(***************************************************************************)
EXTENDS Sequences, SequencesExt

CONSTANTS Lists, Elements

VARIABLE lists          \* list -> the elements on it, from the head on

OnSomeList == UNION {ToSet(lists[l]) : l \in Lists}

Init == lists = [l \in Lists |-> << >>]

Insert(l) == \E e \in (Elements \ OnSomeList) \cap ToSet(lists'[l]) :
               lists' = [lists EXCEPT ![l] = <<e>> \o @]

Delete(l) == /\ Len(lists'[l]) < Len(lists[l])
             /\ \E k \in DOMAIN lists[l] : lists' = [lists EXCEPT ![l] = RemoveAt(@, k)]

Next == \E l \in Lists : Insert(l) \/ Delete(l)

Spec == Init /\ [][Next]_lists
=============================================================================
