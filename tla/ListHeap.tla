------------------------------ MODULE ListHeap ------------------------------
(***************************************************************************)
(* p2/exp2/SortedList.c: circular doubly linked lists whose heads are      *)
(* elements themselves, as operators on a heap of pointers,                *)
(* [next, prev]: node -> node.                                             *)
(***************************************************************************)
EXTENDS Integers, FiniteSets, Sequences

CONSTANT Uninit         \* a pointer of an element fresh from malloc

\* alloc_lists: a head that is alone points to itself
Fresh(heads, elements) ==
  LET self == [n \in heads \cup elements |-> IF n \in heads THEN n ELSE Uninit]
  IN  [next |-> self, prev |-> self]

\* Mutant: the last store of the insertion is missing.
Linked_half(h, l, e) ==
  LET curr   == h.next[l]
      before == h.prev[curr]
  IN  [next |-> [h.next EXCEPT ![e] = curr, ![before] = e],
       prev |-> [h.prev EXCEPT ![e] = before]]

\* Mutant: the insertion that p2/exp1/SortedList.c performs, which starts from
\* the head and so ends up at the tail.
Linked_tail(h, l, e) ==
  LET before == h.prev[l]
  IN  [next |-> [h.next EXCEPT ![e] = l, ![before] = e],
       prev |-> [h.prev EXCEPT ![e] = before, ![l] = e]]

\* SortedList_insert: in front of the first element.  The loop that looks for
\* the place of the key is compiled out.
Linked(h, l, e) ==
  LET curr   == h.next[l]
      before == h.prev[curr]
  IN  [next |-> [h.next EXCEPT ![e] = curr, ![before] = e],
       prev |-> [h.prev EXCEPT ![e] = before, ![curr] = e]]

\* Both neighbours point back, which SortedList_delete and SortedList_length
\* check of an element.
Intact(h, e) == /\ h.next[e] # Uninit
                /\ h.prev[h.next[e]] = e
                /\ h.next[h.prev[e]] = e

\* Mutant: the deletion leaves the prev pointer of the next element behind.
Unlinked_half(h, e) ==
  [h EXCEPT !.next[h.prev[e]] = h.next[e]]

Unlinked(h, e) ==
  [next |-> [h.next EXCEPT ![h.prev[e]] = h.next[e]],
   prev |-> [h.prev EXCEPT ![h.next[e]] = h.prev[e]]]

-----------------------------------------------------------------------------
\* The walk of SortedList_length along next, until it is back at the head: the
\* elements that it meets from each node on, in so many steps at most
Ahead(h, l) ==
  LET from[most \in Nat] ==
        [n \in DOMAIN h.next \cup {Uninit} |->
           IF most > 0 /\ n \in DOMAIN h.next \ {l}
           THEN <<n>> \o from[most - 1][h.next[n]] ELSE << >>]
  IN  from

\* All that it meets: no list is longer than there are nodes.
Contents(h, l) == Ahead(h, l)[Cardinality(DOMAIN h.next)][h.next[l]]

\* SortedList_length: the walk gives up at the first element whose neighbours
\* do not point back.
Length(h, l) ==
  LET s == Contents(h, l)
  IN  IF \A k \in DOMAIN s : Intact(h, s[k]) THEN Len(s) ELSE -1
=============================================================================
